------------------------- MODULE StudioClientProofs -------------------------
(***************************************************************************)
(* Under any pages, networks and answers the rows take steps of the        *)
(* lifecycle only, so that all that DefinitionLifecycleProofs shows of it  *)
(* holds; and what a page tells a HUMAN of a write is true.                *)
(***************************************************************************)
EXTENDS StudioClient, DefinitionLifecycleProofs, FiniteSetTheorems

-----------------------------------------------------------------------------
(* The rows.                                                               *)

\* A tab alone writes no row.
LEMMA PagesWriteNothing ==
    ASSUME AuthoringNext \/ DeskNext
    PROVE  UNCHANGED dbvars
<1>1. CASE AuthoringNext
  <2>1. ASSUME NEW t \in Editor, OpenDefinition(t) \/ BeginPreview(t) \/ SendPreview(t) \/ EndPreview(t)
        PROVE  UNCHANGED dbvars
    BY <2>1 DEF OpenDefinition, BeginPreview, SendPreview, EndPreview
  <2>2. ASSUME NEW t, NEW m, Edit(t, m)
        PROVE  UNCHANGED dbvars
    BY <2>2 DEF Edit
  <2>3. ASSUME NEW t, NEW r, BeginSave(t, r) \/ SendSave(t, r) \/ SubmitBootstrap(t, r)
        PROVE  UNCHANGED dbvars
    BY <2>3 DEF BeginSave, SendSave, SubmitBootstrap
  <2>4. ASSUME NEW t, Reconcile(t) \/ LeavePage(t)
        PROVE  UNCHANGED dbvars
    BY <2>4 DEF Reconcile, LeavePage
  <2>5. ASSUME NEW t, NEW r, SaveUnknown(t, r) \/ SaveVerified(t, r) \/ SaveRefused(t, r)
        PROVE  UNCHANGED dbvars
    BY <2>5 DEF SaveUnknown, SaveVerified, SaveRefused
  <2> QED
    BY <1>1, <2>1, <2>2, <2>3, <2>4, <2>5 DEF AuthoringNext
<1>2. CASE DeskNext
  <2>1. ASSUME NEW t, ManualRefresh(t) \/ PrepareAttempt(t)
        PROVE  UNCHANGED dbvars
    BY <2>1 DEF ManualRefresh, PrepareAttempt, BeginRead
  <2>2. ASSUME NEW t, NEW r, ImportValidationTicket(t, r) \/ SealAttempt(t, r)
        PROVE  UNCHANGED dbvars
    BY <2>2 DEF ImportValidationTicket, BeginRead, SealAttempt
  <2>3. ASSUME NEW t, \/ FetchDefinition(t) \/ Refreshed(t) \/ Drifted(t) \/ TicketRestored(t)
                      \/ ReadFails(t) \/ RetainTicket(t) \/ DiscardUnsentAttempt(t)
        PROVE  UNCHANGED dbvars
    BY <2>3 DEF FetchDefinition, Refreshed, Drifted, TicketRestored, ReadFails, RetainTicket,
                DiscardUnsentAttempt
  <2>4. ASSUME NEW t, \/ ExecuteAttempt(t) \/ ReplayValidation(t) \/ AttemptUnknown(t)
                      \/ AttemptVerified(t) \/ AttemptRefused(t) \/ RecoverPublication(t)
                      \/ LeaveDesk(t)
        PROVE  UNCHANGED dbvars
    BY <2>4 DEF ExecuteAttempt, ReplayValidation, Perform, AttemptUnknown, AttemptVerified,
                AttemptRefused, RecoverPublication, LeaveDesk
  <2> QED
    BY <1>2, <2>1, <2>2, <2>3, <2>4 DEF DeskNext
<1> QED
  BY <1>1, <1>2

LEMMA RowsStep ==
    ASSUME [ClientNext]_allvars
    PROVE  [LifecycleNext]_dbvars
<1>1. CASE AuthoringNext \/ DeskNext
  BY <1>1, PagesWriteNothing
<1>2. CASE ServerNext
  BY <1>2 DEF ServerNext, Serve, ServeOrphan, ServerStep, ElsewhereStep, Elsewhere, LifecycleNext
<1>3. CASE UNCHANGED allvars
  BY <1>3 DEF allvars
<1> QED
  BY <1>1, <1>2, <1>3 DEF ClientNext

\* Whatever pages, networks and other people do, the rows take steps of the
\* lifecycle only.
THEOREM LifecycleServed == ClientSpec => ServesLifecycle
<1>1. ClientInit => LifecycleInit
  BY DEF ClientInit
<1>2. [ClientNext]_allvars => [LifecycleNext]_dbvars
  BY RowsStep
<1> QED
  BY <1>1, <1>2, PTL DEF ClientSpec, ServesLifecycle, LifecycleSpec

\* What is proved of the lifecycle holds under its clients.
COROLLARY ChainUnderClients ==
    ClientSpec => [](PublishedChain /\ PinsExact /\ ReviewedBytes /\ KeyBindsOneIntent)
  BY LifecycleServed, ChainHolds, PinsAreExact, BytesAreReviewed, KeysBindOneIntent, PTL
  DEF ServesLifecycle

-----------------------------------------------------------------------------
(* What of a request is committed.                                         *)

LEMMA OperationCommits ==
    ASSUME NEW q \in Request, Operation(q)
    PROVE  /\ ~Committed(q) /\ Committed(q)'
           /\ \A r \in Request : r # q => (Committed(r)' <=> Committed(r))
<1>1. Allowed(q) /\ BoundRequests(q) = {}
  BY OperationWrites DEF Allowed
<1>2. CASE q.op \in WriteOp /\ HumanWrite(q, AfterRow(q))
  <2> DEFINE new == [key |-> q.key, request |-> q, after |-> AfterRow(q)]
  <2>1. receipts' = receipts \cup {new} /\ publications' = publications
    BY <1>2 DEF HumanWrite
  <2>2. new.key = q.key /\ new.request = q
    OBVIOUS
  <2> HIDE DEF new
  <2>3. ASSUME NEW r \in Request, r.op \in WriteOp
        PROVE  Committed(r)' <=> Committed(r) \/ (r.key = q.key /\ r = q)
    <3>1. Committed(r) <=> \E e \in receipts : e.key = r.key /\ e.request = r
      BY <2>3 DEF Committed, BoundRequests
    <3>2. Committed(r)' <=> \E e \in receipts' : e.key = r.key /\ e.request = r
      BY <2>3 DEF Committed, BoundRequests
    <3> QED
      BY <2>1, <2>2, <3>1, <3>2
  <2>4. ASSUME NEW r \in Request, r.op \notin WriteOp
        PROVE  Committed(r)' <=> Committed(r)
    BY <2>1, <2>4 DEF Committed, BoundRequests, PublicationsOf
  <2> QED
    BY <1>1, <1>2, <2>3, <2>4 DEF Committed
<1>3. CASE q.op \in PublicationOp /\ Publish(q, AfterRow(q))
  <2> DEFINE new == [project |-> q.project, definition |-> q.target, key |-> q.key,
                     request |-> q, workspace |-> q.workspace]
  <2>1. publications' = publications \cup {new} /\ receipts' = receipts
    BY <1>3 DEF Publish
  <2>2. new.key = q.key /\ new.request = q /\ new.project = q.project
    OBVIOUS
  <2> HIDE DEF new
  <2>3. ASSUME NEW r \in Request, r.op \notin WriteOp
        PROVE  Committed(r)' <=> Committed(r) \/ (r.project = q.project /\ r.key = q.key /\ r = q)
    <3>1. Committed(r) <=>
             \E e \in publications : e.project = r.project /\ e.key = r.key /\ e.request = r
      BY <2>3 DEF Committed, BoundRequests, PublicationsOf
    <3>2. Committed(r)' <=>
             \E e \in publications' : e.project = r.project /\ e.key = r.key /\ e.request = r
      BY <2>3 DEF Committed, BoundRequests, PublicationsOf
    <3> QED
      BY <2>1, <2>2, <3>1, <3>2
  <2>4. ASSUME NEW r \in Request, r.op \in WriteOp
        PROVE  Committed(r)' <=> Committed(r)
    BY <2>1, <2>4 DEF Committed, BoundRequests
  <2>5. q.op \notin WriteOp
    BY <1>3 DEF PublicationOp, WriteOp
  <2> QED
    BY <1>1, <2>3, <2>4, <2>5 DEF Committed
<1> QED
  BY <1>2, <1>3, OperationWrites

LEMMA UnchangedCommits ==
    ASSUME UNCHANGED dbvars, NEW r
    PROVE  Committed(r)' <=> Committed(r)
  BY DEF dbvars, Committed, BoundRequests, PublicationsOf

-----------------------------------------------------------------------------
(* Types.                                                                  *)

TypeInv == ClientTypeOK /\ IsFiniteSet(publications)

LEMMA RowsTyped ==
    ASSUME TypeInv, [LifecycleNext]_dbvars
    PROVE  TypeOK' /\ IsFiniteSet(publications)'
<1>1. CASE UNCHANGED dbvars
  BY <1>1 DEF TypeInv, ClientTypeOK, TypeOK, dbvars
<1>2. ASSUME NEW r \in Request, Operation(r)
      PROVE  TypeOK' /\ IsFiniteSet(publications)'
  <2>1. TypeOK /\ AfterRow(r) \in DefinitionRow
    BY <1>2, AfterRowType, OperationWrites DEF TypeInv, ClientTypeOK, Allowed
  <2>2. TypeOK'
    BY <1>2, <2>1, OperationWrites, HumanWriteType, PublishType
  <2>3. \/ publications' = publications
        \/ \E row : publications' = publications \cup {row}
    BY <1>2, OperationWrites DEF HumanWrite, Publish
  <2> QED
    BY <2>2, <2>3, FS_AddElement DEF TypeInv
<1> QED
  BY <1>1, <1>2 DEF LifecycleNext

LEMMA TypesInitially == ClientInit => TypeInv
<1> SUFFICES ASSUME ClientInit
             PROVE  TypeInv
  OBVIOUS
<1>1. TypeOK /\ publications = {}
  BY DEF ClientInit, LifecycleInit, TypeOK
<1>2. Blank \in PageRecord
  BY DEF Blank, PageRecord
<1>3. Cleared \in DeskRecord
  BY DEF Cleared, DeskRecord
<1>4. ASSUME NEW t \in Publisher
      PROVE  desk[t].reading = "none" /\ ~desk[t].retained /\ ~desk[t].unknown
  BY DEF ClientInit, Cleared
<1> QED
  BY <1>1, <1>2, <1>3, <1>4, FS_EmptySet DEF ClientInit, TypeInv, ClientTypeOK

ClientRows ==
    /\ call \in [Request -> {"unused", "drawn", "sent", "resent", "done"}]
    /\ reply \in [Request -> Answer \cup {None}]
    /\ orphans \subseteq Request /\ tickets \subseteq Request /\ doubted \subseteq Request
    /\ verdict \in [Request -> {"none", "committed", "refused"}]

DeskRows ==
    /\ desk \in [Publisher -> DeskRecord]
    /\ \A t \in Publisher :
          /\ desk[t].reading # "none" => desk[t].busy /\ desk[t].sealed = None
          /\ desk[t].reading = "import" => desk[t].ticket # None
          /\ desk[t].retained \/ desk[t].unknown => desk[t].sealed # None

PageRows == page \in [Entry \cup Editor -> PageRecord]

LEMMA TypeParts == ClientTypeOK <=> TypeOK /\ PageRows /\ DeskRows /\ ClientRows
  BY DEF ClientTypeOK, PageRows, DeskRows, ClientRows

\* The calls rs are abandoned.
LEMMA AbandonTyped ==
    ASSUME ClientRows, NEW rs \in SUBSET Request, Abandon(rs),
           UNCHANGED <<tickets, verdict>>
    PROVE  ClientRows'
  BY DEF ClientRows, Abandon

LEMMA ServerTyped ==
    ASSUME ClientRows, PageRows, DeskRows, ServerNext
    PROVE  ClientRows' /\ PageRows' /\ DeskRows'
<1>1. ASSUME NEW r \in Request, NEW g \in BOOLEAN, Serve(r, g)
      PROVE  ClientRows' /\ PageRows' /\ DeskRows'
  <2>1. ServerAnswer(r, g) \in Answer
    BY DEF ServerAnswer, Answer
  <2> QED
    BY <1>1, <2>1 DEF Serve, ClientRows, PageRows, DeskRows
<1>2. ASSUME NEW r \in Request, NEW g \in BOOLEAN, ServeOrphan(r, g)
      PROVE  ClientRows' /\ PageRows' /\ DeskRows'
  BY <1>2 DEF ServeOrphan, ClientRows, PageRows, DeskRows
<1>3. ASSUME NEW r \in Elsewhere, ElsewhereStep(r)
      PROVE  ClientRows' /\ PageRows' /\ DeskRows'
  BY <1>3 DEF ElsewhereStep, clientvars, ClientRows, PageRows, DeskRows
<1> QED
  BY <1>1, <1>2, <1>3 DEF ServerNext

LEMMA PageTyped ==
    ASSUME PageRows, NEW t \in Entry \cup Editor, NEW v \in PageRecord,
           page' = [page EXCEPT ![t] = v]
    PROVE  PageRows'
  BY DEF PageRows

LEMMA CallTyped ==
    ASSUME ClientRows, NEW r \in Request,
           NEW s \in {"unused", "drawn", "sent", "resent", "done"},
           call' = [call EXCEPT ![r] = s],
           UNCHANGED <<reply, orphans, tickets, doubted, verdict>>
    PROVE  ClientRows'
  BY DEF ClientRows

LEMMA AuthoringTyped ==
    ASSUME TypeOK, ClientRows, PageRows, DeskRows, AuthoringNext
    PROVE  ClientRows' /\ PageRows' /\ DeskRows'
<1> USE DEF PageRecord
<1>0. page \in [Entry \cup Editor -> PageRecord]
  BY DEF PageRows
<1>1. ASSUME NEW t \in Editor, OpenDefinition(t)
      PROVE  ClientRows' /\ PageRows' /\ DeskRows'
  <2>1. definitions[PageOf[t]] \in DefinitionRow
    BY <1>1, TabAssumption DEF OpenDefinition, Exists, TypeOK
  <2>2. definitions[PageOf[t]].manifest \in Manifest
    BY <2>1 DEF DefinitionRow
  <2> DEFINE m == definitions[PageOf[t]].manifest
             e == definitions[PageOf[t]].status = "DRAFT"
             v == [page[t] EXCEPT !.base = m, !.draft = m, !.editable = e]
  <2>3. page' = [page EXCEPT ![t] = v]
    <3> HIDE DEF m
    <3> QED
      BY <1>0, <1>1 DEF OpenDefinition, m
  <2>4. v \in PageRecord
    <3>1. e \in BOOLEAN
      OBVIOUS
    <3> HIDE DEF m, e
    <3> QED
      BY <1>0, <2>2, <3>1 DEF m
  <2>5. PageRows'
    BY <2>3, <2>4, PageTyped
  <2> QED
    BY <1>1, <2>5 DEF OpenDefinition, ClientRows, DeskRows
<1>2. ASSUME NEW t \in Editor, BeginPreview(t) \/ SendPreview(t) \/ EndPreview(t)
      PROVE  ClientRows' /\ PageRows' /\ DeskRows'
  <2>1. \/ page' = [page EXCEPT ![t] = [page[t] EXCEPT !.preview = "hashing"]]
        \/ page' = [page EXCEPT ![t] = [page[t] EXCEPT !.preview = "sent", !.busy = TRUE]]
        \/ page' = [page EXCEPT ![t] = [page[t] EXCEPT !.preview = "none", !.busy = FALSE]]
    BY <1>0, <1>2 DEF BeginPreview, SendPreview, EndPreview
  <2>2. /\ [page[t] EXCEPT !.preview = "hashing"] \in PageRecord
        /\ [page[t] EXCEPT !.preview = "sent", !.busy = TRUE] \in PageRecord
        /\ [page[t] EXCEPT !.preview = "none", !.busy = FALSE] \in PageRecord
    BY <1>0
  <2> HIDE DEF PageRecord
  <2>3. PageRows'
    BY <2>1, <2>2, PageTyped
  <2> QED
    BY <1>2, <2>3 DEF BeginPreview, SendPreview, EndPreview, ClientRows, DeskRows
<1>3. ASSUME NEW t \in Editor, NEW m \in Manifest, Edit(t, m)
      PROVE  ClientRows' /\ PageRows' /\ DeskRows'
  <2>1. page' = [page EXCEPT ![t] = [page[t] EXCEPT !.draft = m, !.dirty = TRUE]]
    BY <1>0, <1>3 DEF Edit
  <2>2. PageRows'
    BY <1>0, <2>1, PageTyped
  <2> QED
    BY <1>3, <2>2 DEF Edit, ClientRows, DeskRows
<1>4. ASSUME NEW t \in Entry \cup Editor, NEW r \in Request,
             BeginSave(t, r) \/ SendSave(t, r) \/ SubmitBootstrap(t, r)
      PROVE  ClientRows' /\ PageRows' /\ DeskRows'
  <2>1. ClientRows'
    BY <1>4, CallTyped DEF BeginSave, SendSave, SubmitBootstrap
  <2>2. page' = page \/ page' = [page EXCEPT ![t] = [page[t] EXCEPT !.busy = TRUE]]
    BY <1>0, <1>4 DEF BeginSave, SendSave, SubmitBootstrap
  <2>3. PageRows'
    <3> DEFINE v == [page[t] EXCEPT !.busy = TRUE]
    <3>1. v \in PageRecord
      BY <1>0
    <3>2. CASE page' = page
      BY <3>2 DEF PageRows
    <3>3. CASE page' = [page EXCEPT ![t] = v]
      <4> HIDE DEF v
      <4> QED
        BY <3>1, <3>3, PageTyped
    <3> QED
      BY <2>2, <3>2, <3>3
  <2> QED
    BY <1>4, <2>1, <2>3 DEF BeginSave, SendSave, SubmitBootstrap, DeskRows
<1>5. ASSUME NEW t \in Entry \cup Editor, Reconcile(t)
      PROVE  ClientRows' /\ PageRows' /\ DeskRows'
  <2>1. page[t].unresolved \in Request
    BY <1>0, <1>5 DEF Reconcile
  <2>2. ClientRows'
    BY <1>5, <2>1, CallTyped DEF Reconcile
  <2>3. page' = [page EXCEPT ![t] = [page[t] EXCEPT !.busy = TRUE]]
    BY <1>0, <1>5 DEF Reconcile
  <2>4. PageRows'
    BY <1>0, <2>3, PageTyped
  <2> QED
    BY <1>5, <2>2, <2>4 DEF Reconcile, DeskRows
<1>6. ASSUME NEW t \in Entry \cup Editor, LeavePage(t)
      PROVE  ClientRows' /\ PageRows' /\ DeskRows'
  <2>1. Blank \in PageRecord
    BY DEF Blank
  <2>2. ClientRows'
    <3> DEFINE rs == {r \in Mine(t) : call[r] \in {"drawn", "sent", "resent"}}
    <3>1. rs \in SUBSET Request
      BY DEF Mine
    <3>2. Abandon(rs) /\ UNCHANGED <<tickets, verdict>>
      BY <1>6 DEF LeavePage
    <3> QED
      BY <3>1, <3>2, AbandonTyped
  <2> QED
    BY <1>6, <2>1, <2>2, PageTyped DEF LeavePage, DeskRows
<1>7. ASSUME NEW t \in Entry \cup Editor, NEW r \in Request, SaveUnknown(t, r)
      PROVE  ClientRows' /\ PageRows' /\ DeskRows'
  <2>1. ClientRows'
    BY <1>7, AbandonTyped DEF SaveUnknown
  <2> DEFINE v == [page[t] EXCEPT !.unresolved = r, !.busy = FALSE]
  <2>2. page' = [page EXCEPT ![t] = v]
    BY <1>0, <1>7 DEF SaveUnknown
  <2>3. PageRows'
    <3>1. v \in PageRecord
      BY <1>0
    <3> HIDE DEF v
    <3> QED
      BY <2>2, <3>1, PageTyped
  <2> QED
    BY <1>7, <2>1, <2>3 DEF SaveUnknown, DeskRows
<1>8. ASSUME NEW t \in Entry \cup Editor, NEW r \in Request, SaveVerified(t, r)
      PROVE  ClientRows' /\ PageRows' /\ DeskRows'
  <2>1. r.manifest \in Manifest \cup {None}
    BY RequestAssumption DEF RequestType
  <2> DEFINE m == IF reply[r] = "COMMITTED" /\ t \in Editor THEN r.manifest ELSE page[t].draft
             b == IF t \in Editor THEN r.manifest ELSE page[t].base
             v == [page[t] EXCEPT !.draft = m, !.base = b, !.dirty = FALSE,
                                  !.unresolved = None, !.busy = FALSE]
  <2>2. page' = [page EXCEPT ![t] = v]
    BY <1>0, <1>8 DEF SaveVerified
  <2>3. PageRows'
    <3>1. m \in Manifest \cup {None} /\ b \in Manifest \cup {None}
      BY <1>0, <2>1
    <3> HIDE DEF m, b
    <3>2. v \in PageRecord
      BY <1>0, <3>1
    <3> QED
      BY <2>2, <3>2, PageTyped
  <2>4. ClientRows'
    BY <1>8 DEF SaveVerified, ClientRows
  <2> QED
    BY <1>8, <2>3, <2>4 DEF SaveVerified, DeskRows
<1>9. ASSUME NEW t \in Entry \cup Editor, NEW r \in Request, SaveRefused(t, r)
      PROVE  ClientRows' /\ PageRows' /\ DeskRows'
  <2>1. \E u \in {r, None} :
           page' = [page EXCEPT ![t] = [page[t] EXCEPT !.unresolved = u, !.busy = FALSE]]
    BY <1>0, <1>9 DEF SaveRefused
  <2>2. PageRows'
    <3>1. PICK u \in {r, None} :
             page' = [page EXCEPT ![t] = [page[t] EXCEPT !.unresolved = u, !.busy = FALSE]]
      BY <2>1
    <3> DEFINE v == [page[t] EXCEPT !.unresolved = u, !.busy = FALSE]
    <3>2. v \in PageRecord
      BY <1>0
    <3>3. page' = [page EXCEPT ![t] = v]
      BY <3>1
    <3> HIDE DEF v
    <3> QED
      BY <3>2, <3>3, PageTyped
  <2>3. ClientRows'
    BY <1>9 DEF SaveRefused, ClientRows
  <2> QED
    BY <1>9, <2>2, <2>3 DEF SaveRefused, DeskRows
<1> QED
  BY <1>1, <1>2, <1>3, <1>4, <1>5, <1>6, <1>7, <1>8, <1>9 DEF AuthoringNext

LEMMA DeskTyped ==
    ASSUME DeskRows, NEW t \in Publisher, NEW v \in DeskRecord,
           desk' = [desk EXCEPT ![t] = v],
           v.reading # "none" => v.busy /\ v.sealed = None,
           v.reading = "import" => v.ticket # None,
           v.retained \/ v.unknown => v.sealed # None
    PROVE  DeskRows'
  BY DEF DeskRows

LEMMA ReadTyped ==
    ASSUME DeskRows, NEW t \in Publisher, NEW q \in Request \cup {None},
           NEW p \in {"refresh", "prepare", "import"}, BeginRead(t, p, q),
           p = "import" => q # None
    PROVE  DeskRows'
<1> DEFINE v == [desk[t] EXCEPT !.busy = TRUE, !.reading = p, !.ticket = q]
<1>1. desk \in [Publisher -> DeskRecord]
  BY DEF DeskRows
<1>2. desk' = [desk EXCEPT ![t] = v]
  BY <1>1 DEF BeginRead
<1>3. /\ v \in DeskRecord /\ v.busy /\ v.sealed = None /\ ~v.retained /\ ~v.unknown
      /\ v.reading = p /\ v.ticket = q
  BY <1>1 DEF DeskRecord, BeginRead, Idle, DeskRows
<1> QED
  BY <1>2, <1>3, DeskTyped

\* A finished read shows two agreeing identities and leaves nothing sealed.
LEMMA ShownTyped ==
    ASSUME TypeInv, NEW t \in Publisher, Coherent(t), desk[t].reading # "none"
    PROVE  /\ Shown(t) \in DeskRecord
           /\ Shown(t).reading = "none" /\ ~Shown(t).busy /\ Shown(t).sealed = None
           /\ ~Shown(t).retained /\ ~Shown(t).unknown
<1>1. /\ desk \in [Publisher -> DeskRecord] /\ desk[t].sealed = None
      /\ ~desk[t].retained /\ ~desk[t].unknown
  BY TypeParts DEF TypeInv, DeskRows, DeskRecord
<1>2. desk[t].row \in DefinitionRow
  BY <1>1 DEF Coherent, DeskRecord
<1>3. FreshSnapshot(t) \in Snapshot
  <2>1. RequiredNextAction(PageOf[t]) \in NextAction
    BY DEF RequiredNextAction, NextAction
  <2>2. Current(desk[t].row.project) \subseteq Definition
    BY DEF Current, InProject
  <2>3. Cardinality(PublicationsOf(desk[t].row.project)) \in Nat
    <3>1. IsFiniteSet(PublicationsOf(desk[t].row.project))
      BY FS_Subset DEF TypeInv, PublicationsOf
    <3> QED
      BY <3>1, FS_CardinalityType
  <2> QED
    BY <1>2, <2>1, <2>2, <2>3 DEF FreshSnapshot, Snapshot
<1>4. ComputeActionKind(FreshSnapshot(t)) \in PublicationOp \cup {"VALIDATE_DEFINITION", "NONE"}
  BY DEF ComputeActionKind, PublicationOp
<1> HIDE DEF FreshSnapshot, ComputeActionKind
<1> DEFINE s == FreshSnapshot(t)
           a == ComputeActionKind(FreshSnapshot(t))
           v == [desk[t] EXCEPT !.seen = s, !.action = a, !.row = None,
                                !.reading = "none", !.ticket = None, !.busy = FALSE]
<1>5. s \in Snapshot /\ a \in PublicationOp \cup {"VALIDATE_DEFINITION", "NONE"}
  BY <1>3, <1>4
<1>6. /\ v \in DeskRecord /\ v.reading = "none" /\ ~v.busy
      /\ v.sealed = None /\ ~v.retained /\ ~v.unknown
  <2> HIDE DEF s, a
  <2>1. desk[t] \in DeskRecord
    BY <1>1
  <2>2. v \in DeskRecord
    BY <2>1, <1>5 DEF DeskRecord
  <2>3. v.reading = "none" /\ ~v.busy /\ v.sealed = None
    BY <2>1, <1>1 DEF DeskRecord
  <2>4. ~v.retained /\ ~v.unknown
    BY <2>1, <1>1 DEF DeskRecord
  <2> QED
    BY <2>2, <2>3, <2>4
<1>7. Shown(t) = v
  BY DEF Shown
<1> QED
  BY <1>6, <1>7

LEMMA DeskNextTyped ==
    ASSUME TypeInv, DeskNext
    PROVE  ClientRows' /\ PageRows' /\ DeskRows'
<1>0. /\ desk \in [Publisher -> DeskRecord] /\ DeskRows /\ ClientRows /\ PageRows
      /\ definitions \in [Definition -> DefinitionRow \cup {None}]
  BY TypeParts DEF DeskRows, TypeInv, TypeOK
<1>1. ASSUME NEW t \in Publisher, ManualRefresh(t) \/ PrepareAttempt(t)
      PROVE  ClientRows' /\ PageRows' /\ DeskRows'
  <2>1. DeskRows'
    BY <1>0, <1>1, ReadTyped DEF ManualRefresh, PrepareAttempt
  <2> QED
    BY <1>0, <1>1, <2>1 DEF ManualRefresh, PrepareAttempt, BeginRead, ClientRows, PageRows
<1>2. ASSUME NEW t \in Publisher, NEW r \in Request, ImportValidationTicket(t, r)
      PROVE  ClientRows' /\ PageRows' /\ DeskRows'
  <2>1. DeskRows'
    BY <1>0, <1>2, ReadTyped, TabAssumption DEF ImportValidationTicket
  <2> QED
    BY <1>0, <1>2, <2>1 DEF ImportValidationTicket, BeginRead, ClientRows, PageRows
<1>3. ASSUME NEW t \in Publisher, FetchDefinition(t)
      PROVE  ClientRows' /\ PageRows' /\ DeskRows'
  <2> DEFINE row == definitions[PageOf[t]]
             v == [desk[t] EXCEPT !.row = row]
  <2>1. row \in DefinitionRow
    BY <1>0, <1>3, TabAssumption DEF FetchDefinition, Exists
  <2> HIDE DEF row
  <2>2. desk' = [desk EXCEPT ![t] = v]
    BY <1>0, <1>3 DEF FetchDefinition, row
  <2>3. v \in DeskRecord
    BY <1>0, <2>1 DEF DeskRecord
  <2>4. /\ v.reading # "none" => v.busy /\ v.sealed = None
        /\ v.reading = "import" => v.ticket # None
        /\ v.retained \/ v.unknown => v.sealed # None
    BY <1>0 DEF DeskRows, DeskRecord
  <2>5. DeskRows'
    BY <1>0, <2>2, <2>3, <2>4, DeskTyped
  <2> QED
    BY <1>0, <1>3, <2>5 DEF FetchDefinition, ClientRows, PageRows
<1>4. ASSUME NEW t \in Publisher, Refreshed(t) \/ Drifted(t)
      PROVE  ClientRows' /\ PageRows' /\ DeskRows'
  <2>1. DeskRows'
    BY <1>0, <1>4, ShownTyped, DeskTyped DEF Refreshed, Drifted
  <2> QED
    BY <1>0, <1>4, <2>1 DEF Refreshed, Drifted, ClientRows, PageRows
<1>5. ASSUME NEW t \in Publisher, NEW r \in Request, SealAttempt(t, r)
      PROVE  ClientRows' /\ PageRows' /\ DeskRows'
  <2> DEFINE v == [Shown(t) EXCEPT !.sealed = r, !.retained = FALSE]
  <2>1. /\ Shown(t) \in DeskRecord
        /\ Shown(t).reading = "none" /\ ~Shown(t).unknown
    BY <1>5, ShownTyped DEF SealAttempt
  <2>2. /\ v \in DeskRecord
        /\ v.reading = "none" /\ v.sealed # None
    BY <2>1, TabAssumption DEF DeskRecord
  <2>3. desk' = [desk EXCEPT ![t] = v]
    BY <1>5 DEF SealAttempt
  <2>4. DeskRows'
    BY <1>0, <2>2, <2>3, DeskTyped
  <2>5. ClientRows'
    BY <1>0, <1>5, CallTyped DEF SealAttempt
  <2> QED
    BY <1>0, <1>5, <2>4, <2>5 DEF SealAttempt, PageRows
<1>6. ASSUME NEW t \in Publisher, TicketRestored(t)
      PROVE  ClientRows' /\ PageRows' /\ DeskRows'
  <2> DEFINE q == desk[t].ticket
             v == [Shown(t) EXCEPT !.sealed = q, !.retained = TRUE, !.unknown = TRUE]
  <2>1. /\ Shown(t) \in DeskRecord
        /\ Shown(t).reading = "none" /\ Shown(t).sealed = None
        /\ ~Shown(t).retained /\ ~Shown(t).unknown
    BY <1>6, ShownTyped DEF TicketRestored
  <2>2. q \in Request
    BY <1>0, <1>6 DEF TicketRestored, DeskRecord, DeskRows
  <2>3. v \in DeskRecord /\ v.reading = "none" /\ v.sealed # None
    <3> HIDE DEF q
    <3> QED
      BY <2>1, <2>2, TabAssumption DEF DeskRecord
  <2>4. desk' = [desk EXCEPT ![t] = v] \/ desk' = [desk EXCEPT ![t] = Shown(t)]
    BY <1>6 DEF TicketRestored
  <2>5. DeskRows'
    BY <1>0, <2>1, <2>3, <2>4, DeskTyped
  <2>6. ClientRows'
    BY <1>0, <1>6, <2>2 DEF TicketRestored, ClientRows
  <2> QED
    BY <1>0, <1>6, <2>5, <2>6 DEF TicketRestored, PageRows
<1>7. ASSUME NEW t \in Publisher, ReadFails(t)
      PROVE  ClientRows' /\ PageRows' /\ DeskRows'
  <2> DEFINE s == IF desk[t].reading = "refresh" THEN None ELSE desk[t].seen
             a == IF desk[t].reading \in {"refresh", "result"} THEN "NONE" ELSE desk[t].action
             v == [desk[t] EXCEPT !.seen = s, !.action = a, !.row = None, !.reading = "none",
                                  !.ticket = None, !.busy = FALSE]
  <2>1. s \in Snapshot \cup {None} /\ a \in PublicationOp \cup {"VALIDATE_DEFINITION", "NONE"}
    BY <1>0 DEF DeskRecord
  <2>2. desk' = [desk EXCEPT ![t] = v]
    BY <1>0, <1>7 DEF ReadFails
  <2>3. v \in DeskRecord /\ v.reading = "none" /\ ~v.retained /\ ~v.unknown
    <3> HIDE DEF s, a
    <3> QED
      BY <1>0, <1>7, <2>1 DEF DeskRecord, ReadFails, DeskRows
  <2>4. DeskRows'
    BY <1>0, <2>2, <2>3, DeskTyped
  <2> QED
    BY <1>0, <1>7, <2>4 DEF ReadFails, ClientRows, PageRows
<1>8. ASSUME NEW t \in Publisher, RetainTicket(t)
      PROVE  ClientRows' /\ PageRows' /\ DeskRows'
  <2> DEFINE v == [desk[t] EXCEPT !.retained = TRUE]
  <2>1. desk' = [desk EXCEPT ![t] = v]
    BY <1>0, <1>8 DEF RetainTicket
  <2>2. v \in DeskRecord /\ v.reading = "none" /\ v.sealed # None /\ v.sealed \in Request
    <3>1. desk[t] \in DeskRecord /\ desk[t].sealed # None /\ desk[t].reading = "none"
      BY <1>0, <1>8 DEF RetainTicket, DeskRows
    <3>2. v.reading = desk[t].reading /\ v.sealed = desk[t].sealed /\ v \in DeskRecord
      BY <3>1 DEF DeskRecord
    <3> QED
      BY <3>1, <3>2 DEF DeskRecord
  <2>3. DeskRows'
    BY <1>0, <2>1, <2>2, DeskTyped
  <2>4. desk[t].sealed \in Request
    BY <1>0, <1>8 DEF RetainTicket, DeskRecord
  <2> QED
    BY <1>0, <1>8, <2>3, <2>4 DEF RetainTicket, ClientRows, PageRows
<1>9. ASSUME NEW t \in Publisher, DiscardUnsentAttempt(t)
      PROVE  ClientRows' /\ PageRows' /\ DeskRows'
  <2> DEFINE v == [desk[t] EXCEPT !.sealed = None, !.retained = FALSE]
  <2>1. desk' = [desk EXCEPT ![t] = v]
    BY <1>0, <1>9 DEF DiscardUnsentAttempt
  <2>2. desk[t].reading = "none" /\ ~desk[t].unknown
    BY <1>0, <1>9 DEF DiscardUnsentAttempt, DeskRows
  <2>3. v \in DeskRecord /\ v.reading = "none" /\ ~v.retained /\ ~v.unknown
    BY <1>0, <2>2 DEF DeskRecord
  <2>4. DeskRows'
    BY <1>0, <2>1, <2>3, DeskTyped
  <2> QED
    BY <1>0, <1>9, <2>4 DEF DiscardUnsentAttempt, ClientRows, PageRows
<1>10. ASSUME NEW t \in Publisher, ExecuteAttempt(t) \/ ReplayValidation(t)
       PROVE  ClientRows' /\ PageRows' /\ DeskRows'
  <2>1. PICK s \in {"sent", "resent"} : Perform(t, s)
    BY <1>10 DEF ExecuteAttempt, ReplayValidation
  <2> DEFINE v == [desk[t] EXCEPT !.busy = TRUE]
  <2>2. desk' = [desk EXCEPT ![t] = v] /\ desk[t].sealed \in Request
    BY <1>0, <2>1 DEF Perform, DeskRecord
  <2>3. desk[t].reading = "none" /\ desk[t].sealed # None
    BY <1>0, <2>1 DEF Perform, DeskRows
  <2>4. v \in DeskRecord /\ v.reading = "none" /\ v.sealed # None
    BY <1>0, <2>3 DEF DeskRecord
  <2>5. DeskRows'
    BY <1>0, <2>2, <2>4, DeskTyped
  <2>6. ClientRows'
    BY <1>0, <2>1, <2>2, CallTyped DEF Perform
  <2> QED
    BY <1>0, <2>1, <2>5, <2>6 DEF Perform, PageRows
<1>11. ASSUME NEW t \in Publisher, AttemptUnknown(t)
       PROVE  ClientRows' /\ PageRows' /\ DeskRows'
  <2> DEFINE v == [desk[t] EXCEPT !.unknown = TRUE, !.busy = FALSE]
  <2>1. desk' = [desk EXCEPT ![t] = v] /\ desk[t].sealed \in Request
    BY <1>0, <1>11 DEF AttemptUnknown, Sending, DeskRecord
  <2>2. v \in DeskRecord /\ v.reading = "none" /\ v.sealed # None
    BY <1>0, <1>11 DEF AttemptUnknown, Sending, DeskRecord
  <2>3. DeskRows'
    BY <1>0, <2>1, <2>2, DeskTyped
  <2>4. ClientRows'
    BY <1>0, <1>11, <2>1, AbandonTyped DEF AttemptUnknown
  <2> QED
    BY <1>0, <1>11, <2>3, <2>4 DEF AttemptUnknown, PageRows
<1>12. ASSUME NEW t \in Publisher, AttemptVerified(t) \/ RecoverPublication(t)
       PROVE  ClientRows' /\ PageRows' /\ DeskRows'
  <2>1. desk' = [desk EXCEPT ![t] = Resolved(t)] /\ desk[t].sealed \in Request
    BY <1>0, <1>12 DEF AttemptVerified, Sending, RecoverPublication, DeskRecord, DeskRows
  <2>2. /\ Resolved(t) \in DeskRecord /\ Resolved(t).reading = "result" /\ Resolved(t).busy
        /\ Resolved(t).sealed = None /\ ~Resolved(t).retained /\ ~Resolved(t).unknown
    BY <1>0 DEF Resolved, DeskRecord
  <2>3. DeskRows'
    BY <1>0, <2>1, <2>2, DeskTyped
  <2>4. ClientRows'
    BY <1>0, <1>12, <2>1 DEF AttemptVerified, RecoverPublication, ClientRows
  <2> QED
    BY <1>0, <1>12, <2>3, <2>4 DEF AttemptVerified, RecoverPublication, PageRows
<1>13. ASSUME NEW t \in Publisher, AttemptRefused(t)
       PROVE  ClientRows' /\ PageRows' /\ DeskRows'
  <2> DEFINE v == [desk[t] EXCEPT !.sealed = None, !.retained = FALSE, !.unknown = FALSE,
                                  !.busy = FALSE]
  <2>1. desk' = [desk EXCEPT ![t] = v] /\ desk[t].sealed \in Request
    BY <1>0, <1>13 DEF AttemptRefused, Sending, DeskRecord
  <2>2. v \in DeskRecord /\ v.reading = "none" /\ ~v.retained /\ ~v.unknown
    BY <1>0, <1>13 DEF AttemptRefused, Sending, DeskRecord
  <2>3. DeskRows'
    BY <1>0, <2>1, <2>2, DeskTyped
  <2>4. ClientRows'
    BY <1>0, <1>13, <2>1 DEF AttemptRefused, ClientRows
  <2> QED
    BY <1>0, <1>13, <2>3, <2>4 DEF AttemptRefused, PageRows
<1>14. ASSUME NEW t \in Publisher, LeaveDesk(t)
       PROVE  ClientRows' /\ PageRows' /\ DeskRows'
  <2>1. /\ Cleared \in DeskRecord /\ Cleared.reading = "none"
        /\ ~Cleared.retained /\ ~Cleared.unknown
    BY DEF Cleared, DeskRecord
  <2>2. DeskRows'
    BY <1>0, <1>14, <2>1, DeskTyped DEF LeaveDesk
  <2>3. ClientRows'
    BY <1>0, <1>14, AbandonTyped DEF LeaveDesk
  <2> QED
    BY <1>0, <1>14, <2>2, <2>3 DEF LeaveDesk, PageRows
<1> QED
  BY <1>1, <1>2, <1>3, <1>4, <1>5, <1>6, <1>7, <1>8, <1>9, <1>10, <1>11, <1>12, <1>13, <1>14
  DEF DeskNext

LEMMA TypeStep ==
    ASSUME TypeInv, [ClientNext]_allvars
    PROVE  TypeInv'
<1>1. TypeOK' /\ IsFiniteSet(publications)'
  BY RowsTyped, RowsStep
<1>2. TypeOK /\ ClientRows /\ PageRows /\ DeskRows
  BY TypeParts DEF TypeInv
<1>3. ClientRows' /\ PageRows' /\ DeskRows'
  <2>1. CASE UNCHANGED allvars
    BY <1>2, <2>1 DEF allvars, clientvars, ClientRows, PageRows, DeskRows
  <2> QED
    BY <1>2, <2>1, ServerTyped, AuthoringTyped, DeskNextTyped DEF ClientNext
<1>4. ClientTypeOK'
  BY <1>1, <1>3 DEF ClientTypeOK, ClientRows, PageRows, DeskRows
<1> QED
  BY <1>1, <1>4 DEF TypeInv

\* Pages, desks, calls and what they leave behind have their types.
THEOREM ClientTypes == ClientSpec => []ClientTypeOK
<1>1. TypeInv => ClientTypeOK
  BY DEF TypeInv
<1>2. TypeInv /\ [ClientNext]_allvars => TypeInv'
  BY TypeStep
<1> QED
  BY <1>1, <1>2, TypesInitially, PTL DEF ClientSpec

-----------------------------------------------------------------------------
(* What is true of a request, whoever carries it.                          *)

Owned(r) == \E t \in Tab : r \in Mine(t)

\* A request is refused or unanswered only while it has no receipt, unless its
\* outcome was in doubt at some time.
Truth(r) ==
    /\ verdict[r] = "committed" => Committed(r)
    /\ reply[r] \in Successful => Committed(r)
    /\ reply[r] = "REFUSED" /\ r \notin doubted => ~Committed(r)
    /\ verdict[r] = "refused" /\ r \notin doubted => ~Committed(r) /\ call[r] = "done"
    /\ OnWire(r) /\ r \notin doubted => ~Committed(r)
    /\ Owned(r) /\ call[r] \in {"unused", "drawn"} => ~Committed(r)
    /\ r \in orphans => r \in doubted /\ call[r] \notin {"unused", "drawn"}
    /\ call[r] = "resent" => r \in doubted
    /\ ~Owned(r) => call[r] = "unused" /\ reply[r] = None /\ verdict[r] = "none"

Replied(r, c, a) == call'[r] = c /\ reply'[r] = a
Told(r, v) == verdict'[r] = v
Held(r) == r \in orphans' <=> r \in orphans
Doubts(r) == r \in doubted' <=> r \in doubted

\* All that a step of a tab can do to a request, the rows left alone.
Untouched(r) == Replied(r, call[r], reply[r]) /\ Told(r, verdict[r]) /\ Held(r) /\ Doubts(r)
Draws(r) ==
    /\ Owned(r) /\ call[r] = "unused"
    /\ Replied(r, "drawn", reply[r]) /\ Told(r, verdict[r]) /\ Held(r) /\ Doubts(r)
Sends(r) ==
    /\ Owned(r) /\ call[r] \in {"unused", "drawn"}
    /\ Replied(r, "sent", reply[r]) /\ Told(r, verdict[r]) /\ Held(r) /\ Doubts(r)
Resends(r) ==
    /\ Owned(r) /\ r \in doubted
    /\ Replied(r, "resent", reply[r]) /\ Told(r, verdict[r]) /\ Held(r) /\ Doubts(r)
Drops(r) ==
    /\ Owned(r) /\ Replied(r, "done", None) /\ Told(r, verdict[r])
    /\ r \in orphans' <=> r \in orphans \/ OnWire(r)
    /\ r \in doubted' <=> r \in doubted \/ call[r] \in {"sent", "resent"}
Accepts(r) ==
    /\ Owned(r) /\ Committed(r)
    /\ Replied(r, "done", None) \/ Replied(r, call[r], reply[r])
    /\ Told(r, "committed") /\ Held(r) /\ Doubts(r)
Refuses(r) ==
    /\ Owned(r) /\ reply[r] = "REFUSED"
    /\ Replied(r, "done", None)
    /\ Told(r, "refused") \/ Told(r, verdict[r])
    /\ Held(r) /\ Doubts(r)
Forgets(r) ==
    /\ Owned(r) /\ Replied(r, call[r], reply[r]) /\ Told(r, "none") /\ Held(r) /\ Doubts(r)
Reopens(r) ==
    /\ Owned(r) /\ Replied(r, call[r], reply[r]) /\ Told(r, verdict[r]) /\ Held(r)
    /\ r \in doubted'

TabTouches(r) ==
    \/ Untouched(r) \/ Draws(r) \/ Sends(r) \/ Resends(r) \/ Drops(r)
    \/ Accepts(r) \/ Refuses(r) \/ Forgets(r) \/ Reopens(r)

LEMMA TouchKeepsTruth ==
    ASSUME NEW r \in Request, Truth(r), TabTouches(r), Committed(r)' <=> Committed(r)
    PROVE  Truth(r)'
<1> USE DEF Replied, Told, Held, Doubts, OnWire, Successful
<1>0. /\ Owned(r)' <=> Owned(r)
      /\ None \notin Successful /\ None # "REFUSED"
  BY TabAssumption DEF Owned, Mine, Tab, Answer
<1>1. CASE Untouched(r)
  BY <1>0, <1>1 DEF Truth, Untouched
<1>2. CASE Draws(r)
  BY <1>0, <1>2 DEF Truth, Draws
<1>3. CASE Sends(r)
  BY <1>0, <1>3 DEF Truth, Sends
<1>4. CASE Resends(r)
  BY <1>0, <1>4 DEF Truth, Resends
<1>5. CASE Drops(r)
  BY <1>0, <1>5 DEF Truth, Drops
<1>6. CASE Accepts(r)
  BY <1>0, <1>6 DEF Truth, Accepts
<1>7. CASE Refuses(r)
  BY <1>0, <1>7 DEF Truth, Refuses
<1>8. CASE Forgets(r)
  BY <1>0, <1>8 DEF Truth, Forgets
<1>9. CASE Reopens(r)
  BY <1>0, <1>9 DEF Truth, Reopens
<1> QED
  BY <1>1, <1>2, <1>3, <1>4, <1>5, <1>6, <1>7, <1>8, <1>9 DEF TabTouches

\* The same of a step that the server takes for q, or that another principal does.
LEMMA ServerKeepsTruth ==
    ASSUME TypeInv, \A r \in Request : Truth(r), ServerNext
    PROVE  \A r \in Request : Truth(r)'
<1>0. /\ None \notin Successful /\ None # "REFUSED" /\ "REFUSED" \notin Successful
      /\ reply \in [Request -> Answer \cup {None}]
      /\ \A r \in Request : Owned(r)' <=> Owned(r)
  BY TabAssumption, TypeParts DEF Owned, Mine, Tab, Answer, Successful, TypeInv, ClientRows
<1>1. ASSUME NEW q \in Request, NEW g \in BOOLEAN, ServerStep(q, g)
      PROVE  /\ ServerAnswer(q, g) \in Successful => Committed(q)'
             /\ ServerAnswer(q, g) = "REFUSED" => (Committed(q)' <=> Committed(q))
             /\ \A r \in Request : r # q => (Committed(r)' <=> Committed(r))
             /\ Committed(q) => Committed(q)'
             /\ ServerAnswer(q, g) \in Successful \/ ServerAnswer(q, g) = "REFUSED"
  <2>1. CASE ServerAnswer(q, g) = "COMMITTED"
    <3>1. Operation(q)
      BY <1>1, <2>1 DEF ServerStep
    <3> QED
      BY <2>1, <3>1, OperationCommits DEF Successful
  <2>2. CASE ServerAnswer(q, g) # "COMMITTED"
    <3>1. UNCHANGED dbvars
      BY <1>1, <2>2 DEF ServerStep
    <3>2. ServerAnswer(q, g) \in Successful => Committed(q)
      BY <2>2 DEF ServerAnswer, Successful
    <3>3. ServerAnswer(q, g) \in Successful \/ ServerAnswer(q, g) = "REFUSED"
      BY DEF ServerAnswer, Successful
    <3> QED
      BY <3>1, <3>2, <3>3, UnchangedCommits
  <2> QED
    BY <2>1, <2>2
<1>2. ASSUME NEW q \in Request, NEW g \in BOOLEAN, Serve(q, g), NEW r \in Request
      PROVE  Truth(r)'
  <2>1. /\ ServerStep(q, g) /\ OnWire(q)
        /\ reply' = [reply EXCEPT ![q] = ServerAnswer(q, g)]
        /\ UNCHANGED <<call, orphans, doubted, verdict>>
    BY <1>2 DEF Serve
  <2>2. CASE r # q
    <3>1. reply'[r] = reply[r] /\ (Committed(r)' <=> Committed(r))
      BY <1>0, <1>1, <2>1, <2>2
    <3> QED
      BY <1>0, <2>1, <3>1 DEF Truth, OnWire
  <2>3. CASE r = q
    <3>1. reply'[q] = ServerAnswer(q, g)
      BY <1>0, <2>1
    <3>2. q \notin doubted => ~Committed(q)
      BY <2>1 DEF Truth
    <3>3. call[q] \in {"sent", "resent"}
      BY <2>1 DEF OnWire
    <3> QED
      BY <1>0, <1>1, <2>1, <2>3, <3>1, <3>2, <3>3 DEF Truth, OnWire
  <2> QED
    BY <2>2, <2>3
<1>3. ASSUME NEW q \in Request, NEW g \in BOOLEAN, ServeOrphan(q, g), NEW r \in Request
      PROVE  Truth(r)'
  <2>1. /\ ServerStep(q, g) /\ q \in orphans /\ orphans' = orphans \ {q}
        /\ UNCHANGED <<call, reply, doubted, verdict>>
    BY <1>3 DEF ServeOrphan
  <2>2. CASE r # q
    <3>1. Committed(r)' <=> Committed(r)
      BY <1>1, <2>1, <2>2
    <3> QED
      BY <1>0, <2>1, <2>2, <3>1 DEF Truth, OnWire
  <2>3. CASE r = q
    <3>1. q \in doubted /\ call[q] \notin {"unused", "drawn"}
      BY <2>1 DEF Truth
    <3>2. Committed(q) => Committed(q)'
      BY <1>1, <2>1
    <3> QED
      BY <1>0, <2>1, <2>3, <3>1, <3>2 DEF Truth, OnWire
  <2> QED
    BY <2>2, <2>3
<1>4. ASSUME NEW q \in Elsewhere, ElsewhereStep(q), NEW r \in Request
      PROVE  Truth(r)'
  <2>1. Operation(q) /\ q \in Request /\ ~Owned(q) /\ UNCHANGED <<call, reply, orphans, doubted, verdict>>
    BY <1>4 DEF ElsewhereStep, Elsewhere, Owned, Mine, clientvars
  <2>2. CASE r # q
    <3>1. Committed(r)' <=> Committed(r)
      BY <2>1, <2>2, OperationCommits
    <3> QED
      BY <1>0, <2>1, <3>1 DEF Truth, OnWire
  <2>3. CASE r = q
    <3>1. call[q] = "unused" /\ reply[q] = None /\ verdict[q] = "none"
      BY <2>1 DEF Truth
    <3> QED
      BY <1>0, <2>1, <2>3, <3>1 DEF Truth, OnWire
  <2> QED
    BY <2>2, <2>3
<1> QED
  BY <1>2, <1>3, <1>4 DEF ServerNext

-----------------------------------------------------------------------------
(* What a tab holds.                                                       *)

PageLinked(t) ==
    page[t].unresolved # None => page[t].unresolved \in Mine(t) /\ page[t].unresolved \in doubted

DeskLinked(t) ==
    /\ desk[t].sealed # None =>
          /\ desk[t].sealed \in Mine(t)
          /\ desk[t].unknown => desk[t].sealed \in doubted
          /\ ~desk[t].busy /\ ~desk[t].unknown => call[desk[t].sealed] = "drawn"
          /\ desk[t].busy => call[desk[t].sealed] \in {"sent", "resent"}
    /\ desk[t].reading = "import" => desk[t].ticket \in Mine(t)

Linked ==
    /\ \A t \in Entry \cup Editor : PageLinked(t)
    /\ \A t \in Publisher : DeskLinked(t)

TruthInv == TypeInv /\ Linked /\ \A r \in Request : Truth(r)

LEMMA OwnedOnce ==
    ASSUME NEW s \in Tab, NEW t \in Tab, s # t, NEW r \in Mine(s)
    PROVE  r \in Request /\ r \notin Mine(t)
  BY TabAssumption DEF Mine

\* A step of tab t touches its own requests only.
TabStep(t) ==
    /\ UNCHANGED dbvars
    /\ \A r \in Request : TabTouches(r) /\ (r \notin Mine(t) => call'[r] = call[r])
    /\ doubted \subseteq doubted'
    /\ \A s \in Entry \cup Editor : s # t => page'[s] = page[s]
    /\ \A s \in Publisher : s # t => desk'[s] = desk[s]
    /\ t \in Entry \cup Editor => PageLinked(t)'
    /\ t \in Publisher => DeskLinked(t)'

LEMMA TabStepKeeps ==
    ASSUME TruthInv, NEW t \in Tab, TabStep(t)
    PROVE  Linked' /\ \A r \in Request : Truth(r)'
<1>1. ASSUME NEW r \in Request
      PROVE  Truth(r)'
  BY TouchKeepsTruth, UnchangedCommits DEF TruthInv, TabStep
<1>2. ASSUME NEW s \in Entry \cup Editor
      PROVE  PageLinked(s)'
  <2>1. Mine(s)' = Mine(s)
    BY DEF Mine
  <2> QED
    BY <2>1 DEF TabStep, TruthInv, Linked, PageLinked
<1>3. ASSUME NEW s \in Publisher
      PROVE  DeskLinked(s)'
  <2>1. CASE s = t
    BY <2>1 DEF TabStep
  <2>2. CASE s # t
    <3>1. desk'[s] = desk[s] /\ Mine(s)' = Mine(s) /\ DeskLinked(s)
      BY <2>2 DEF Mine, TabStep, TruthInv, Linked
    <3>2. desk[s].sealed # None => call'[desk[s].sealed] = call[desk[s].sealed]
      <4>1. desk[s].sealed # None => desk[s].sealed \in Mine(s)
        BY <3>1 DEF DeskLinked
      <4> QED
        BY <2>2, <4>1, OwnedOnce DEF Tab, TabStep
    <3> QED
      BY <3>1, <3>2 DEF DeskLinked, TabStep
  <2> QED
    BY <2>1, <2>2
<1> QED
  BY <1>1, <1>2, <1>3 DEF Linked

-----------------------------------------------------------------------------
(* Entry page and editor.                                                  *)

\* One request is touched, the page of its tab changes.
LEMMA PageTouches ==
    ASSUME TruthInv, NEW t \in Entry \cup Editor, NEW q \in Mine(t),
           \A s \in Entry \cup Editor : s # t => page'[s] = page[s],
           UNCHANGED <<dbvars, desk>>,
           TabTouches(q), \A r \in Request : r # q => Untouched(r),
           page'[t].unresolved # None =>
              page'[t].unresolved \in Mine(t) /\ page'[t].unresolved \in doubted'
    PROVE  TabStep(t)
<1>1. t \in Publisher => DeskLinked(t)'
  BY TabAssumption
<1>2. PageLinked(t)'
  BY DEF PageLinked, Mine
<1>3. ASSUME NEW r \in Request
      PROVE  TabTouches(r) /\ (r \notin Mine(t) => call'[r] = call[r])
  BY <1>3 DEF TabTouches, Untouched, Replied
<1>4. doubted \subseteq doubted'
  <2>1. ASSUME NEW r \in doubted
        PROVE  r \in doubted'
    <3>1. r \in Request
      BY TypeParts DEF TruthInv, TypeInv, ClientRows
    <3>2. TabTouches(r)
      BY <1>3, <3>1
    <3> QED
      BY <3>2 DEF TabTouches, Untouched, Draws, Sends, Resends, Drops, Accepts, Refuses,
                  Forgets, Reopens, Doubts
  <2> QED
    BY <2>1
<1>5. UNCHANGED dbvars
  OBVIOUS
<1> QED
  BY <1>1, <1>2, <1>3, <1>4, <1>5 DEF TabStep

LEMMA PageOnly ==
    ASSUME TruthInv, NEW t \in Entry \cup Editor,
           page'[t].unresolved = page[t].unresolved,
           \A s \in Entry \cup Editor : s # t => page'[s] = page[s],
           UNCHANGED <<dbvars, desk, call, reply, orphans, verdict, doubted>>
    PROVE  TabStep(t)
<1>1. t \in Publisher => DeskLinked(t)'
  BY TabAssumption
<1>2. PageLinked(t)
  BY DEF TruthInv, Linked
<1>3. PageLinked(t)'
  BY <1>2 DEF PageLinked, Mine
<1>4. \A r \in Request : Untouched(r)
  BY DEF Untouched, Replied, Told, Held, Doubts
<1>5. \A r \in Request : TabTouches(r) /\ call'[r] = call[r]
  BY <1>4 DEF TabTouches, Untouched, Replied
<1> QED
  BY <1>1, <1>3, <1>5 DEF TabStep

\* What one of these tabs does.
AuthoringAction(t) ==
    \/ /\ t \in Editor
       /\ \/ OpenDefinition(t) \/ BeginPreview(t) \/ SendPreview(t) \/ EndPreview(t)
          \/ \E m \in Manifest : Edit(t, m)
          \/ \E r \in Request : BeginSave(t, r) \/ SendSave(t, r)
    \/ t \in Entry /\ \E r \in Request : SubmitBootstrap(t, r)
    \/ Reconcile(t) \/ LeavePage(t)
    \/ \E r \in Request : SaveUnknown(t, r) \/ SaveVerified(t, r) \/ SaveRefused(t, r)

LEMMA AuthoringSteps ==
    ASSUME TruthInv, NEW tab \in Entry \cup Editor, AuthoringAction(tab)
    PROVE  TabStep(tab)
<1> USE DEF PageRecord
<1>0. /\ page \in [Entry \cup Editor -> PageRecord]
      /\ call \in [Request -> {"unused", "drawn", "sent", "resent", "done"}]
      /\ reply \in [Request -> Answer \cup {None}]
      /\ verdict \in [Request -> {"none", "committed", "refused"}]
  BY TypeParts DEF TruthInv, TypeInv, PageRows, ClientRows
<1>1. ASSUME NEW t \in Editor, OpenDefinition(t) \/ (\E m \in Manifest : Edit(t, m))
                               \/ BeginPreview(t) \/ SendPreview(t) \/ EndPreview(t)
      PROVE  TabStep(t)
  <2>1. /\ page'[t].unresolved = page[t].unresolved
        /\ \A s \in Entry \cup Editor : s # t => page'[s] = page[s]
    <3>1. CASE OpenDefinition(t)
      <4>1. \E m, e : page' = [page EXCEPT ![t] = [page[t] EXCEPT !.base = m, !.draft = m, !.editable = e]]
        BY <1>0, <3>1 DEF OpenDefinition
      <4> QED
        BY <1>0, <4>1
    <3>2. ASSUME NEW m \in Manifest, Edit(t, m)
          PROVE  /\ page'[t].unresolved = page[t].unresolved
                 /\ \A s \in Entry \cup Editor : s # t => page'[s] = page[s]
      BY <1>0, <3>2 DEF Edit
    <3>3. CASE BeginPreview(t) \/ SendPreview(t) \/ EndPreview(t)
      BY <1>0, <3>3 DEF BeginPreview, SendPreview, EndPreview
    <3> QED
      BY <1>1, <3>1, <3>2, <3>3
  <2>2. UNCHANGED <<dbvars, desk, call, reply, orphans, verdict, doubted>>
    BY <1>1 DEF OpenDefinition, Edit, BeginPreview, SendPreview, EndPreview
  <2> QED
    BY <2>1, <2>2, PageOnly
<1>2. ASSUME NEW t \in Entry \cup Editor, NEW q \in Request,
             BeginSave(t, q) \/ SendSave(t, q) \/ SubmitBootstrap(t, q)
      PROVE  TabStep(t)
  <2>1. /\ q \in Mine(t) /\ call[q] \in {"unused", "drawn"}
        /\ UNCHANGED <<dbvars, desk, reply, orphans, verdict, doubted>>
    BY <1>2 DEF BeginSave, SendSave, SubmitBootstrap, DrawsFresh
  <2>2. \/ call[q] = "unused" /\ call' = [call EXCEPT ![q] = "drawn"]
        \/ call' = [call EXCEPT ![q] = "sent"]
    BY <1>2 DEF BeginSave, SendSave, SubmitBootstrap, DrawsFresh
  <2>3. /\ page'[t].unresolved = page[t].unresolved
        /\ \A s \in Entry \cup Editor : s # t => page'[s] = page[s]
    BY <1>0, <1>2 DEF BeginSave, SendSave, SubmitBootstrap
  <2>4. Owned(q)
    BY <2>1 DEF Owned, Tab
  <2>5. Draws(q) \/ Sends(q)
    BY <1>0, <2>1, <2>2, <2>4 DEF Draws, Sends, Replied, Told, Held, Doubts
  <2>6. \A r \in Request : r # q => Untouched(r)
    BY <1>0, <2>1, <2>2 DEF Untouched, Replied, Told, Held, Doubts
  <2>7. PageLinked(t)
    BY DEF TruthInv, Linked
  <2> QED
    BY <2>1, <2>3, <2>5, <2>6, <2>7, PageTouches DEF TabTouches, PageLinked
<1>3. ASSUME NEW t \in Entry \cup Editor, Reconcile(t)
      PROVE  TabStep(t)
  <2> DEFINE q == page[t].unresolved
  <2>1. /\ q \in Mine(t) /\ q \in doubted
        /\ UNCHANGED <<dbvars, desk, reply, orphans, verdict, doubted>>
    BY <1>3 DEF Reconcile, TruthInv, Linked, PageLinked
  <2>2. /\ call' = [call EXCEPT ![q] = "resent"]
        /\ page'[t].unresolved = page[t].unresolved
        /\ \A s \in Entry \cup Editor : s # t => page'[s] = page[s]
    BY <1>0, <1>3 DEF Reconcile
  <2>3. Owned(q) /\ q \in Request
    BY <2>1 DEF Owned, Tab, Mine
  <2>4. Resends(q)
    BY <1>0, <2>1, <2>2, <2>3 DEF Resends, Replied, Told, Held, Doubts
  <2>5. \A r \in Request : r # q => Untouched(r)
    BY <1>0, <2>1, <2>2 DEF Untouched, Replied, Told, Held, Doubts
  <2> QED
    BY <2>1, <2>2, <2>4, <2>5, PageTouches DEF TabTouches
<1>4. ASSUME NEW t \in Entry \cup Editor, NEW q \in Request, SaveUnknown(t, q)
      PROVE  TabStep(t)
  <2>1. /\ q \in Mine(t) /\ call[q] \in {"sent", "resent"} /\ Abandon({q})
        /\ UNCHANGED <<dbvars, desk, verdict>>
    BY <1>4 DEF SaveUnknown
  <2>2. /\ page'[t].unresolved = q
        /\ \A s \in Entry \cup Editor : s # t => page'[s] = page[s]
    BY <1>0, <1>4 DEF SaveUnknown
  <2>3. Owned(q)
    BY <2>1 DEF Owned, Tab
  <2>4. Drops(q) /\ q \in doubted'
    BY <2>1, <2>3 DEF Drops, Abandon, Replied, Told
  <2>5. \A r \in Request : r # q => Untouched(r)
    BY <2>1 DEF Abandon, Untouched, Replied, Told, Held, Doubts
  <2> QED
    BY <2>1, <2>2, <2>4, <2>5, PageTouches DEF TabTouches
<1>5. ASSUME NEW t \in Entry \cup Editor, NEW q \in Request, SaveVerified(t, q)
      PROVE  TabStep(t)
  <2>1. /\ q \in Mine(t) /\ reply[q] \in Successful
        /\ call' = [call EXCEPT ![q] = "done"] /\ reply' = [reply EXCEPT ![q] = None]
        /\ verdict' = [verdict EXCEPT ![q] = "committed"]
        /\ UNCHANGED <<dbvars, desk, orphans, doubted>>
    BY <1>5 DEF SaveVerified
  <2>2. /\ page'[t].unresolved = None
        /\ \A s \in Entry \cup Editor : s # t => page'[s] = page[s]
    <3> DEFINE m == IF reply[q] = "COMMITTED" /\ t \in Editor THEN q.manifest ELSE page[t].draft
               b == IF t \in Editor THEN q.manifest ELSE page[t].base
    <3>1. page' = [page EXCEPT ![t] = [page[t] EXCEPT !.draft = m, !.base = b,
                               !.dirty = FALSE, !.unresolved = None, !.busy = FALSE]]
      BY <1>0, <1>5 DEF SaveVerified
    <3> HIDE DEF m, b
    <3> QED
      BY <1>0, <3>1
  <2>3. Owned(q) /\ Committed(q)
    BY <2>1 DEF Owned, Tab, TruthInv, Truth
  <2>4. Accepts(q)
    BY <1>0, <2>1, <2>3 DEF Accepts, Replied, Told, Held, Doubts
  <2>5. \A r \in Request : r # q => Untouched(r)
    BY <1>0, <2>1 DEF Untouched, Replied, Told, Held, Doubts
  <2> QED
    BY <2>1, <2>2, <2>4, <2>5, PageTouches DEF TabTouches
<1>6. ASSUME NEW t \in Entry \cup Editor, NEW q \in Request, SaveRefused(t, q)
      PROVE  TabStep(t)
  <2>1. /\ q \in Mine(t) /\ reply[q] = "REFUSED"
        /\ call' = [call EXCEPT ![q] = "done"] /\ reply' = [reply EXCEPT ![q] = None]
        /\ \E v \in {verdict[q], "refused"} : verdict' = [verdict EXCEPT ![q] = v]
        /\ UNCHANGED <<dbvars, desk, orphans, doubted>>
    BY <1>0, <1>6 DEF SaveRefused
  <2>2. /\ page'[t].unresolved \in {q, None}
        /\ page'[t].unresolved = q => call[q] = "resent"
        /\ \A s \in Entry \cup Editor : s # t => page'[s] = page[s]
    BY <1>0, <1>6, TabAssumption DEF SaveRefused
  <2>3. Owned(q) /\ (call[q] = "resent" => q \in doubted)
    BY <2>1 DEF Owned, Tab, TruthInv, Truth
  <2>4. Refuses(q)
    BY <1>0, <2>1, <2>3 DEF Refuses, Replied, Told, Held, Doubts
  <2>5. \A r \in Request : r # q => Untouched(r)
    BY <1>0, <2>1 DEF Untouched, Replied, Told, Held, Doubts
  <2> QED
    BY <2>1, <2>2, <2>3, <2>4, <2>5, PageTouches DEF TabTouches
<1>7. ASSUME NEW t \in Entry \cup Editor, LeavePage(t)
      PROVE  TabStep(t)
  <2> DEFINE rs == {r \in Mine(t) : call[r] \in {"drawn", "sent", "resent"}}
  <2>1. Abandon(rs) /\ UNCHANGED <<dbvars, desk, verdict>>
    BY <1>7 DEF LeavePage
  <2>2. /\ page'[t].unresolved = None
        /\ \A s \in Entry \cup Editor : s # t => page'[s] = page[s]
    BY <1>0, <1>7 DEF LeavePage, Blank
  <2>3. ASSUME NEW r \in rs
        PROVE  Drops(r)
    <3>1. r \in Request /\ Owned(r)
      BY DEF Mine, Owned, Tab
    <3> QED
      BY <2>1, <3>1 DEF Drops, Abandon, Replied, Told
  <2>4. ASSUME NEW r \in Request, r \notin rs
        PROVE  Untouched(r)
    BY <2>1, <2>4 DEF Abandon, Untouched, Replied, Told, Held, Doubts
  <2>5. \A r \in Request : TabTouches(r) /\ (r \notin Mine(t) => call'[r] = call[r])
    BY <2>3, <2>4 DEF TabTouches, Untouched, Replied
  <2>6. doubted \subseteq doubted' /\ PageLinked(t)'
    BY <2>1, <2>2 DEF Abandon, PageLinked
  <2>7. t \notin Publisher /\ UNCHANGED dbvars
    BY <2>1, TabAssumption
  <2> QED
    BY <2>1, <2>2, <2>5, <2>6, <2>7 DEF TabStep
<1> QED
  BY <1>1, <1>2, <1>3, <1>4, <1>5, <1>6, <1>7 DEF AuthoringAction

-----------------------------------------------------------------------------
(* The publisher's desk.                                                   *)

\* At most the request q is touched, and the desk of its tab changes.
LEMMA DeskTouches ==
    ASSUME TruthInv, NEW t \in Publisher,
           \A s \in Publisher : s # t => desk'[s] = desk[s],
           UNCHANGED <<dbvars, page>>,
           \A r \in Request : \/ Untouched(r)
                              \/ r \in Mine(t) /\ TabTouches(r),
           DeskLinked(t)'
    PROVE  TabStep(t)
<1>1. t \notin Entry \cup Editor
  BY TabAssumption
<1>2. ASSUME NEW r \in Request
      PROVE  TabTouches(r) /\ (r \notin Mine(t) => call'[r] = call[r])
  BY <1>2 DEF TabTouches, Untouched, Replied
<1>3. doubted \subseteq doubted'
  <2>1. ASSUME NEW r \in doubted
        PROVE  r \in doubted'
    <3>1. r \in Request
      BY TypeParts DEF TruthInv, TypeInv, ClientRows
    <3>2. TabTouches(r)
      BY <1>2, <3>1
    <3> QED
      BY <3>2 DEF TabTouches, Untouched, Draws, Sends, Resends, Drops, Accepts, Refuses,
                  Forgets, Reopens, Doubts
  <2> QED
    BY <2>1
<1>4. UNCHANGED dbvars
  OBVIOUS
<1> QED
  BY <1>1, <1>2, <1>3, <1>4 DEF TabStep

\* What one desk does.
DeskAction(t) ==
    \/ ManualRefresh(t) \/ PrepareAttempt(t) \/ FetchDefinition(t) \/ Refreshed(t)
    \/ Drifted(t) \/ TicketRestored(t) \/ ReadFails(t) \/ RetainTicket(t)
    \/ DiscardUnsentAttempt(t) \/ ExecuteAttempt(t) \/ ReplayValidation(t)
    \/ AttemptUnknown(t) \/ AttemptVerified(t) \/ AttemptRefused(t)
    \/ RecoverPublication(t) \/ LeaveDesk(t)
    \/ \E r \in Request : ImportValidationTicket(t, r) \/ SealAttempt(t, r)

LEMMA DeskSteps ==
    ASSUME TruthInv, NEW tab \in Publisher, DeskAction(tab)
    PROVE  TabStep(tab)
<1>0. /\ desk \in [Publisher -> DeskRecord] /\ DeskRows
      /\ call \in [Request -> {"unused", "drawn", "sent", "resent", "done"}]
      /\ reply \in [Request -> Answer \cup {None}]
      /\ verdict \in [Request -> {"none", "committed", "refused"}]
      /\ None \notin Request
      /\ \A t \in Publisher : DeskLinked(t)
  BY TypeParts, TabAssumption DEF TruthInv, TypeInv, DeskRows, ClientRows, Linked
<1>1. ASSUME NEW t \in Publisher,
             UNCHANGED <<call, reply, orphans, verdict, doubted>>, NEW r \in Request
      PROVE  Untouched(r)
  BY <1>1 DEF Untouched, Replied, Told, Held, Doubts
\* Reading.
<1>2. ASSUME NEW t \in Publisher, ManualRefresh(t) \/ PrepareAttempt(t)
      PROVE  TabStep(t)
  <2>1. /\ UNCHANGED <<dbvars, page, call, reply, orphans, verdict, doubted>>
        /\ \E p \in {"refresh", "prepare"} :
              desk' = [desk EXCEPT ![t].busy = TRUE, ![t].reading = p, ![t].ticket = None]
        /\ desk[t].sealed = None
    BY <1>2 DEF ManualRefresh, PrepareAttempt, BeginRead, Idle
  <2>2. /\ \A s \in Publisher : s # t => desk'[s] = desk[s]
        /\ desk'[t].sealed = None /\ desk'[t].reading # "import"
    BY <1>0, <2>1 DEF DeskRecord
  <2>3. DeskLinked(t)'
    BY <2>2 DEF DeskLinked
  <2> QED
    BY <1>1, <2>1, <2>2, <2>3, DeskTouches
<1>3. ASSUME NEW t \in Publisher, NEW q \in Request, ImportValidationTicket(t, q)
      PROVE  TabStep(t)
  <2>1. /\ UNCHANGED <<dbvars, page, call, reply, orphans, doubted>>
        /\ desk' = [desk EXCEPT ![t].busy = TRUE, ![t].reading = "import", ![t].ticket = q]
        /\ desk[t].sealed = None /\ q \in Mine(t)
        /\ verdict' = [verdict EXCEPT ![q] = "none"]
    BY <1>3 DEF ImportValidationTicket, BeginRead, Idle
  <2>2. /\ \A s \in Publisher : s # t => desk'[s] = desk[s]
        /\ desk'[t].sealed = None /\ desk'[t].ticket = q
    BY <1>0, <2>1 DEF DeskRecord
  <2>3. DeskLinked(t)'
    BY <2>1, <2>2 DEF DeskLinked, Mine
  <2>4. Owned(q)
    BY <2>1 DEF Owned, Tab
  <2>5. Forgets(q)
    BY <1>0, <2>1, <2>4 DEF Forgets, Replied, Told, Held, Doubts
  <2>6. \A r \in Request : r # q => Untouched(r)
    BY <1>0, <2>1 DEF Untouched, Replied, Told, Held, Doubts
  <2> QED
    BY <2>1, <2>2, <2>3, <2>5, <2>6, DeskTouches DEF TabTouches
<1>4. ASSUME NEW t \in Publisher, FetchDefinition(t) \/ ReadFails(t)
      PROVE  TabStep(t)
  <2>1. /\ UNCHANGED <<dbvars, page, call, reply, orphans, verdict, doubted>>
        /\ desk[t].sealed = None
    BY <1>0, <1>4 DEF FetchDefinition, ReadFails, DeskRows
  <2>2. /\ \A s \in Publisher : s # t => desk'[s] = desk[s]
        /\ desk'[t].sealed = desk[t].sealed
        /\ \/ desk'[t].reading = "none"
           \/ desk'[t].reading = desk[t].reading /\ desk'[t].ticket = desk[t].ticket
    <3>1. CASE FetchDefinition(t)
      <4>1. PICK row : desk' = [desk EXCEPT ![t] = [desk[t] EXCEPT !.row = row]]
        BY <1>0, <3>1 DEF FetchDefinition
      <4> QED
        BY <1>0, <4>1 DEF DeskRecord
    <3>2. CASE ReadFails(t)
      <4> DEFINE s == IF desk[t].reading = "refresh" THEN None ELSE desk[t].seen
                 a == IF desk[t].reading \in {"refresh", "result"} THEN "NONE" ELSE desk[t].action
      <4>1. desk' = [desk EXCEPT ![t] = [desk[t] EXCEPT !.seen = s, !.action = a, !.row = None,
                        !.reading = "none", !.ticket = None, !.busy = FALSE]]
        BY <1>0, <3>2 DEF ReadFails
      <4> HIDE DEF s, a
      <4> QED
        BY <1>0, <4>1 DEF DeskRecord
    <3> QED
      BY <1>4, <3>1, <3>2
  <2>3. DeskLinked(t)'
    BY <1>0, <2>1, <2>2 DEF DeskLinked, Mine
  <2> QED
    BY <1>1, <2>1, <2>2, <2>3, DeskTouches
<1>5. ASSUME NEW t \in Publisher, Refreshed(t) \/ Drifted(t)
      PROVE  TabStep(t)
  <2>1. /\ UNCHANGED <<dbvars, page, call, reply, orphans, verdict, doubted>>
        /\ desk' = [desk EXCEPT ![t] = Shown(t)]
        /\ Shown(t).sealed = None /\ Shown(t).reading = "none"
    BY <1>5, ShownTyped DEF Refreshed, Drifted, TruthInv
  <2>2. /\ \A s \in Publisher : s # t => desk'[s] = desk[s]
        /\ desk'[t].sealed = None /\ desk'[t].reading = "none"
    BY <1>0, <2>1
  <2>3. DeskLinked(t)'
    BY <2>2 DEF DeskLinked
  <2> QED
    BY <1>1, <2>1, <2>2, <2>3, DeskTouches
\* Sealing, retaining, discarding.
<1>6. ASSUME NEW t \in Publisher, NEW q \in Request, SealAttempt(t, q)
      PROVE  TabStep(t)
  <2>1. /\ q \in Mine(t) /\ call[q] = "unused" /\ call' = [call EXCEPT ![q] = "drawn"]
        /\ UNCHANGED <<dbvars, page, reply, orphans, verdict, doubted>>
        /\ desk' = [desk EXCEPT ![t] = [Shown(t) EXCEPT !.sealed = q, !.retained = FALSE]]
        /\ Shown(t) \in DeskRecord /\ Shown(t).reading = "none" /\ ~Shown(t).busy /\ ~Shown(t).unknown
    BY <1>6, ShownTyped DEF SealAttempt, DrawsFresh, TruthInv
  <2>2. /\ \A s \in Publisher : s # t => desk'[s] = desk[s]
        /\ desk'[t].sealed = q /\ desk'[t].reading = "none"
        /\ ~desk'[t].busy /\ ~desk'[t].unknown
    BY <1>0, <2>1 DEF DeskRecord
  <2>3. Owned(q)
    BY <2>1 DEF Owned, Tab
  <2>4. Draws(q)
    BY <1>0, <2>1, <2>3 DEF Draws, Replied, Told, Held, Doubts
  <2>5. \A r \in Request : r # q => Untouched(r)
    BY <1>0, <2>1 DEF Untouched, Replied, Told, Held, Doubts
  <2>6. DeskLinked(t)'
    BY <1>0, <2>1, <2>2 DEF DeskLinked, Mine
  <2> QED
    BY <2>1, <2>2, <2>4, <2>5, <2>6, DeskTouches DEF TabTouches
<1>7. ASSUME NEW t \in Publisher, TicketRestored(t)
      PROVE  TabStep(t)
  <2> DEFINE q == desk[t].ticket
  <2>1. /\ q \in Mine(t) /\ q \in Request
        /\ UNCHANGED <<dbvars, page, call, reply, orphans, verdict>>
        /\ Shown(t) \in DeskRecord /\ Shown(t).reading = "none" /\ Shown(t).sealed = None
        /\ ~Shown(t).busy
    BY <1>0, <1>7, ShownTyped DEF TicketRestored, DeskLinked, Mine, TruthInv
  <2>2. \/ /\ desk' = [desk EXCEPT ![t] = Shown(t)] /\ doubted' = doubted
        \/ /\ desk' = [desk EXCEPT ![t] = [Shown(t) EXCEPT !.sealed = q, !.retained = TRUE,
                                                         !.unknown = TRUE]]
           /\ doubted' = doubted \cup {q}
    BY <1>7 DEF TicketRestored
  <2> DEFINE w == Shown(t)
             v == [w EXCEPT !.sealed = q, !.retained = TRUE, !.unknown = TRUE]
  <2>7. /\ v.reading = "none" /\ v.sealed = q /\ v.unknown = TRUE /\ v.busy = FALSE
        /\ w.reading = "none" /\ w.sealed = None
    <3> HIDE DEF q
    <3>1. w \in DeskRecord /\ w.reading = "none" /\ w.sealed = None /\ ~w.busy
      BY <2>1
    <3> HIDE DEF w
    <3>2. /\ v.reading = w.reading /\ v.sealed = q /\ v.unknown = TRUE /\ v.busy = w.busy
      BY <3>1 DEF DeskRecord
    <3> QED
      BY <3>1, <3>2 DEF DeskRecord
  <2>8. \/ desk' = [desk EXCEPT ![t] = w] /\ doubted' = doubted
        \/ desk' = [desk EXCEPT ![t] = v] /\ doubted' = doubted \cup {q}
    BY <2>2
  <2>9. desk = [s \in Publisher |-> desk[s]]
    BY <1>0
  <2> HIDE DEF q, w, v
  <2>3. /\ \A s \in Publisher : s # t => desk'[s] = desk[s]
        /\ desk'[t].reading = "none"
        /\ \/ desk'[t].sealed = None
           \/ /\ desk'[t].sealed = q /\ desk'[t].unknown /\ ~desk'[t].busy
              /\ doubted' = doubted \cup {q}
    BY <2>7, <2>8, <2>9
  <2>4. Owned(q)
    BY <2>1 DEF Owned, Tab
  <2>5. ASSUME NEW r \in Request
        PROVE  Untouched(r) \/ (r = q /\ Reopens(q))
    BY <2>1, <2>2, <2>4 DEF Untouched, Reopens, Replied, Told, Held, Doubts
  <2>6. DeskLinked(t)'
    BY <2>1, <2>3 DEF DeskLinked, Mine
  <2> QED
    BY <2>1, <2>3, <2>5, <2>6, DeskTouches DEF TabTouches
<1>8. ASSUME NEW t \in Publisher, RetainTicket(t) \/ DiscardUnsentAttempt(t)
      PROVE  TabStep(t)
  <2>1. /\ UNCHANGED <<dbvars, page, call, reply, orphans, verdict, doubted>>
        /\ ~desk[t].busy /\ ~desk[t].unknown /\ desk[t].reading = "none"
    BY <1>0, <1>8 DEF RetainTicket, DiscardUnsentAttempt, DeskRows
  <2>2. \/ desk' = [desk EXCEPT ![t] = [desk[t] EXCEPT !.retained = TRUE]]
        \/ desk' = [desk EXCEPT ![t] = [desk[t] EXCEPT !.sealed = None, !.retained = FALSE]]
    BY <1>0, <1>8 DEF RetainTicket, DiscardUnsentAttempt
  <2>3. /\ \A s \in Publisher : s # t => desk'[s] = desk[s]
        /\ desk'[t].sealed \in {desk[t].sealed, None} /\ desk'[t].reading = "none"
        /\ desk'[t].busy = desk[t].busy /\ desk'[t].unknown = desk[t].unknown
    <3> DEFINE w == desk[t]
               u == [w EXCEPT !.retained = TRUE]
               v == [w EXCEPT !.sealed = None, !.retained = FALSE]
    <3>1. w \in DeskRecord
      BY <1>0
    <3>2. /\ u.sealed = w.sealed /\ u.reading = w.reading
          /\ u.busy = w.busy /\ u.unknown = w.unknown
          /\ v.sealed = None /\ v.reading = w.reading
          /\ v.busy = w.busy /\ v.unknown = w.unknown
      <4> HIDE DEF w
      <4> QED
        BY <3>1 DEF DeskRecord
    <3>3. desk' = [desk EXCEPT ![t] = u] \/ desk' = [desk EXCEPT ![t] = v]
      BY <2>2
    <3> HIDE DEF u, v
    <3> QED
      BY <1>0, <2>1, <3>2, <3>3
  <2>4. DeskLinked(t)'
    BY <1>0, <2>1, <2>3 DEF DeskLinked, Mine
  <2> QED
    BY <1>1, <2>1, <2>3, <2>4, DeskTouches
\* Sending.
<1>9. ASSUME NEW t \in Publisher, ExecuteAttempt(t) \/ ReplayValidation(t)
      PROVE  TabStep(t)
  <2> DEFINE q == desk[t].sealed
  <2>1. /\ ~desk[t].busy /\ q # None /\ desk[t].reading = "none" /\ DeskLinked(t)
        /\ desk' = [desk EXCEPT ![t].busy = TRUE]
        /\ UNCHANGED <<dbvars, page, reply, orphans, verdict, doubted>>
        /\ \/ call' = [call EXCEPT ![q] = "sent"] /\ ~desk[t].unknown
           \/ call' = [call EXCEPT ![q] = "resent"] /\ desk[t].unknown
    BY <1>0, <1>9 DEF ExecuteAttempt, ReplayValidation, Perform, DeskRows
  <2>2. /\ q \in Mine(t) /\ q \in Request /\ Owned(q)
        /\ ~desk[t].unknown => call[q] = "drawn"
        /\ desk[t].unknown => q \in doubted
    BY <2>1 DEF DeskLinked, Mine, Owned, Tab
  <2> HIDE DEF q
  <2>3. /\ \A s \in Publisher : s # t => desk'[s] = desk[s]
        /\ desk'[t].sealed = q /\ desk'[t].busy /\ desk'[t].reading = "none"
        /\ desk'[t].unknown = desk[t].unknown
    BY <1>0, <2>1 DEF DeskRecord, q
  <2>4. Sends(q) \/ Resends(q)
    BY <1>0, <2>1, <2>2 DEF Sends, Resends, Replied, Told, Held, Doubts
  <2>5. \A r \in Request : r # q => Untouched(r)
    BY <1>0, <2>1 DEF Untouched, Replied, Told, Held, Doubts
  <2>6. call'[q] \in {"sent", "resent"}
    BY <1>0, <2>1, <2>2
  <2>7. DeskLinked(t)'
    BY <2>1, <2>2, <2>3, <2>6 DEF DeskLinked, Mine
  <2> QED
    BY <2>1, <2>2, <2>3, <2>4, <2>5, <2>7, DeskTouches DEF TabTouches
\* What comes of it.
<1>10. ASSUME NEW t \in Publisher, Sending(t)
       PROVE  /\ desk[t].sealed \in Mine(t) /\ desk[t].sealed \in Request /\ Owned(desk[t].sealed)
              /\ call[desk[t].sealed] \in {"sent", "resent"}
  BY <1>0, <1>10 DEF Sending, DeskLinked, Mine, Owned, Tab
<1>11. ASSUME NEW t \in Publisher, AttemptUnknown(t)
       PROVE  TabStep(t)
  <2> DEFINE q == desk[t].sealed
  <2>1. /\ q \in Mine(t) /\ q \in Request /\ Owned(q)
        /\ call[q] \in {"sent", "resent"}
    BY <1>10, <1>11 DEF AttemptUnknown
  <2>2. /\ Abandon({q}) /\ UNCHANGED <<dbvars, page, verdict>>
        /\ desk' = [desk EXCEPT ![t].unknown = TRUE, ![t].busy = FALSE]
        /\ desk[t].reading = "none"
    BY <1>11 DEF AttemptUnknown, Sending
  <2>3. /\ \A s \in Publisher : s # t => desk'[s] = desk[s]
        /\ desk'[t].sealed = q /\ desk'[t].unknown /\ desk'[t].reading = "none"
        /\ ~desk'[t].busy
    BY <1>0, <2>2 DEF DeskRecord
  <2> HIDE DEF q
  <2>4. Drops(q) /\ q \in doubted'
    BY <2>1, <2>2 DEF Drops, Abandon, Replied, Told
  <2>5. \A r \in Request : r # q => Untouched(r)
    BY <2>2 DEF Abandon, Untouched, Replied, Told, Held, Doubts
  <2>6. DeskLinked(t)'
    BY <2>1, <2>3, <2>4 DEF DeskLinked, Mine
  <2> QED
    BY <2>1, <2>2, <2>3, <2>4, <2>5, <2>6, DeskTouches DEF TabTouches
<1>12. ASSUME NEW t \in Publisher, AttemptVerified(t) \/ RecoverPublication(t)
       PROVE  TabStep(t)
  <2> DEFINE q == desk[t].sealed
  <2>1. /\ q \in Mine(t) /\ q \in Request /\ Owned(q)
    <3>1. CASE AttemptVerified(t)
      BY <1>10, <3>1 DEF AttemptVerified
    <3>2. CASE RecoverPublication(t)
      BY <1>0, <3>2 DEF RecoverPublication, DeskRows, DeskLinked, Mine, Owned, Tab
    <3> QED
      BY <1>12, <3>1, <3>2
  <2>2. /\ UNCHANGED <<dbvars, page, orphans, doubted>>
        /\ desk' = [desk EXCEPT ![t] = Resolved(t)]
        /\ verdict' = [verdict EXCEPT ![q] = "committed"]
        /\ \/ call' = [call EXCEPT ![q] = "done"] /\ reply' = [reply EXCEPT ![q] = None]
           \/ call' = call /\ reply' = reply
    BY <1>12 DEF AttemptVerified, RecoverPublication
  <2>3. Committed(q)
    <3>1. Truth(q)
      BY <2>1 DEF TruthInv
    <3> QED
      BY <1>12, <3>1 DEF AttemptVerified, RecoverPublication, Truth
  <2>4. /\ \A s \in Publisher : s # t => desk'[s] = desk[s]
        /\ desk'[t].sealed = None /\ desk'[t].reading = "result"
    BY <1>0, <2>2 DEF DeskRecord, Resolved
  <2> HIDE DEF q
  <2>5. Accepts(q)
    BY <1>0, <2>1, <2>2, <2>3 DEF Accepts, Replied, Told, Held, Doubts
  <2>6. \A r \in Request : r # q => Untouched(r)
    BY <1>0, <2>2 DEF Untouched, Replied, Told, Held, Doubts
  <2>7. DeskLinked(t)'
    BY <2>4 DEF DeskLinked
  <2> QED
    BY <2>1, <2>2, <2>4, <2>5, <2>6, <2>7, DeskTouches DEF TabTouches
<1>13. ASSUME NEW t \in Publisher, AttemptRefused(t)
       PROVE  TabStep(t)
  <2> DEFINE q == desk[t].sealed
  <2>1. /\ q \in Mine(t) /\ q \in Request /\ Owned(q) /\ reply[q] = "REFUSED"
        /\ desk[t].reading = "none"
    BY <1>10, <1>13 DEF AttemptRefused, Sending
  <2>2. /\ UNCHANGED <<dbvars, page, orphans, doubted>>
        /\ desk' = [desk EXCEPT ![t].sealed = None, ![t].retained = FALSE,
                                ![t].unknown = FALSE, ![t].busy = FALSE]
        /\ verdict' = [verdict EXCEPT ![q] = "refused"]
        /\ call' = [call EXCEPT ![q] = "done"] /\ reply' = [reply EXCEPT ![q] = None]
    BY <1>13 DEF AttemptRefused
  <2>3. /\ \A s \in Publisher : s # t => desk'[s] = desk[s]
        /\ desk'[t].sealed = None /\ desk'[t].reading = "none"
    BY <1>0, <2>1, <2>2 DEF DeskRecord
  <2> HIDE DEF q
  <2>4. Refuses(q)
    BY <1>0, <2>1, <2>2 DEF Refuses, Replied, Told, Held, Doubts
  <2>5. \A r \in Request : r # q => Untouched(r)
    BY <1>0, <2>2 DEF Untouched, Replied, Told, Held, Doubts
  <2>6. DeskLinked(t)'
    BY <2>3 DEF DeskLinked
  <2> QED
    BY <2>1, <2>2, <2>3, <2>4, <2>5, <2>6, DeskTouches DEF TabTouches
<1>14. ASSUME NEW t \in Publisher, LeaveDesk(t)
       PROVE  TabStep(t)
  <2> DEFINE rs == {desk[t].sealed} \cap Request
  <2>1. /\ Abandon(rs) /\ UNCHANGED <<dbvars, page, verdict>>
        /\ desk' = [desk EXCEPT ![t] = Cleared]
    BY <1>14 DEF LeaveDesk
  <2>2. /\ \A s \in Publisher : s # t => desk'[s] = desk[s]
        /\ desk'[t].sealed = None /\ desk'[t].reading = "none"
    BY <1>0, <2>1 DEF Cleared
  <2>3. ASSUME NEW r \in rs
        PROVE  r \in Mine(t) /\ Drops(r)
    <3>1. r \in Mine(t) /\ r \in Request /\ Owned(r)
      BY <1>0 DEF DeskLinked, Owned, Tab
    <3> QED
      BY <2>1, <3>1 DEF Drops, Abandon, Replied, Told
  <2>4. ASSUME NEW r \in Request, r \notin rs
        PROVE  Untouched(r)
    BY <2>1, <2>4 DEF Abandon, Untouched, Replied, Told, Held, Doubts
  <2>5. DeskLinked(t)'
    BY <2>2 DEF DeskLinked
  <2> QED
    BY <2>1, <2>2, <2>3, <2>4, <2>5, DeskTouches DEF TabTouches
<1> QED
  BY <1>2, <1>3, <1>4, <1>5, <1>6, <1>7, <1>8, <1>9, <1>11, <1>12, <1>13, <1>14 DEF DeskAction

-----------------------------------------------------------------------------
\* A step of the pages is a step of one tab.
LEMMA TabsAct ==
    /\ AuthoringNext => \E t \in Entry \cup Editor : AuthoringAction(t)
    /\ DeskNext => \E t \in Publisher : DeskAction(t)
<1>1. AuthoringNext => \E t \in Entry \cup Editor : AuthoringAction(t)
  BY DEF AuthoringNext, AuthoringAction
<1>2. DeskNext => \E t \in Publisher : DeskAction(t)
  BY DEF DeskNext, DeskAction
<1> QED
  BY <1>1, <1>2

LEMMA TruthInitially == ClientInit => TruthInv
<1> SUFFICES ASSUME ClientInit
             PROVE  TruthInv
  OBVIOUS
<1>1. \A t \in Entry \cup Editor : PageLinked(t)
  BY DEF ClientInit, Blank, PageLinked
<1>2. \A t \in Publisher : DeskLinked(t)
  BY DEF ClientInit, Cleared, DeskLinked
<1>3. ASSUME NEW r \in Request
      PROVE  Truth(r)
  <2>1. ~Committed(r)
    BY DEF ClientInit, LifecycleInit, Committed, BoundRequests, PublicationsOf
  <2>2. /\ call[r] = "unused" /\ reply[r] = None /\ verdict[r] = "none" /\ r \notin orphans
        /\ None \notin Successful /\ None # "REFUSED"
    BY TabAssumption DEF ClientInit, Answer, Successful
  <2> QED
    BY <2>1, <2>2 DEF Truth, OnWire
<1> QED
  BY <1>1, <1>2, <1>3, TypesInitially DEF TruthInv, Linked

LEMMA TruthStep ==
    ASSUME TruthInv, [ClientNext]_allvars
    PROVE  TruthInv'
<1>1. TypeInv'
  BY TypeStep DEF TruthInv
<1>2. Linked' /\ \A r \in Request : Truth(r)'
  <2>1. CASE AuthoringNext \/ DeskNext
    <3>1. \E t \in Tab : TabStep(t)
      BY <2>1, TabsAct, AuthoringSteps, DeskSteps DEF Tab
    <3> QED
      BY <3>1, TabStepKeeps
  <2>2. CASE ServerNext
    <3>1. UNCHANGED <<page, desk, call, doubted>>
      BY <2>2 DEF ServerNext, Serve, ServeOrphan, ElsewhereStep, clientvars
    <3>2. Linked'
      BY <3>1 DEF TruthInv, Linked, PageLinked, DeskLinked, Mine
    <3> QED
      BY <2>2, <3>2, ServerKeepsTruth DEF TruthInv
  <2>3. CASE UNCHANGED allvars
    <3>1. UNCHANGED dbvars /\ UNCHANGED clientvars
      BY <2>3 DEF allvars
    <3>2. ASSUME NEW r \in Request
          PROVE  Truth(r)'
      BY <3>1, UnchangedCommits DEF clientvars, TruthInv, Truth, OnWire, Owned, Mine
    <3>3. Linked'
      BY <3>1 DEF clientvars, TruthInv, Linked, PageLinked, DeskLinked, Mine
    <3> QED
      BY <3>2, <3>3
  <2> QED
    BY <2>1, <2>2, <2>3 DEF ClientNext
<1> QED
  BY <1>1, <1>2 DEF TruthInv

\* What a page tells a HUMAN of a write is true, for any number of tabs,
\* definitions and requests, whatever the network loses, delays or crosses.
THEOREM VerdictsAreTruthful == ClientSpec => []TruthfulVerdicts
<1>1. TruthInv => TruthfulVerdicts
  BY DEF TruthInv, Truth, TruthfulVerdicts
<1>2. TruthInv /\ [ClientNext]_allvars => TruthInv'
  BY TruthStep
<1> QED
  BY <1>1, <1>2, TruthInitially, PTL DEF ClientSpec

-----------------------------------------------------------------------------
(* The base of an editor.                                                  *)

\* What a row holds, and what a save put there, is on a receipt.
Receipted(d, m) == \E row \in receipts : row.request.target = d /\ row.after.manifest = m
RowsReceipted == \A d \in Definition : Exists(d) => Receipted(d, definitions[d].manifest)
SavesExact ==
    \A row \in receipts :
        row.request.op = "SAVE_DRAFT" => row.after.manifest = row.request.manifest

\* An editor carries saves of its own definition only.
SavesOnly(t) ==
    \A r \in Mine(t) :
        call[r] # "unused" \/ reply[r] # None \/ page[t].unresolved = r =>
            r.op = "SAVE_DRAFT" /\ r.target = PageOf[t]
BaseStored(t) == page[t].base # None => Receipted(PageOf[t], page[t].base)

BaseInv ==
    /\ TruthInv /\ RowsReceipted /\ SavesExact
    /\ \A t \in Editor : SavesOnly(t) /\ BaseStored(t)

LEMMA RowsStayReceipted ==
    ASSUME TypeOK, TypeOK', RowsReceipted, SavesExact, [LifecycleNext]_dbvars
    PROVE  RowsReceipted' /\ SavesExact' /\ receipts \subseteq receipts'
<1>1. CASE UNCHANGED dbvars
  BY <1>1 DEF dbvars, RowsReceipted, Receipted, SavesExact, Exists
<1>2. ASSUME NEW r \in Request, Operation(r)
      PROVE  RowsReceipted' /\ SavesExact' /\ receipts \subseteq receipts'
  <2>0. Allowed(r) /\ r.target \in Definition
    BY <1>2, OperationWrites, RequestFields
  <2>1. ASSUME r.op \in WriteOp, HumanWrite(r, AfterRow(r))
        PROVE  RowsReceipted' /\ SavesExact' /\ receipts \subseteq receipts'
    <3>1. /\ \A d \in Definition \ {r.target} : definitions'[d] = definitions[d]
          /\ definitions'[r.target] = AfterRow(r)
      BY <2>0, <2>1, HumanWriteFrame
    <3>2. r.op = "SAVE_DRAFT" => AfterRow(r).manifest = r.manifest
      <4>1. r.op = "SAVE_DRAFT" => AfterRow(r) = [definitions[r.target] EXCEPT !.manifest = r.manifest]
        BY DEF AfterRow, PublicationOp
      <4>2. r.op = "SAVE_DRAFT" => definitions[r.target] \in DefinitionRow
        BY <2>0, <2>1, HumanWriteFrame DEF InsertOp
      <4> QED
        BY <4>1, <4>2 DEF DefinitionRow
    <3>3. PICK new : /\ new = [key |-> r.key, request |-> r, after |-> AfterRow(r)]
                     /\ receipts' = receipts \cup {new}
      BY <2>1 DEF HumanWrite
    <3>4. new.request = r /\ new.after = AfterRow(r)
      BY <3>3
    <3>5. ASSUME NEW d \in Definition, Exists(d)'
          PROVE  Receipted(d, definitions[d].manifest)'
      <4>1. CASE d = r.target
        BY <3>1, <3>3, <3>4, <4>1 DEF Receipted
      <4>2. CASE d # r.target
        BY <3>1, <3>3, <3>5, <4>2 DEF Receipted, RowsReceipted, Exists
      <4> QED
        BY <4>1, <4>2
    <3>6. SavesExact'
      BY <3>2, <3>3, <3>4 DEF SavesExact
    <3> QED
      BY <3>3, <3>5, <3>6 DEF RowsReceipted
  <2>2. ASSUME r.op \in PublicationOp, Publish(r, AfterRow(r))
        PROVE  RowsReceipted' /\ SavesExact' /\ receipts \subseteq receipts'
    <3>1. receipts' = receipts
      BY <2>2 DEF Publish
    <3>2. ASSUME NEW d \in Definition, Exists(d)'
          PROVE  Exists(d) /\ definitions'[d].manifest = definitions[d].manifest
      <4>1. CASE d = r.target
        <5>1. /\ definitions[d] \in DefinitionRow
              /\ definitions'[d] = [definitions[d] EXCEPT !.status = "PUBLISHED", !.current = TRUE]
          BY <2>0, <2>2, <4>1, PublishFrame
        <5> QED
          BY <5>1, NoneAssumption DEF DefinitionRow, Exists
      <4>2. CASE d # r.target
        <5>1. definitions'[d] = Demoted(r.project, d)
          BY <2>0, <2>2, <4>2, PublishFrame
        <5>2. Exists(d)
          BY <3>2, <5>1 DEF Exists, Demoted
        <5>3. definitions[d] \in DefinitionRow
          BY <5>2, RowType
        <5> QED
          BY <5>1, <5>2, <5>3 DEF Demoted, DefinitionRow
      <4> QED
        BY <4>1, <4>2
    <3> QED
      BY <3>1, <3>2 DEF RowsReceipted, Receipted, SavesExact
  <2> QED
    BY <1>2, <2>1, <2>2, OperationWrites
<1> QED
  BY <1>1, <1>2 DEF LifecycleNext

\* A request that is not touched as one of its own is answered by nobody.
LEMMA OthersQuiet ==
    ASSUME NEW r \in Request, TabTouches(r), call'[r] = call[r]
    PROVE  reply'[r] = reply[r] \/ reply'[r] = None
  BY DEF TabTouches, Untouched, Draws, Sends, Resends, Drops, Accepts, Refuses, Forgets,
         Reopens, Replied

\* Another tab moves.
LEMMA OtherEditors ==
    ASSUME BaseInv, NEW u \in Tab, TabStep(u), NEW t \in Editor, t # u
    PROVE  SavesOnly(t)' /\ BaseStored(t)'
<1>1. page'[t] = page[t] /\ receipts' = receipts
  BY DEF TabStep, dbvars
<1>2. ASSUME NEW r \in Mine(t)
      PROVE  call'[r] = call[r] /\ reply'[r] \in {reply[r], None}
  <2>1. r \in Request /\ r \notin Mine(u)
    BY OwnedOnce DEF Tab
  <2> QED
    BY <2>1, OthersQuiet DEF TabStep
<1>3. SavesOnly(t) /\ BaseStored(t)
  BY DEF BaseInv
<1> QED
  BY <1>1, <1>2, <1>3 DEF SavesOnly, BaseStored, Receipted, Mine

\* An editor moves.
LEMMA EditorKeepsBase ==
    ASSUME BaseInv, NEW t \in Editor, AuthoringAction(t)
    PROVE  SavesOnly(t)' /\ BaseStored(t)'
<1> DEFINE p == page[t]
<1>0. /\ page \in [Entry \cup Editor -> PageRecord] /\ p \in PageRecord
      /\ call \in [Request -> {"unused", "drawn", "sent", "resent", "done"}]
      /\ reply \in [Request -> Answer \cup {None}]
      /\ Mine(t) \subseteq Request /\ t \notin Entry
      /\ SavesOnly(t) /\ BaseStored(t) /\ TypeOK
      /\ UNCHANGED receipts
  <2>1. AuthoringNext => UNCHANGED dbvars
    BY PagesWriteNothing
  <2>2. AuthoringNext
    BY DEF AuthoringNext, AuthoringAction
  <2> QED
    BY <2>1, <2>2, TypeParts, TabAssumption
    DEF BaseInv, TruthInv, TypeInv, PageRows, ClientRows, Mine, dbvars
<1>1. ASSUME NEW v \in PageRecord, page' = [page EXCEPT ![t] = v],
             v.base = p.base, v.unresolved \in {p.unresolved, None},
             UNCHANGED <<call, reply>>
      PROVE  SavesOnly(t)' /\ BaseStored(t)'
  <2>1. page'[t] = v
    BY <1>0, <1>1
  <2>2. \A r \in Mine(t) : None # r
    BY <1>0, TabAssumption
  <2> QED
    BY <1>0, <1>1, <2>1, <2>2 DEF SavesOnly, BaseStored, Receipted, Mine
<1>2. ASSUME OpenDefinition(t)
      PROVE  SavesOnly(t)' /\ BaseStored(t)'
  <2>1. PICK m, e : /\ m = definitions[PageOf[t]].manifest
                    /\ page' = [page EXCEPT ![t] = [p EXCEPT !.base = m, !.draft = m, !.editable = e]]
    BY <1>0, <1>2 DEF OpenDefinition
  <2>2. page'[t].base = m /\ page'[t].unresolved = p.unresolved
    BY <1>0, <2>1 DEF PageRecord
  <2>3. Receipted(PageOf[t], m)
    BY <1>2, <2>1, TabAssumption DEF OpenDefinition, BaseInv, RowsReceipted
  <2>4. UNCHANGED <<call, reply>>
    BY <1>2 DEF OpenDefinition
  <2> QED
    BY <1>0, <2>2, <2>3, <2>4 DEF SavesOnly, BaseStored, Receipted, Mine
<1>3. ASSUME \/ BeginPreview(t) \/ SendPreview(t) \/ EndPreview(t)
             \/ \E m \in Manifest : Edit(t, m)
      PROVE  SavesOnly(t)' /\ BaseStored(t)'
  <2>1. UNCHANGED <<call, reply>>
    BY <1>3 DEF BeginPreview, SendPreview, EndPreview, Edit
  <2>2. /\ page'[t].base = p.base /\ page'[t].unresolved = p.unresolved
    <3>1. ASSUME NEW m \in Manifest, Edit(t, m)
          PROVE  page'[t].base = p.base /\ page'[t].unresolved = p.unresolved
      BY <1>0, <3>1 DEF Edit, PageRecord
    <3>2. CASE BeginPreview(t) \/ EndPreview(t)
      BY <1>0, <3>2 DEF BeginPreview, EndPreview, PageRecord
    <3>3. CASE SendPreview(t)
      BY <1>0, <3>3 DEF SendPreview, PageRecord
    <3> QED
      BY <1>3, <3>1, <3>2, <3>3
  <2> QED
    BY <1>0, <2>1, <2>2 DEF SavesOnly, BaseStored, Receipted, Mine
<1>4. ASSUME NEW q \in Request, BeginSave(t, q) \/ SendSave(t, q)
      PROVE  SavesOnly(t)' /\ BaseStored(t)'
  <2>1. q \in Mine(t) /\ q.op = "SAVE_DRAFT" /\ q.target = PageOf[t]
    BY <1>0, <1>4 DEF BeginSave, SendSave, SavesOnly
  <2>2. /\ UNCHANGED reply /\ \A r \in Mine(t) : r # q => call'[r] = call[r]
    BY <1>0, <1>4 DEF BeginSave, SendSave
  <2>3. /\ page'[t].base = p.base /\ page'[t].unresolved = p.unresolved
    BY <1>0, <1>4 DEF BeginSave, SendSave, PageRecord
  <2> QED
    BY <1>0, <2>1, <2>2, <2>3 DEF SavesOnly, BaseStored, Receipted, Mine
<1>5. ASSUME Reconcile(t)
      PROVE  SavesOnly(t)' /\ BaseStored(t)'
  <2>1. PICK q : q = p.unresolved /\ q # None
    BY <1>5 DEF Reconcile
  <2>2. q \in Mine(t)
    BY <2>1 DEF BaseInv, TruthInv, Linked, PageLinked
  <2>3. q.op = "SAVE_DRAFT" /\ q.target = PageOf[t]
    BY <1>0, <2>1, <2>2 DEF SavesOnly
  <2>4. /\ UNCHANGED reply /\ \A r \in Mine(t) : r # q => call'[r] = call[r]
    BY <1>0, <1>5, <2>1 DEF Reconcile
  <2>5. /\ page'[t].base = p.base /\ page'[t].unresolved = p.unresolved
    BY <1>0, <1>5 DEF Reconcile, PageRecord
  <2> QED
    BY <1>0, <2>3, <2>4, <2>5 DEF SavesOnly, BaseStored, Receipted, Mine
<1>6. ASSUME NEW q \in Request, SaveUnknown(t, q) \/ SaveVerified(t, q) \/ SaveRefused(t, q)
      PROVE  SavesOnly(t)' /\ BaseStored(t)'
  <2>1. q \in Mine(t) /\ q.op = "SAVE_DRAFT" /\ q.target = PageOf[t]
    <3>1. q \in Mine(t) /\ (call[q] # "unused" \/ reply[q] # None)
      BY <1>6, TabAssumption DEF SaveUnknown, SaveVerified, SaveRefused, Successful, Answer
    <3> QED
      BY <1>0, <3>1 DEF SavesOnly
  <2>2. \A r \in Mine(t) : r # q => call'[r] = call[r] /\ reply'[r] = reply[r]
    BY <1>0, <1>6 DEF SaveUnknown, SaveVerified, SaveRefused, Abandon
  <2>3. /\ page'[t].unresolved \in {q, None}
        /\ \/ page'[t].base = p.base
           \/ page'[t].base = q.manifest /\ SaveVerified(t, q)
    <3>1. CASE SaveVerified(t, q)
      <4>1. PICK m, b : /\ b = q.manifest
                        /\ page' = [page EXCEPT ![t] = [p EXCEPT !.draft = m, !.base = b,
                                       !.dirty = FALSE, !.unresolved = None, !.busy = FALSE]]
        <5> DEFINE m == IF reply[q] = "COMMITTED" THEN q.manifest ELSE p.draft
        <5>1. page' = [page EXCEPT ![t] = [p EXCEPT !.draft = m, !.base = q.manifest,
                                       !.dirty = FALSE, !.unresolved = None, !.busy = FALSE]]
          BY <1>0, <3>1 DEF SaveVerified
        <5> HIDE DEF m
        <5> QED
          BY <5>1
      <4> QED
        BY <1>0, <3>1, <4>1 DEF PageRecord
    <3>2. CASE SaveUnknown(t, q)
      BY <1>0, <3>2 DEF SaveUnknown, PageRecord
    <3>3. CASE SaveRefused(t, q)
      <4>1. PICK w \in {q, None} : page' = [page EXCEPT ![t] = [p EXCEPT !.unresolved = w, !.busy = FALSE]]
        BY <1>0, <3>3 DEF SaveRefused
      <4> QED
        BY <1>0, <4>1 DEF PageRecord
    <3> QED
      BY <1>6, <3>1, <3>2, <3>3
  <2>4. SaveVerified(t, q) => Receipted(PageOf[t], q.manifest)
    <3>1. SaveVerified(t, q) => Committed(q)
      BY DEF SaveVerified, BaseInv, TruthInv, Truth
    <3>2. Committed(q) => \E row \in receipts : row.request = q
      BY <2>1 DEF Committed, BoundRequests, WriteOp
    <3> QED
      BY <2>1, <3>1, <3>2 DEF BaseInv, SavesExact, Receipted
  <2>5. \A r \in Mine(t) : None # r
    BY <1>0, TabAssumption
  <2> QED
    BY <1>0, <2>1, <2>2, <2>3, <2>4, <2>5 DEF SavesOnly, BaseStored, Receipted, Mine
<1>7. ASSUME LeavePage(t)
      PROVE  SavesOnly(t)' /\ BaseStored(t)'
  <2>1. page'[t].base = None /\ page'[t].unresolved = None
    BY <1>0, <1>7 DEF LeavePage, Blank
  <2>2. \A r \in Mine(t) : None # r
    BY <1>0, TabAssumption
  <2>3. \A r \in Mine(t) : \/ call'[r] = call[r] /\ reply'[r] = reply[r]
                           \/ call[r] # "unused"
    BY <1>0, <1>7 DEF LeavePage, Abandon
  <2> QED
    BY <1>0, <2>1, <2>2, <2>3 DEF SavesOnly, BaseStored, Mine
<1> QED
  BY <1>0, <1>2, <1>3, <1>4, <1>5, <1>6, <1>7 DEF AuthoringAction

LEMMA BaseStep ==
    ASSUME BaseInv, [ClientNext]_allvars
    PROVE  BaseInv'
<1>1. TruthInv'
  BY TruthStep DEF BaseInv
<1>2. RowsReceipted' /\ SavesExact' /\ receipts \subseteq receipts'
  <2>1. TypeOK /\ TypeOK'
    BY <1>1, TypeParts DEF BaseInv, TruthInv, TypeInv, ClientTypeOK
  <2> QED
    BY <2>1, RowsStep, RowsStayReceipted DEF BaseInv
<1>3. ASSUME NEW t \in Editor
      PROVE  SavesOnly(t)' /\ BaseStored(t)'
  <2>1. CASE AuthoringNext
    <3>1. PICK u \in Entry \cup Editor : AuthoringAction(u)
      BY <2>1, TabsAct
    <3>2. TabStep(u)
      BY <3>1, AuthoringSteps DEF BaseInv
    <3> QED
      BY <3>1, <3>2, EditorKeepsBase, OtherEditors DEF Tab
  <2>2. CASE DeskNext
    <3>1. PICK u \in Publisher : DeskAction(u)
      BY <2>2, TabsAct
    <3>2. TabStep(u) /\ u # t
      BY <3>1, DeskSteps, TabAssumption DEF BaseInv
    <3> QED
      BY <3>2, OtherEditors DEF Tab
  <2>3. CASE ServerNext \/ UNCHANGED allvars
    <3>1. /\ UNCHANGED <<page, call>>
          /\ \A r \in Request : reply'[r] # None => reply[r] # None \/ call[r] # "unused"
      <4>0. reply \in [Request -> Answer \cup {None}]
        BY TypeParts DEF BaseInv, TruthInv, TypeInv, ClientRows
      <4> QED
        BY <2>3, <4>0 DEF ServerNext, Serve, ServeOrphan, ElsewhereStep, clientvars, allvars, OnWire
    <3>2. SavesOnly(t)'
      BY <3>1 DEF BaseInv, SavesOnly, Mine
    <3>3. BaseStored(t)'
      BY <1>2, <3>1 DEF BaseInv, BaseStored, Receipted
    <3> QED
      BY <3>2, <3>3
  <2> QED
    BY <2>1, <2>2, <2>3 DEF ClientNext
<1> QED
  BY <1>1, <1>2, <1>3 DEF BaseInv

\* What an editor sends as the ETag of its base was stored for its definition,
\* for any tabs, definitions and requests: an open shows what a receipt left, a
\* verified save what its own receipt says, and no proposal becomes a base.
THEOREM BasesWereStored == ClientSpec => []BaseWasStored
<1>1. ClientInit => BaseInv
  <2> SUFFICES ASSUME ClientInit
               PROVE  BaseInv
    OBVIOUS
  <2>1. TruthInv
    BY TruthInitially
  <2>2. RowsReceipted /\ SavesExact
    BY DEF ClientInit, LifecycleInit, RowsReceipted, SavesExact, Exists
  <2>3. ASSUME NEW t \in Editor
        PROVE  SavesOnly(t) /\ BaseStored(t)
    BY TabAssumption DEF ClientInit, Blank, SavesOnly, BaseStored, Mine
  <2> QED
    BY <2>1, <2>2, <2>3 DEF BaseInv
<1>2. BaseInv /\ [ClientNext]_allvars => BaseInv'
  BY BaseStep
<1>3. BaseInv => BaseWasStored
  BY DEF BaseInv, BaseStored, Receipted, BaseWasStored
<1> QED
  BY <1>1, <1>2, <1>3, PTL DEF ClientSpec

-----------------------------------------------------------------------------
(* The tickets of a desk.                                                  *)

\* What a desk has under way it has sealed, and what it may send is retained.
DeskCovered(t) ==
    /\ \A r \in Mine(t) : call[r] \in {"sent", "resent"} =>
          desk[t].sealed = r /\ desk[t].busy /\ r \in tickets
    /\ desk[t].retained \/ desk[t].unknown => desk[t].sealed \in tickets
    /\ desk[t].reading = "import" => desk[t].ticket \in tickets

OnTicket(t) == \A r \in Mine(t) : OnWire(r) \/ r \in orphans \/ Committed(r) => r \in tickets

CoverInv == TruthInv /\ \A t \in Publisher : DeskCovered(t) /\ OnTicket(t)

\* What a tab puts on the wire, or leaves there, its call carries.
LEMMA UnderWay ==
    ASSUME NEW r \in Request, TabTouches(r), OnWire(r)' \/ r \in orphans'
    PROVE  OnWire(r) \/ r \in orphans \/ call'[r] \in {"sent", "resent"}
  BY DEF TabTouches, Untouched, Draws, Sends, Resends, Drops, Accepts, Refuses, Forgets,
         Reopens, Replied, Held, OnWire

LEMMA TabKeepsCover ==
    ASSUME CoverInv, NEW u \in Tab, TabStep(u), tickets \subseteq tickets',
           u \in Publisher => DeskCovered(u)',
           NEW t \in Publisher
    PROVE  DeskCovered(t)' /\ OnTicket(t)'
<1>0. Mine(t) \subseteq Request /\ Mine(t)' = Mine(t)
  BY DEF Mine
<1>1. DeskCovered(t)'
  <2>1. CASE u = t
    BY <2>1
  <2>2. CASE u # t
    <3>1. desk'[t] = desk[t]
      BY <2>2 DEF TabStep
    <3>2. \A r \in Mine(t) : call'[r] = call[r]
      BY <2>2, OwnedOnce DEF TabStep, Tab
    <3> QED
      BY <1>0, <3>1, <3>2 DEF CoverInv, DeskCovered
  <2> QED
    BY <2>1, <2>2
<1>2. ASSUME NEW r \in Mine(t), OnWire(r)' \/ r \in orphans' \/ Committed(r)'
      PROVE  r \in tickets'
  <2>1. r \in Request /\ TabTouches(r)
    BY <1>0 DEF TabStep
  <2>2. Committed(r)' => Committed(r)
    BY UnchangedCommits DEF TabStep
  <2>3. OnWire(r) \/ r \in orphans \/ Committed(r) \/ call'[r] \in {"sent", "resent"}
    BY <1>2, <2>1, <2>2, UnderWay
  <2>4. OnWire(r) \/ r \in orphans \/ Committed(r) => r \in tickets
    BY DEF CoverInv, OnTicket
  <2>5. call'[r] \in {"sent", "resent"} => r \in tickets'
    BY <1>0, <1>1 DEF DeskCovered
  <2> QED
    BY <2>3, <2>4, <2>5
<1> QED
  BY <1>0, <1>1, <1>2 DEF OnTicket

\* The desk itself moves.
LEMMA DeskKeepsCover ==
    ASSUME CoverInv, NEW t \in Publisher, DeskAction(t)
    PROVE  DeskCovered(t)' /\ tickets \subseteq tickets'
<1> DEFINE w == desk[t]
<1>0. /\ desk \in [Publisher -> DeskRecord] /\ w \in DeskRecord /\ DeskRows
      /\ call \in [Request -> {"unused", "drawn", "sent", "resent", "done"}]
      /\ Mine(t) \subseteq Request /\ Mine(t)' = Mine(t) /\ None \notin Request
      /\ DeskCovered(t) /\ DeskLinked(t)
  BY TypeParts, TabAssumption
  DEF CoverInv, TruthInv, TypeInv, DeskRows, ClientRows, Linked, Mine
\* The desk moves, no call of it is on the wire that it does not go on sealing.
<1>1. ASSUME NEW v, desk' = [desk EXCEPT ![t] = v], tickets \subseteq tickets',
             \A r \in Mine(t) : call'[r] \in {"sent", "resent"} =>
                v.sealed = r /\ v.busy /\ r \in tickets',
             v.retained \/ v.unknown => v.sealed \in tickets',
             v.reading = "import" => v.ticket \in tickets'
      PROVE  DeskCovered(t)' /\ tickets \subseteq tickets'
  <2>1. desk'[t] = v
    BY <1>0, <1>1
  <2> QED
    BY <1>0, <1>1, <2>1 DEF DeskCovered
<1>2. ~w.busy \/ w.reading # "none" => \A r \in Mine(t) : call[r] \notin {"sent", "resent"}
  BY <1>0, TabAssumption DEF DeskCovered, DeskRows
\* Reading.
<1>3. ASSUME ManualRefresh(t) \/ PrepareAttempt(t) \/ \E r \in Request : ImportValidationTicket(t, r)
      PROVE  DeskCovered(t)' /\ tickets \subseteq tickets'
  <2>1. PICK p \in {"refresh", "prepare", "import"}, k \in Request \cup {None} :
           BeginRead(t, p, k) /\ (p = "import" => k \in tickets)
    BY <1>3 DEF ManualRefresh, PrepareAttempt, ImportValidationTicket
  <2>2. PICK v : /\ v = [w EXCEPT !.busy = TRUE, !.reading = p, !.ticket = k]
                 /\ desk' = [desk EXCEPT ![t] = v]
    BY <1>0, <2>1 DEF BeginRead
  <2>3. /\ v.retained = w.retained /\ v.unknown = w.unknown /\ v.sealed = w.sealed
        /\ v.reading = p /\ v.ticket = k
    BY <1>0, <2>2 DEF DeskRecord
  <2>4. UNCHANGED <<call, tickets>> /\ ~w.busy
    BY <2>1 DEF BeginRead, Idle
  <2> QED
    BY <1>0, <1>1, <1>2, <2>1, <2>2, <2>3, <2>4 DEF DeskCovered
<1>4. ASSUME FetchDefinition(t) \/ ReadFails(t)
      PROVE  DeskCovered(t)' /\ tickets \subseteq tickets'
  <2>1. PICK v : /\ desk' = [desk EXCEPT ![t] = v]
                 /\ v.retained = w.retained /\ v.unknown = w.unknown /\ v.sealed = w.sealed
                 /\ v.reading \in {w.reading, "none"} /\ v.ticket \in {w.ticket, None}
                 /\ v.reading # "none" => v.ticket = w.ticket
    <3>1. CASE FetchDefinition(t)
      <4>1. PICK row, v : v = [w EXCEPT !.row = row] /\ desk' = [desk EXCEPT ![t] = v]
        BY <1>0, <3>1 DEF FetchDefinition
      <4>2. /\ v.retained = w.retained /\ v.unknown = w.unknown /\ v.sealed = w.sealed
            /\ v.reading = w.reading /\ v.ticket = w.ticket
        BY <1>0, <4>1 DEF DeskRecord
      <4> QED
        BY <4>1, <4>2
    <3>2. CASE ReadFails(t)
      <4> DEFINE s == IF w.reading = "refresh" THEN None ELSE w.seen
                 a == IF w.reading \in {"refresh", "result"} THEN "NONE" ELSE w.action
      <4>0. desk' = [desk EXCEPT ![t] = [w EXCEPT !.seen = s, !.action = a, !.row = None,
                        !.reading = "none", !.ticket = None, !.busy = FALSE]]
        BY <1>0, <3>2 DEF ReadFails
      <4> HIDE DEF s, a
      <4>1. PICK v : /\ v = [w EXCEPT !.seen = s, !.action = a, !.row = None,
                                      !.reading = "none", !.ticket = None, !.busy = FALSE]
                     /\ desk' = [desk EXCEPT ![t] = v]
        BY <4>0
      <4>2. /\ v.retained = w.retained /\ v.unknown = w.unknown /\ v.sealed = w.sealed
            /\ v.reading = "none" /\ v.ticket = None
        BY <1>0, <4>1 DEF DeskRecord
      <4> QED
        BY <4>1, <4>2
    <3> QED
      BY <1>4, <3>1, <3>2
  <2>2. UNCHANGED <<call, tickets>> /\ w.reading # "none"
    BY <1>4 DEF FetchDefinition, ReadFails
  <2> QED
    BY <1>0, <1>1, <1>2, <2>1, <2>2 DEF DeskCovered
<1>5. ASSUME Refreshed(t) \/ Drifted(t) \/ TicketRestored(t) \/ \E r \in Request : SealAttempt(t, r)
      PROVE  DeskCovered(t)' /\ tickets \subseteq tickets'
  <2>0. /\ w.reading # "none" /\ w.row # None
        /\ w.retained = FALSE /\ w.unknown = FALSE
    <3>1. w.reading # "none" /\ w.row # None
      BY <1>5 DEF Refreshed, Drifted, TicketRestored, SealAttempt, Coherent
    <3>2. w.sealed = None /\ ~w.retained /\ ~w.unknown
      BY <1>0, <3>1 DEF DeskRows
    <3> QED
      BY <1>0, <3>1, <3>2 DEF DeskRecord
  <2>1. PICK x : /\ x = Shown(t) /\ x \in DeskRecord /\ x.reading = "none"
                 /\ ~x.retained /\ ~x.unknown
    <3>1. Shown(t).retained = w.retained /\ Shown(t).unknown = w.unknown /\ Shown(t).reading = "none"
      BY <1>0 DEF Shown, DeskRecord
    <3>2. Shown(t) \in DeskRecord
      BY <1>5, ShownTyped DEF Refreshed, Drifted, TicketRestored, SealAttempt, CoverInv, TruthInv
    <3> QED
      BY <2>0, <3>1, <3>2
  <2>2. ASSUME Refreshed(t) \/ Drifted(t)
        PROVE  DeskCovered(t)' /\ tickets \subseteq tickets'
    <3>1. desk' = [desk EXCEPT ![t] = x] /\ UNCHANGED <<call, tickets>>
      BY <2>1, <2>2 DEF Refreshed, Drifted
    <3> QED
      BY <1>1, <1>2, <2>0, <2>1, <3>1
  <2>3. ASSUME NEW q \in Request, SealAttempt(t, q)
        PROVE  DeskCovered(t)' /\ tickets \subseteq tickets'
    <3>1. PICK v : /\ v = [x EXCEPT !.sealed = q, !.retained = FALSE]
                   /\ desk' = [desk EXCEPT ![t] = v]
      BY <2>1, <2>3 DEF SealAttempt
    <3>2. v.retained = FALSE /\ v.unknown = x.unknown /\ v.reading = "none"
      BY <2>1, <3>1 DEF DeskRecord
    <3>3. call' = [call EXCEPT ![q] = "drawn"] /\ UNCHANGED tickets
      BY <2>3 DEF SealAttempt
    <3>4. \A r \in Mine(t) : call'[r] \notin {"sent", "resent"}
      BY <1>0, <1>2, <2>0, <3>3
    <3> QED
      BY <1>1, <2>1, <3>1, <3>2, <3>3, <3>4
  <2>4. ASSUME TicketRestored(t)
        PROVE  DeskCovered(t)' /\ tickets \subseteq tickets'
    <3>1. PICK q : q = w.ticket /\ q \in tickets
      BY <1>0, <2>4 DEF TicketRestored, DeskCovered
    <3>2. PICK v : /\ v = [x EXCEPT !.sealed = q, !.retained = TRUE, !.unknown = TRUE]
                   /\ desk' = [desk EXCEPT ![t] = v] \/ desk' = [desk EXCEPT ![t] = x]
      BY <2>1, <2>4, <3>1 DEF TicketRestored
    <3>3. v.sealed = q /\ v.reading = "none"
      BY <2>1, <3>2 DEF DeskRecord
    <3>4. UNCHANGED <<call, tickets>>
      BY <2>4 DEF TicketRestored
    <3>5. \A r \in Mine(t) : call'[r] \notin {"sent", "resent"}
      BY <1>2, <2>0, <3>4
    <3>6. CASE desk' = [desk EXCEPT ![t] = v]
      BY <1>1, <3>1, <3>3, <3>4, <3>5, <3>6
    <3>7. CASE desk' = [desk EXCEPT ![t] = x]
      BY <1>1, <2>1, <3>4, <3>5, <3>7
    <3> QED
      BY <3>2, <3>6, <3>7
  <2> QED
    BY <1>5, <2>2, <2>3, <2>4
\* Retaining, discarding.
<1>6. ASSUME RetainTicket(t)
      PROVE  DeskCovered(t)' /\ tickets \subseteq tickets'
  <2>1. PICK v : v = [w EXCEPT !.retained = TRUE] /\ desk' = [desk EXCEPT ![t] = v]
    BY <1>0, <1>6 DEF RetainTicket
  <2>2. v.sealed = w.sealed /\ v.reading = w.reading /\ v.ticket = w.ticket
    BY <1>0, <2>1 DEF DeskRecord
  <2>3. /\ tickets' = tickets \cup {w.sealed} /\ UNCHANGED call /\ ~w.busy
    BY <1>6 DEF RetainTicket
  <2> QED
    BY <1>0, <1>1, <1>2, <2>1, <2>2, <2>3 DEF DeskCovered
<1>7. ASSUME DiscardUnsentAttempt(t) \/ AttemptRefused(t) \/ LeaveDesk(t)
      PROVE  DeskCovered(t)' /\ tickets \subseteq tickets'
  <2>1. PICK v : /\ desk' = [desk EXCEPT ![t] = v]
                 /\ v.retained = FALSE /\ v.unknown = FALSE
                 /\ v.reading = w.reading \/ v.reading = "none"
                 /\ v.ticket = w.ticket \/ v.reading = "none"
    <3>1. CASE DiscardUnsentAttempt(t)
      <4>1. PICK v : /\ v = [w EXCEPT !.sealed = None, !.retained = FALSE] /\ ~w.unknown
                     /\ desk' = [desk EXCEPT ![t] = v]
        BY <1>0, <3>1 DEF DiscardUnsentAttempt
      <4>2. /\ v.retained = FALSE /\ v.unknown = FALSE
            /\ v.reading = w.reading /\ v.ticket = w.ticket
        <5>1. w.unknown = FALSE
          BY <1>0, <4>1 DEF DeskRecord
        <5> QED
          BY <1>0, <4>1, <5>1 DEF DeskRecord
      <4> QED
        BY <4>1, <4>2
    <3>2. CASE AttemptRefused(t)
      <4>1. PICK v : /\ v = [w EXCEPT !.sealed = None, !.retained = FALSE,
                                      !.unknown = FALSE, !.busy = FALSE]
                     /\ desk' = [desk EXCEPT ![t] = v]
        BY <1>0, <3>2 DEF AttemptRefused
      <4>2. /\ v.retained = FALSE /\ v.unknown = FALSE
            /\ v.reading = w.reading /\ v.ticket = w.ticket
        BY <1>0, <4>1 DEF DeskRecord
      <4> QED
        BY <4>1, <4>2
    <3>3. CASE LeaveDesk(t)
      <4>1. PICK v : v = Cleared /\ desk' = [desk EXCEPT ![t] = v]
        BY <3>3 DEF LeaveDesk
      <4>2. v.retained = FALSE /\ v.unknown = FALSE /\ v.reading = "none"
        BY <4>1 DEF Cleared
      <4> QED
        BY <4>1, <4>2
    <3> QED
      BY <1>7, <3>1, <3>2, <3>3
  <2>2. UNCHANGED tickets /\ \A r \in Mine(t) : call'[r] \notin {"sent", "resent"}
    <3>1. CASE DiscardUnsentAttempt(t)
      BY <1>0, <1>2, <3>1 DEF DiscardUnsentAttempt
    <3>2. CASE AttemptRefused(t)
      BY <1>0, <3>2 DEF AttemptRefused, DeskCovered
    <3>3. CASE LeaveDesk(t)
      <4>1. \A r \in Mine(t) : call[r] \in {"sent", "resent"} => r = w.sealed
        BY <1>0 DEF DeskCovered
      <4> QED
        BY <1>0, <3>3, <4>1 DEF LeaveDesk, Abandon
    <3> QED
      BY <1>7, <3>1, <3>2, <3>3
  <2> QED
    BY <1>0, <1>1, <2>1, <2>2 DEF DeskCovered
\* Sending.
<1>8. ASSUME ExecuteAttempt(t) \/ ReplayValidation(t)
      PROVE  DeskCovered(t)' /\ tickets \subseteq tickets'
  <2>1. PICK q : /\ q = w.sealed /\ q # None /\ q \in tickets /\ q \in Mine(t)
    BY <1>0, <1>8 DEF ExecuteAttempt, ReplayValidation, Perform, DeskCovered, DeskLinked
  <2>2. PICK stage : /\ call' = [call EXCEPT ![q] = stage] /\ ~w.busy
                     /\ desk' = [desk EXCEPT ![t].busy = TRUE] /\ UNCHANGED tickets
    BY <1>8, <2>1 DEF ExecuteAttempt, ReplayValidation, Perform
  <2>3. PICK v : v = [w EXCEPT !.busy = TRUE] /\ desk' = [desk EXCEPT ![t] = v]
    BY <1>0, <2>2
  <2>4. /\ v.sealed = q /\ v.busy /\ v.reading = w.reading /\ v.ticket = w.ticket
        /\ v.retained = w.retained /\ v.unknown = w.unknown
    BY <1>0, <2>1, <2>3 DEF DeskRecord
  <2>5. \A r \in Mine(t) : r # q => call'[r] \notin {"sent", "resent"}
    BY <1>0, <1>2, <2>2
  <2> QED
    BY <1>0, <1>1, <2>1, <2>2, <2>3, <2>4, <2>5 DEF DeskCovered
\* What comes of it.
<1>9. ASSUME AttemptUnknown(t)
      PROVE  DeskCovered(t)' /\ tickets \subseteq tickets'
  <2>1. PICK q : q = w.sealed /\ q # None /\ q \in Mine(t) /\ q \in tickets
    BY <1>0, <1>9 DEF AttemptUnknown, Sending, DeskLinked, DeskCovered
  <2>2. PICK v : v = [w EXCEPT !.unknown = TRUE, !.busy = FALSE] /\ desk' = [desk EXCEPT ![t] = v]
    BY <1>0, <1>9 DEF AttemptUnknown
  <2>3. v.sealed = q /\ v.reading = w.reading /\ v.ticket = w.ticket
    BY <1>0, <2>1, <2>2 DEF DeskRecord
  <2>4. UNCHANGED tickets /\ \A r \in Mine(t) : call'[r] \notin {"sent", "resent"}
    <3>1. \A r \in Mine(t) : call[r] \in {"sent", "resent"} => r = q
      BY <1>0, <2>1 DEF DeskCovered
    <3> QED
      BY <1>0, <1>9, <2>1, <3>1 DEF AttemptUnknown, Abandon
  <2> QED
    BY <1>0, <1>1, <2>1, <2>2, <2>3, <2>4 DEF DeskCovered
<1>10. ASSUME AttemptVerified(t) \/ RecoverPublication(t)
       PROVE  DeskCovered(t)' /\ tickets \subseteq tickets'
  <2>1. PICK v : /\ v = Resolved(t) /\ desk' = [desk EXCEPT ![t] = v]
    BY <1>10 DEF AttemptVerified, RecoverPublication
  <2>2. v.retained = FALSE /\ v.unknown = FALSE /\ v.reading = "result"
    BY <1>0, <2>1 DEF Resolved, DeskRecord
  <2>3. UNCHANGED tickets /\ \A r \in Mine(t) : call'[r] \notin {"sent", "resent"}
    <3>1. CASE AttemptVerified(t)
      <4>1. \A r \in Mine(t) : call[r] \in {"sent", "resent"} => r = w.sealed
        BY <1>0 DEF DeskCovered
      <4> QED
        BY <1>0, <3>1, <4>1 DEF AttemptVerified
    <3>2. CASE RecoverPublication(t)
      BY <1>2, <3>2 DEF RecoverPublication
    <3> QED
      BY <1>10, <3>1, <3>2
  <2> QED
    BY <1>1, <2>1, <2>2, <2>3
<1> QED
  BY <1>3, <1>4, <1>5, <1>6, <1>7, <1>8, <1>9, <1>10 DEF DeskAction

\* The server commits only what is on the wire, or what no tab here carries.
LEMMA ServerKeepsCover ==
    ASSUME CoverInv, ServerNext, NEW t \in Publisher
    PROVE  DeskCovered(t)' /\ OnTicket(t)'
<1>0. /\ UNCHANGED <<desk, call, tickets>> /\ Mine(t)' = Mine(t) /\ Mine(t) \subseteq Request
      /\ DeskCovered(t) /\ OnTicket(t)
      /\ orphans' \subseteq orphans
      /\ reply \in [Request -> Answer \cup {None}]
  BY TypeParts DEF ServerNext, Serve, ServeOrphan, ElsewhereStep, clientvars, Mine, CoverInv,
                   TruthInv, TypeInv, ClientRows
<1>1. ASSUME NEW r \in Mine(t)
      PROVE  /\ OnWire(r)' => OnWire(r)
             /\ Committed(r)' => Committed(r) \/ OnWire(r) \/ r \in orphans
  <2>1. ASSUME NEW q \in Request, NEW g \in BOOLEAN, ServerStep(q, g), r # q
        PROVE  Committed(r)' <=> Committed(r)
    <3>1. Operation(q) \/ UNCHANGED dbvars
      BY <2>1 DEF ServerStep
    <3> QED
      BY <1>0, <2>1, <3>1, OperationCommits, UnchangedCommits
  <2>2. ASSUME NEW q \in Request, NEW g \in BOOLEAN, Serve(q, g)
        PROVE  /\ OnWire(r)' => OnWire(r)
               /\ Committed(r)' => Committed(r) \/ OnWire(r) \/ r \in orphans
    BY <1>0, <2>1, <2>2 DEF Serve, OnWire
  <2>3. ASSUME NEW q \in Request, NEW g \in BOOLEAN, ServeOrphan(q, g)
        PROVE  /\ OnWire(r)' => OnWire(r)
               /\ Committed(r)' => Committed(r) \/ OnWire(r) \/ r \in orphans
    BY <1>0, <2>1, <2>3 DEF ServeOrphan, OnWire
  <2>4. ASSUME NEW q \in Elsewhere, ElsewhereStep(q)
        PROVE  /\ OnWire(r)' => OnWire(r)
               /\ Committed(r)' => Committed(r) \/ OnWire(r) \/ r \in orphans
    <3>1. q # r /\ q \in Request
      BY DEF Elsewhere, Mine, Tab
    <3> QED
      BY <1>0, <2>4, <3>1, OperationCommits DEF ElsewhereStep, clientvars, OnWire
  <2> QED
    BY <2>2, <2>3, <2>4 DEF ServerNext
<1>2. DeskCovered(t)'
  BY <1>0 DEF DeskCovered
<1>3. OnTicket(t)'
  BY <1>0, <1>1 DEF OnTicket
<1> QED
  BY <1>2, <1>3

LEMMA CoverStep ==
    ASSUME CoverInv, [ClientNext]_allvars
    PROVE  CoverInv'
<1>1. TruthInv'
  BY TruthStep DEF CoverInv
<1>2. ASSUME NEW t \in Publisher
      PROVE  DeskCovered(t)' /\ OnTicket(t)'
  <2>1. CASE AuthoringNext
    <3>1. PICK u \in Entry \cup Editor : AuthoringAction(u)
      BY <2>1, TabsAct
    <3>2. TabStep(u) /\ u \in Tab /\ u \notin Publisher
      BY <3>1, AuthoringSteps, TabAssumption DEF CoverInv, Tab
    <3>3. UNCHANGED tickets
      <4>1. \/ \E m \in Manifest : Edit(u, m)
            \/ OpenDefinition(u) \/ BeginPreview(u) \/ SendPreview(u) \/ EndPreview(u)
            \/ Reconcile(u) \/ LeavePage(u)
            \/ \E r \in Request : \/ BeginSave(u, r) \/ SendSave(u, r) \/ SubmitBootstrap(u, r)
                                  \/ SaveUnknown(u, r) \/ SaveVerified(u, r) \/ SaveRefused(u, r)
        BY <3>1 DEF AuthoringAction
      <4> QED
        BY <4>1 DEF OpenDefinition, BeginPreview, SendPreview, EndPreview, Edit, BeginSave, SendSave,
                    SubmitBootstrap, Reconcile, LeavePage, SaveUnknown, SaveVerified, SaveRefused
    <3> QED
      BY <3>2, <3>3, TabKeepsCover
  <2>2. CASE DeskNext
    <3>1. PICK u \in Publisher : DeskAction(u)
      BY <2>2, TabsAct
    <3>2. TabStep(u) /\ u \in Tab
      BY <3>1, DeskSteps DEF CoverInv, Tab
    <3>3. DeskCovered(u)' /\ tickets \subseteq tickets'
      BY <3>1, DeskKeepsCover
    <3> QED
      BY <3>2, <3>3, TabKeepsCover
  <2>3. CASE ServerNext
    BY <2>3, ServerKeepsCover
  <2>4. CASE UNCHANGED allvars
    <3>1. UNCHANGED dbvars /\ UNCHANGED clientvars
      BY <2>4 DEF allvars
    <3> QED
      BY <3>1, UnchangedCommits DEF clientvars, CoverInv, DeskCovered, OnTicket, OnWire, Mine
  <2> QED
    BY <2>1, <2>2, <2>3, <2>4 DEF ClientNext
<1> QED
  BY <1>1, <1>2 DEF CoverInv

\* Whatever a desk has sent, or has had committed, is on a ticket that a HUMAN
\* holds, and at most the sealed attempt is under way: for any number of desks,
\* whatever is lost, left or restored.
THEOREM DesksAreCovered == ClientSpec => []TicketsCoverDesks
<1>1. ClientInit => CoverInv
  <2> SUFFICES ASSUME ClientInit
               PROVE  CoverInv
    OBVIOUS
  <2>1. TruthInv
    BY TruthInitially
  <2>2. ASSUME NEW t \in Publisher
        PROVE  DeskCovered(t) /\ OnTicket(t)
    <3>1. DeskCovered(t)
      BY DEF ClientInit, Cleared, DeskCovered, Mine
    <3>2. \A r \in Request : ~Committed(r)
      BY DEF ClientInit, LifecycleInit, Committed, BoundRequests, PublicationsOf
    <3> QED
      BY <3>1, <3>2 DEF ClientInit, OnTicket, OnWire, Mine
  <2> QED
    BY <2>1, <2>2 DEF CoverInv
<1>2. CoverInv /\ [ClientNext]_allvars => CoverInv'
  BY CoverStep
<1>3. CoverInv => TicketsCoverDesks
  BY DEF CoverInv, DeskCovered, OnTicket, TicketsCoverDesks
<1> QED
  BY <1>1, <1>2, <1>3, PTL DEF ClientSpec

-----------------------------------------------------------------------------
(* Whatever pages send, with any tabs and any loss of calls, was based on    *)
(* stored bytes or is on a ticket.                                           *)
THEOREM WritesAlwaysCovered == ClientSpec => []WritesAreCovered
<1>1. BaseWasStored /\ TicketsCoverDesks => WritesAreCovered
  BY DEF WritesAreCovered
<1> QED
  BY <1>1, BasesWereStored, DesksAreCovered, PTL
=============================================================================
