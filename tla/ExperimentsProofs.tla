-------------------------- MODULE ExperimentsProofs --------------------------
(***************************************************************************)
(* Theorems about PlayerExperiments, for any workspaces, experiments,      *)
(* experts, targets, keys and requests: what an experiment shows fits      *)
(* together, receipts and replays are exact, history is kept, and the rows *)
(* implement the ledger of AssessmentLedger.                               *)
(*                                                                         *)
(* That a cell has one line of values is not inductive by itself: nothing  *)
(* in it keeps a first value out of a cell whose values all have           *)
(* successors, nor a version from being given twice.  LineInv adds that a  *)
(* cell with values has exactly one current value and a target with        *)
(* assessments exactly one current one, of the highest version.            *)
(*                                                                         *)
(* Then theorems about CalculationRuns: calculating and reworking disturb  *)
(* nothing of the experiments they read, so that these keep all that was   *)
(* proved of them; scenarios stand on the runs they started from; and the  *)
(* runs of an experiment tell one history.  The second rests on the first: *)
(* a value that a snapshot names is there as long as the experiments keep  *)
(* their history.  The third rests on the ends of the experiments' lines   *)
(* being one, with all else behind them.                                   *)
(***************************************************************************)
EXTENDS CalculationRuns, TLAPS

-----------------------------------------------------------------------------
(* What a request that commits found.                                      *)

\* What the routes pass, field by field.
LEMMA RequestFields ==
    ASSUME NEW r \in Request
    PROVE  /\ r.op \in Op
           /\ r.key \in Key
           /\ r.op \in ScopedOp =>
                 /\ r.workspace \in Workspace
                 /\ r.profile \in Profile
                 /\ r.identity \in Identity
                 /\ r.kind \in Kind
                 /\ r.title \in Label
           /\ r.op = "CREATE" => r.label \in Label
           /\ r.op # "PROFILE" => r.experiment \in Experiment
           /\ r.op = "UPDATE" => r.label \in Label
           /\ r.op = "VALUE" =>
                 /\ r.target \in Target
                 /\ r.parameter \in Parameter
                 /\ r.status \in ValueStatus
                 /\ r.category \in Category
           /\ r.supersedes \in ValueId \cup {None}
           /\ r.rows \subseteq FileRow
<1>1. r \in RequestType
  BY RequestAssumption
<1>2. /\ r.op \in ScopedOp =>
            None \notin {r.workspace, r.profile, r.identity, r.kind, r.title}
      /\ r.op = "CREATE" => r.label # None
      /\ r.op # "PROFILE" => r.experiment # None
      /\ r.op = "UPDATE" => r.label # None
      /\ r.op = "VALUE" => None \notin {r.target, r.parameter, r.status, r.category}
  BY RequestAssumption
<1>3. /\ r.op \in Op /\ r.key \in Key
      /\ r.workspace \in Workspace \cup {None} /\ r.experiment \in Experiment \cup {None}
      /\ r.profile \in Profile \cup {None} /\ r.identity \in Identity \cup {None}
      /\ r.kind \in Kind \cup {None} /\ r.title \in Label \cup {None}
      /\ r.label \in Label \cup {None} /\ r.target \in Target \cup {None}
      /\ r.parameter \in Parameter \cup {None} /\ r.status \in ValueStatus \cup {None}
      /\ r.category \in Category \cup {None} /\ r.supersedes \in ValueId \cup {None}
      /\ r.rows \subseteq FileRow
  BY <1>1 DEF RequestType
<1> QED
  BY <1>2, <1>3

\* A refusal is neither a success nor a replay.
LEMMA RefusalCodes ==
    ASSUME NEW r \in Request
    PROVE  Refusal(r) \notin {"CREATED", "REPLAYED"}
<1>1. ProfileRefusal(r) \notin {"CREATED", "REPLAYED"}
  BY NoneAssumption DEF AnswerCode, ProfileRefusal
<1>2. CreateRefusal(r) \notin {"CREATED", "REPLAYED"}
  BY NoneAssumption DEF AnswerCode, CreateRefusal
<1>3. TransitionRefusal(r) \notin {"CREATED", "REPLAYED"}
  BY NoneAssumption DEF AnswerCode, TransitionRefusal
<1>4. ValueRefusal(r) \notin {"CREATED", "REPLAYED"}
  BY NoneAssumption DEF AnswerCode, ValueRefusal
<1>5. ImportRefusal(r) \notin {"CREATED", "REPLAYED"}
  BY NoneAssumption DEF AnswerCode, ImportRefusal
<1> QED
  BY <1>1, <1>2, <1>3, <1>4, <1>5, RequestFields DEF Refusal, Op, ScopedOp, Transition

\* The key is free, the request is admitted, and nothing refuses it.
LEMMA Committed ==
    ASSUME NEW r \in Request, Commit(r)
    PROVE  /\ Admitted(r)
           /\ Refusal(r) = None
           /\ audit[r.key] = None
<1>1. Outcome(r) = "CREATED"
  BY DEF Commit
<1>2. KeyOutcome(r) # "CREATED"
  BY DEF KeyOutcome
<1> QED
  BY <1>1, <1>2, RefusalCodes DEF Outcome

\* What each operation found.
LEMMA ProfileSaved ==
    ASSUME NEW r \in Request, SaveProfile(r)
    PROVE  /\ Bearers(r) \ {r.profile} = {}
           /\ \/ profiles[r.profile] = None
              \/ ~UsedProfile(r.profile)
<1>1. ProfileRefusal(r) = None
  BY Committed DEF SaveProfile, Refusal, Transition
<1> QED
  BY <1>1, NoneAssumption DEF AnswerCode, ProfileRefusal

LEMMA ExperimentCreated ==
    ASSUME NEW r \in Request, CreateExperiment(r)
    PROVE  /\ experiments[r.experiment] = None
           /\ IF Bearers(r) = {} THEN profiles[r.profile] = None
              ELSE r.profile \in Bearers(r) /\ profiles[r.profile] = RequestedProfile(r)
<1>1. CreateRefusal(r) = None
  BY Committed DEF CreateExperiment, Refusal, Transition
<1> QED
  BY <1>1, NoneAssumption DEF AnswerCode, CreateRefusal

LEMMA ExperimentMoved ==
    ASSUME NEW r \in Request, r.op \in Transition, Commit(r)
    PROVE  /\ experiments[r.experiment] # None
           /\ r.op \in {"UPDATE", "FREEZE"} => IsDraft(r.experiment)
           /\ r.op = "ARCHIVE" => experiments[r.experiment].status \in {"DRAFT", "FROZEN"}
<1>1. TransitionRefusal(r) = None
  BY Committed DEF Refusal, Transition
<1>2. experiments[r.experiment] # None
  BY Committed DEF Admitted, Transition, ScopedOp
<1> QED
  BY <1>1, <1>2, NoneAssumption DEF AnswerCode, TransitionRefusal

LEMMA ValueRecorded ==
    ASSUME NEW r \in Request, RecordValue(r)
    PROVE  experiments[r.experiment] # None /\ IsDraft(r.experiment)
<1>1. ValueRefusal(r) = None
  BY Committed DEF RecordValue, Refusal, Transition
<1>2. experiments[r.experiment] # None
  BY Committed DEF RecordValue, Admitted, ScopedOp
<1> QED
  BY <1>1, <1>2, NoneAssumption DEF AnswerCode, ValueRefusal

LEMMA WorkbookImported ==
    ASSUME NEW r \in Request, ImportWorkbook(r)
    PROVE  /\ experiments[r.experiment] # None
           /\ IsDraft(r.experiment)
           /\ r.kind = experiments[r.experiment].kind
           /\ runs[r.key] = None
<1>1. ImportRefusal(r) = None
  BY Committed DEF ImportWorkbook, Refusal, Transition
<1>2. experiments[r.experiment] # None
  BY Committed DEF ImportWorkbook, Admitted, ScopedOp
<1> QED
  BY <1>1, <1>2, NoneAssumption DEF AnswerCode, ImportRefusal

-----------------------------------------------------------------------------
(* Types.                                                                  *)

\* The current assessment of a target is a row of its experiment.
LEMMA CurrentRow ==
    ASSUME TypeOK, NEW e \in Experiment, NEW t \in Target, CurrentAssessment(e, t) # None
    PROVE  /\ CurrentAssessment(e, t) \in AssessmentId
           /\ assessments[CurrentAssessment(e, t)] \in AssessmentRow
           /\ assessments[CurrentAssessment(e, t)].experiment = e
<1>1. CurrentAssessment(e, t) \in CurrentAssessments(e, t)
  BY DEF CurrentAssessment
<1>2. CurrentAssessment(e, t) \in AssessmentId
  BY <1>1 DEF CurrentAssessments, AssessmentId
<1> QED
  BY <1>1, <1>2 DEF CurrentAssessments, TypeOK

\* A manual value's new assessment is a row of its experiment.
LEMMA NewRow ==
    ASSUME TypeOK, NEW r \in Request, r.op = "VALUE"
    PROVE  /\ NewAssessment(r) \in AssessmentRow
           /\ NewAssessment(r).experiment = r.experiment
<1> DEFINE a == CurrentAssessment(r.experiment, r.target)
<1>1. /\ r.experiment \in Experiment /\ r.target \in Target /\ r.parameter \in Parameter
      /\ r.status \in ValueStatus /\ r.category \in Category
  BY RequestFields
<1>2. CASE a = None
  <2>1. [[p \in Parameter |-> "UNKNOWN"] EXCEPT ![r.parameter] = r.category]
           \in [Parameter -> Category]
    BY <1>1 DEF Category
  <2>2. FirstAssessment(r) \in AssessmentRow /\ FirstAssessment(r).experiment = r.experiment
    BY <1>1, <2>1 DEF FirstAssessment, AssessmentRow
  <2> QED
    BY <1>2, <2>2 DEF NewAssessment
<1>3. CASE a # None
  <2>1. /\ a \in AssessmentId
        /\ assessments[a] \in AssessmentRow
        /\ assessments[a].experiment = r.experiment
    BY <1>1, <1>3, CurrentRow
  <2>2. assessments[a].version + 1 \in Nat
    BY <2>1 DEF AssessmentRow
  <2>3. [assessments[a].confidence EXCEPT ![r.parameter] = r.category] \in [Parameter -> Category]
    BY <1>1, <2>1 DEF AssessmentRow
  <2>4. NextAssessment(r) =
          [assessments[a] EXCEPT
              !.supersedes = a,
              !.version = assessments[a].version + 1,
              !.status = IF Numeric(r) THEN "PROVISIONAL" ELSE "UNKNOWN",
              !.confidence = [assessments[a].confidence EXCEPT ![r.parameter] = r.category]]
    BY <2>1 DEF NextAssessment, AssessmentRow
  <2>5. /\ NextAssessment(r) \in AssessmentRow
        /\ NextAssessment(r).experiment = r.experiment
    <3> HIDE DEF a
    <3> QED
      BY <2>1, <2>2, <2>3, <2>4 DEF AssessmentRow, ValueStatus
  <2> QED
    BY <1>3, <2>5 DEF NewAssessment
<1> QED
  BY <1>2, <1>3

LEMMA AttachedRow ==
    ASSUME TypeOK, NEW r \in Request, r.op = "VALUE"
    PROVE  /\ AttachedTo(r) \in AssessmentId
           /\ ~NeedsVersion(r) =>
                 /\ assessments[AttachedTo(r)] # None
                 /\ assessments[AttachedTo(r)].experiment = r.experiment
<1>1. r.experiment \in Experiment /\ r.target \in Target /\ r.key \in Key
  BY RequestFields
<1>2. CASE NeedsVersion(r)
  BY <1>1, <1>2 DEF AttachedTo, AssessmentId
<1>3. CASE ~NeedsVersion(r)
  <2>1. CurrentAssessment(r.experiment, r.target) # None
    BY <1>3 DEF NeedsVersion
  <2> QED
    BY <1>1, <1>3, <2>1, CurrentRow, NoneAssumption DEF AttachedTo
<1> QED
  BY <1>2, <1>3

\* The rows of a workbook for a target make a row of its experiment.
LEMMA ImportedRow ==
    ASSUME NEW r \in Request, r.op = "IMPORT", NEW t
    PROVE  /\ ImportedAssessment(r, t) \in AssessmentRow
           /\ ImportedAssessment(r, t).experiment = r.experiment
<1>1. r.experiment \in Experiment /\ FileRows(r, t) \subseteq FileRow
  BY RequestFields DEF FileRows
<1>2. ASSUME NEW p \in Parameter, \E f \in FileRows(r, t) : f.parameter = p
      PROVE  (CHOOSE f \in FileRows(r, t) : f.parameter = p).category \in Category
  <2>1. (CHOOSE f \in FileRows(r, t) : f.parameter = p) \in FileRow
    BY <1>1, <1>2
  <2> QED
    BY <2>1 DEF FileRow
<1> QED
  BY <1>1, <1>2 DEF ImportedAssessment, AssessmentRow, ValueStatus, Category

\* Each operation writes rows of the right types.
LEMMA ProfileSavedType ==
    ASSUME TypeOK, NEW r \in Request, SaveProfile(r)
    PROVE  TypeOK'
<1>1. RequestedProfile(r) \in ProfileRow
  BY RequestFields DEF SaveProfile, ScopedOp, RequestedProfile, ProfileRow
<1> QED
  BY <1>1, RequestFields DEF SaveProfile, Commit, TypeOK

LEMMA ExperimentCreatedType ==
    ASSUME TypeOK, NEW r \in Request, CreateExperiment(r)
    PROVE  TypeOK'
<1>1. RequestedProfile(r) \in ProfileRow
  BY RequestFields DEF CreateExperiment, ScopedOp, RequestedProfile, ProfileRow
<1>2. [workspace |-> r.workspace, profile |-> r.profile, kind |-> r.kind,
       label |-> r.label, status |-> "DRAFT", frozen |-> FALSE] \in ExperimentRow
  BY RequestFields DEF CreateExperiment, ScopedOp, ExperimentRow, ExperimentStatus
<1>3. profiles' \in [Profile -> ProfileRow \cup {None}]
  BY <1>1 DEF CreateExperiment, TypeOK
<1>4. experiments' \in [Experiment -> ExperimentRow \cup {None}]
  BY <1>2 DEF CreateExperiment, TypeOK
<1> QED
  BY <1>3, <1>4, RequestFields DEF CreateExperiment, Commit, TypeOK

LEMMA ExperimentMovedType ==
    ASSUME TypeOK, NEW r \in Request,
           UpdateExperiment(r) \/ FreezeExperiment(r) \/ ArchiveExperiment(r)
    PROVE  TypeOK'
<1>1. /\ r.op \in Transition
      /\ Commit(r)
  BY DEF UpdateExperiment, FreezeExperiment, ArchiveExperiment, Transition
<1>2. r.experiment \in Experiment /\ experiments[r.experiment] \in ExperimentRow
  BY <1>1, RequestFields, ExperimentMoved DEF TypeOK, Transition
<1>3. experiments' \in [Experiment -> ExperimentRow \cup {None}]
  <2>1. CASE UpdateExperiment(r)
    <3>1. [experiments[r.experiment] EXCEPT !.label = r.label] \in ExperimentRow
      BY <1>2, <2>1, RequestFields DEF UpdateExperiment, ExperimentRow
    <3>2. experiments' = [experiments EXCEPT ![r.experiment] =
                             [experiments[r.experiment] EXCEPT !.label = r.label]]
      BY <2>1 DEF UpdateExperiment
    <3> QED
      BY <3>1, <3>2 DEF TypeOK
  <2>2. CASE FreezeExperiment(r)
    <3>1. [experiments[r.experiment] EXCEPT !.status = "FROZEN", !.frozen = TRUE] \in ExperimentRow
      BY <1>2 DEF ExperimentRow, ExperimentStatus
    <3>2. experiments' = [experiments EXCEPT ![r.experiment] =
                    [experiments[r.experiment] EXCEPT !.status = "FROZEN", !.frozen = TRUE]]
      BY <1>2, <2>2 DEF FreezeExperiment, TypeOK
    <3> QED
      BY <3>1, <3>2 DEF TypeOK
  <2>3. CASE ArchiveExperiment(r)
    <3>1. [experiments[r.experiment] EXCEPT !.status = "ARCHIVED"] \in ExperimentRow
      BY <1>2 DEF ExperimentRow, ExperimentStatus
    <3>2. experiments' = [experiments EXCEPT ![r.experiment] =
                    [experiments[r.experiment] EXCEPT !.status = "ARCHIVED"]]
      BY <2>3 DEF ArchiveExperiment
    <3> QED
      BY <3>1, <3>2 DEF TypeOK
  <2> QED
    BY <2>1, <2>2, <2>3
<1> QED
  BY <1>1, <1>3, RequestFields DEF UpdateExperiment, FreezeExperiment, ArchiveExperiment, Commit, TypeOK

LEMMA ValueRecordedType ==
    ASSUME TypeOK, NEW r \in Request, RecordValue(r)
    PROVE  TypeOK'
<1>1. r.op = "VALUE"
  BY DEF RecordValue
<1>2. assessments' \in [AssessmentId -> AssessmentRow \cup {None}]
  BY <1>1, NewRow DEF RecordValue, TypeOK
<1>3. [assessment |-> AttachedTo(r), supersedes |-> r.supersedes, status |-> r.status] \in ValueRow
  BY <1>1, AttachedRow, RequestFields DEF ValueRow
<1>4. values' \in [ValueId -> ValueRow \cup {None}]
  BY <1>3 DEF RecordValue, TypeOK
<1> QED
  BY <1>2, <1>4, RequestFields DEF RecordValue, Commit, TypeOK

LEMMA WorkbookImportedType ==
    ASSUME TypeOK, NEW r \in Request, ImportWorkbook(r)
    PROVE  TypeOK'
<1>1. r.op = "IMPORT"
  BY DEF ImportWorkbook
<1>2. assessments' \in [AssessmentId -> AssessmentRow \cup {None}]
  BY <1>1, ImportedRow DEF ImportWorkbook, TypeOK
<1>3. ASSUME NEW v \in ValueId, \E f \in FileRows(r, v[2]) : f.parameter = v[3]
      PROVE  [assessment |-> <<v[1], v[2]>>, supersedes |-> None,
              status |-> (CHOOSE f \in FileRows(r, v[2]) : f.parameter = v[3]).status] \in ValueRow
  <2>1. (CHOOSE f \in FileRows(r, v[2]) : f.parameter = v[3]) \in FileRow
    BY <1>3, RequestFields DEF FileRows
  <2>2. <<v[1], v[2]>> \in AssessmentId
    BY DEF ValueId, AssessmentId
  <2> QED
    BY <2>1, <2>2 DEF FileRow, ValueRow
<1>4. values' \in [ValueId -> ValueRow \cup {None}]
  BY <1>3 DEF ImportWorkbook, TypeOK
<1> QED
  BY <1>2, <1>4, RequestFields DEF ImportWorkbook, Commit, TypeOK

LEMMA InitialTypes == ExperimentsInit => TypeOK
  BY DEF ExperimentsInit, TypeOK

LEMMA StepTypes == TypeOK /\ [ExperimentsNext]_vars => TypeOK'
<1> SUFFICES ASSUME TypeOK, [ExperimentsNext]_vars PROVE TypeOK'
  OBVIOUS
<1>1. ASSUME NEW r \in Request, Operation(r) PROVE TypeOK'
  <2>1. CASE SaveProfile(r)
    BY <2>1, ProfileSavedType
  <2>2. CASE CreateExperiment(r)
    BY <2>2, ExperimentCreatedType
  <2>3. CASE UpdateExperiment(r) \/ FreezeExperiment(r) \/ ArchiveExperiment(r)
    BY <2>3, ExperimentMovedType
  <2>4. CASE RecordValue(r)
    BY <2>4, ValueRecordedType
  <2>5. CASE ImportWorkbook(r)
    BY <2>5, WorkbookImportedType
  <2>6. CASE Answer(r)
    BY <2>6 DEF Answer, vars, TypeOK
  <2> QED
    BY <1>1, <2>1, <2>2, <2>3, <2>4, <2>5, <2>6 DEF Operation
<1>2. ASSUME NEW u \in User, ChangeScope(u) PROVE TypeOK'
  BY <1>2 DEF ChangeScope, TypeOK
<1>3. CASE UNCHANGED vars
  BY <1>3 DEF vars, TypeOK
<1> QED
  BY <1>1, <1>2, <1>3, ScopeAssumption DEF ExperimentsNext

\* Profiles, experiments, assessments, values and receipts keep their types,
\* whatever requests arrive in whatever order.
THEOREM ExperimentTypes == ExperimentsSpec => []TypeOK
  BY InitialTypes, StepTypes, PTL DEF ExperimentsSpec

-----------------------------------------------------------------------------
(* Receipts and lanes.                                                     *)

\* A row's operation has left its receipt, and an import's experiment is there.
\* This keeps a free key's rows free.
RowsHaveReceipts ==
    /\ \A a \in AssessmentId : assessments[a] # None => audit[a[1]] # None
    /\ \A v \in ValueId : values[v] # None => audit[v[1]] # None
    /\ \A k \in Key : runs[k] # None => audit[k] # None

ImportsHaveExperiments ==
    \A k \in Key : runs[k] # None =>
        /\ runs[k].op = "IMPORT"
        /\ experiments[runs[k].experiment] # None

LaneInv == TypeOK /\ RowsHaveReceipts /\ ImportsHaveExperiments /\ LanesMatch

\* A commit binds its key and keeps all other receipts.
LEMMA ReceiptsStay ==
    ASSUME TypeOK, NEW r \in Request, Commit(r)
    PROVE  /\ r.key \in Key
           /\ audit[r.key] = None
           /\ audit'[r.key] = r
           /\ audit'[r.key] # None
           /\ \A k \in Key \ {r.key} : audit'[k] = audit[k]
  BY Committed, RequestFields, NoneAssumption DEF Commit, TypeOK

\* Every new row has its operation's key.
LEMMA KeepsReceipts ==
    ASSUME TypeOK, RowsHaveReceipts, NEW r \in Request, Operation(r)
    PROVE  RowsHaveReceipts'
<1>1. CASE Answer(r)
  BY <1>1 DEF Answer, vars, RowsHaveReceipts
<1>2. CASE Commit(r) /\ UNCHANGED <<assessments, values, runs>>
  <2>1. \A k \in Key : audit[k] # None => audit'[k] # None
    BY <1>2, ReceiptsStay
  <2>2. (\A a \in AssessmentId : a[1] \in Key) /\ (\A v \in ValueId : v[1] \in Key)
    BY DEF AssessmentId, ValueId
  <2> QED
    BY <1>2, <2>1, <2>2 DEF RowsHaveReceipts
<1>3. CASE RecordValue(r)
  <2>1. Commit(r) /\ r.target \in Target /\ r.parameter \in Parameter
    BY <1>3, RequestFields DEF RecordValue
  <2>2. ASSUME NEW a \in AssessmentId, assessments'[a] # None PROVE audit'[a[1]] # None
    <3>1. a[1] = r.key \/ assessments[a] # None
      BY <1>3, <2>1, <2>2 DEF RecordValue, TypeOK
    <3> QED
      BY <2>1, <3>1, ReceiptsStay DEF RowsHaveReceipts, AssessmentId
  <2>3. ASSUME NEW v \in ValueId, values'[v] # None PROVE audit'[v[1]] # None
    <3>1. v[1] = r.key \/ values[v] # None
      BY <1>3, <2>1, <2>3 DEF RecordValue, TypeOK
    <3> QED
      BY <2>1, <3>1, ReceiptsStay DEF RowsHaveReceipts, ValueId
  <2>4. \A k \in Key : runs'[k] # None => audit'[k] # None
    BY <1>3, <2>1, ReceiptsStay DEF RecordValue, RowsHaveReceipts
  <2> QED
    BY <2>2, <2>3, <2>4 DEF RowsHaveReceipts
<1>4. CASE ImportWorkbook(r)
  <2>1. Commit(r)
    BY <1>4 DEF ImportWorkbook
  <2>2. ASSUME NEW a \in AssessmentId, assessments'[a] # None PROVE audit'[a[1]] # None
    <3>1. a[1] = r.key \/ assessments[a] # None
      BY <1>4, <2>2 DEF ImportWorkbook
    <3> QED
      BY <2>1, <3>1, ReceiptsStay DEF RowsHaveReceipts, AssessmentId
  <2>3. ASSUME NEW v \in ValueId, values'[v] # None PROVE audit'[v[1]] # None
    <3>1. v[1] = r.key \/ values[v] # None
      BY <1>4, <2>3 DEF ImportWorkbook
    <3> QED
      BY <2>1, <3>1, ReceiptsStay DEF RowsHaveReceipts, ValueId
  <2>4. \A k \in Key : runs'[k] # None => audit'[k] # None
    BY <1>4, <2>1, ReceiptsStay DEF ImportWorkbook, RowsHaveReceipts, TypeOK
  <2> QED
    BY <2>2, <2>3, <2>4 DEF RowsHaveReceipts
<1> QED
  BY <1>1, <1>2, <1>3, <1>4 DEF Operation, SaveProfile, CreateExperiment, UpdateExperiment,
     FreezeExperiment, ArchiveExperiment

\* An experiment keeps its workspace, profile and kind, and never disappears.
LEMMA ExperimentsStay ==
    ASSUME TypeOK, NEW r \in Request, Operation(r), NEW e \in Experiment, experiments[e] # None
    PROVE  /\ experiments'[e] # None
           /\ experiments'[e].workspace = experiments[e].workspace
           /\ experiments'[e].profile = experiments[e].profile
           /\ experiments'[e].kind = experiments[e].kind
<1>1. experiments[e] \in ExperimentRow
  BY DEF TypeOK
<1>2. CASE CreateExperiment(r)
  <2>1. r.experiment # e
    BY <1>2, ExperimentCreated
  <2> QED
    BY <1>2, <2>1 DEF CreateExperiment, TypeOK
<1>3. CASE UpdateExperiment(r) \/ FreezeExperiment(r) \/ ArchiveExperiment(r)
  <2>1. /\ experiments'[e].workspace = experiments[e].workspace
        /\ experiments'[e].profile = experiments[e].profile
        /\ experiments'[e].kind = experiments[e].kind
    BY <1>1, <1>3 DEF UpdateExperiment, FreezeExperiment, ArchiveExperiment, TypeOK, ExperimentRow
  <2>2. experiments'[e] \in ExperimentRow
    <3>1. r.op = "UPDATE" => r.label \in Label
      BY RequestFields
    <3>2. CASE UpdateExperiment(r)
      BY <1>1, <3>1, <3>2 DEF UpdateExperiment, TypeOK, ExperimentRow
    <3>3. CASE ~UpdateExperiment(r)
      BY <1>1, <1>3, <3>3 DEF FreezeExperiment, ArchiveExperiment, TypeOK, ExperimentRow, ExperimentStatus
    <3> QED
      BY <3>2, <3>3
  <2> QED
    BY <2>1, <2>2, NoneAssumption
<1>4. CASE UNCHANGED experiments
  BY <1>4
<1> QED
  BY <1>2, <1>3, <1>4 DEF Operation, SaveProfile, RecordValue, ImportWorkbook, Answer, vars

\* The experiments of committed imports stay.
LEMMA KeepsImports ==
    ASSUME TypeOK, ImportsHaveExperiments, NEW r \in Request, Operation(r)
    PROVE  ImportsHaveExperiments'
<1>1. ASSUME NEW k \in Key, runs'[k] # None
      PROVE  runs'[k].op = "IMPORT" /\ experiments'[runs'[k].experiment] # None
  <2>1. CASE ImportWorkbook(r) /\ k = r.key
    <3>1. runs'[k] = r /\ r.experiment \in Experiment /\ experiments[r.experiment] # None
      BY <2>1, WorkbookImported, RequestFields DEF ImportWorkbook, TypeOK
    <3> QED
      BY <2>1, <3>1, ExperimentsStay DEF ImportWorkbook
  <2>2. CASE runs'[k] = runs[k]
    <3>1. runs[k] \in Request /\ runs[k].op = "IMPORT" /\ experiments[runs[k].experiment] # None
      BY <1>1, <2>2 DEF ImportsHaveExperiments, TypeOK
    <3>2. runs[k].experiment \in Experiment
      BY <3>1, RequestFields
    <3> QED
      BY <2>2, <3>1, <3>2, ExperimentsStay
  <2> QED
    BY <2>1, <2>2 DEF Operation, SaveProfile, CreateExperiment, UpdateExperiment, FreezeExperiment,
       ArchiveExperiment, RecordValue, ImportWorkbook, Answer, vars, TypeOK
<1> QED
  BY <1>1 DEF ImportsHaveExperiments

\* A profile that an experiment uses stays as it is.
LEMMA UsedProfilesStay ==
    ASSUME TypeOK, LanesMatch, NEW r \in Request, Operation(r),
           NEW e \in Experiment, experiments[e] # None
    PROVE  profiles'[experiments[e].profile] = profiles[experiments[e].profile]
<1> DEFINE p == experiments[e].profile
<1>1. p \in Profile /\ profiles[p] # None /\ UsedProfile(p)
  BY DEF LanesMatch, TypeOK, ExperimentRow, UsedProfile
<1>2. CASE SaveProfile(r)
  <2>1. r.profile # p
    BY <1>1, <1>2, ProfileSaved
  <2> QED
    BY <1>1, <1>2, <2>1 DEF SaveProfile, TypeOK
<1>3. CASE CreateExperiment(r)
  <2>1. Bearers(r) = {} => r.profile # p
    BY <1>1, <1>3, ExperimentCreated
  <2> QED
    BY <1>1, <1>3, <2>1 DEF CreateExperiment, TypeOK
<1>4. CASE UNCHANGED profiles
  BY <1>4
<1> QED
  BY <1>2, <1>3, <1>4 DEF Operation, UpdateExperiment, FreezeExperiment, ArchiveExperiment,
     RecordValue, ImportWorkbook, Answer, vars

\* No operation gives two profiles of a workspace one identity.
LEMMA KeepsIdentities ==
    ASSUME TypeOK, LanesMatch, NEW r \in Request, Operation(r),
           NEW p \in Profile, NEW q \in Profile,
           profiles'[p] # None, profiles'[q] # None,
           profiles'[p].workspace = profiles'[q].workspace,
           profiles'[p].identity = profiles'[q].identity
    PROVE  p = q
<1>1. ASSUME r.op \in ScopedOp, Bearers(r) \ {r.profile} = {},
             profiles' = [profiles EXCEPT ![r.profile] = RequestedProfile(r)]
      PROVE  p = q
  <2>1. /\ r.profile \in Profile
        /\ WorkspaceOf(r) = r.workspace
        /\ RequestedProfile(r).workspace = r.workspace
        /\ RequestedProfile(r).identity = r.identity
    BY <1>1, RequestFields DEF WorkspaceOf, RequestedProfile
  <2>2. \A x \in Profile \ {r.profile} :
           /\ profiles'[x] = profiles[x]
           /\ profiles[x] # None =>
                 ~(profiles[x].workspace = r.workspace /\ profiles[x].identity = r.identity)
    BY <1>1, <2>1 DEF Bearers, TypeOK
  <2>3. profiles'[r.profile] = RequestedProfile(r)
    BY <1>1, <2>1 DEF TypeOK
  <2> QED
    BY <2>1, <2>2, <2>3 DEF LanesMatch
<1>2. CASE SaveProfile(r)
  BY <1>1, <1>2, ProfileSaved DEF SaveProfile, ScopedOp
<1>3. CASE CreateExperiment(r)
  <2>1. CASE Bearers(r) = {}
    BY <1>1, <1>3, <2>1 DEF CreateExperiment, ScopedOp
  <2>2. CASE Bearers(r) # {}
    BY <1>3, <2>2 DEF CreateExperiment, LanesMatch
  <2> QED
    BY <2>1, <2>2
<1>4. CASE UNCHANGED profiles
  BY <1>4 DEF LanesMatch
<1> QED
  BY <1>2, <1>3, <1>4 DEF Operation, UpdateExperiment, FreezeExperiment, ArchiveExperiment,
     RecordValue, ImportWorkbook, Answer, vars

\* Every experiment has a profile of its workspace and lane.
LEMMA KeepsExperts ==
    ASSUME TypeOK, LanesMatch, NEW r \in Request, Operation(r),
           NEW e \in Experiment, experiments'[e] # None
    PROVE  /\ profiles'[experiments'[e].profile] # None
           /\ profiles'[experiments'[e].profile].workspace = experiments'[e].workspace
           /\ profiles'[experiments'[e].profile].kind = experiments'[e].kind
<1>1. CASE experiments[e] # None
  BY <1>1, ExperimentsStay, UsedProfilesStay DEF LanesMatch
<1>2. CASE experiments[e] = None
  <2>1. CreateExperiment(r) /\ r.experiment = e
    <3>1. CASE UpdateExperiment(r) \/ FreezeExperiment(r) \/ ArchiveExperiment(r)
      <4>1. experiments[r.experiment] # None
        BY <3>1, ExperimentMoved DEF UpdateExperiment, FreezeExperiment, ArchiveExperiment, Transition
      <4> QED
        BY <1>2, <3>1, <4>1 DEF UpdateExperiment, FreezeExperiment, ArchiveExperiment, TypeOK
    <3>2. CASE UNCHANGED experiments
      BY <1>2, <3>2
    <3> QED
      BY <1>2, <3>1, <3>2 DEF Operation, SaveProfile, CreateExperiment, RecordValue,
         ImportWorkbook, Answer, vars, TypeOK
  <2>2. /\ r.profile \in Profile
        /\ RequestedProfile(r) \in ProfileRow
        /\ RequestedProfile(r).workspace = r.workspace
        /\ RequestedProfile(r).kind = r.kind
    BY <2>1, RequestFields DEF CreateExperiment, ScopedOp, RequestedProfile, ProfileRow
  <2>3. /\ experiments'[e].profile = r.profile
        /\ experiments'[e].workspace = r.workspace
        /\ experiments'[e].kind = r.kind
    BY <2>1 DEF CreateExperiment, TypeOK
  <2>4. profiles'[r.profile] = RequestedProfile(r)
    BY <2>1, <2>2, ExperimentCreated DEF CreateExperiment, TypeOK
  <2> QED
    BY <2>2, <2>3, <2>4, NoneAssumption
<1> QED
  BY <1>1, <1>2

\* A workbook's column is of its experiment's lane.
LEMMA KeepsColumns ==
    ASSUME TypeOK, LanesMatch, ImportsHaveExperiments, NEW r \in Request, Operation(r),
           NEW k \in Key, runs'[k] # None
    PROVE  runs'[k].kind = experiments'[runs'[k].experiment].kind
<1>1. CASE ImportWorkbook(r) /\ k = r.key
  <2>1. runs'[k] = r /\ experiments' = experiments
    BY <1>1 DEF ImportWorkbook, TypeOK
  <2> QED
    BY <1>1, <2>1, WorkbookImported
<1>2. CASE runs'[k] = runs[k]
  <2>1. runs[k] \in Request /\ runs[k].op = "IMPORT" /\ experiments[runs[k].experiment] # None
    BY <1>2 DEF ImportsHaveExperiments, TypeOK
  <2>2. runs[k].experiment \in Experiment
    BY <2>1, RequestFields
  <2> QED
    BY <1>2, <2>1, <2>2, ExperimentsStay DEF LanesMatch
<1> QED
  BY <1>1, <1>2 DEF Operation, SaveProfile, CreateExperiment, UpdateExperiment, FreezeExperiment,
     ArchiveExperiment, RecordValue, ImportWorkbook, Answer, vars, TypeOK

LEMMA InitialLanes == ExperimentsInit => LaneInv
  BY InitialTypes DEF ExperimentsInit, LaneInv, RowsHaveReceipts, ImportsHaveExperiments, LanesMatch

LEMMA StepLanes == LaneInv /\ [ExperimentsNext]_vars => LaneInv'
<1> SUFFICES ASSUME LaneInv, [ExperimentsNext]_vars PROVE LaneInv'
  OBVIOUS
<1>1. TypeOK'
  BY StepTypes DEF LaneInv
<1>2. ASSUME NEW r \in Request, Operation(r) PROVE LaneInv'
  <2>1. RowsHaveReceipts' /\ ImportsHaveExperiments'
    BY <1>2, KeepsReceipts, KeepsImports DEF LaneInv
  <2>2. LanesMatch'
    <3>1. \A p, q \in Profile :
             /\ profiles'[p] # None /\ profiles'[q] # None
             /\ profiles'[p].workspace = profiles'[q].workspace
             /\ profiles'[p].identity = profiles'[q].identity
             => p = q
      BY <1>2, KeepsIdentities DEF LaneInv
    <3>2. \A e \in Experiment : experiments'[e] # None =>
             /\ profiles'[experiments'[e].profile] # None
             /\ profiles'[experiments'[e].profile].workspace = experiments'[e].workspace
             /\ profiles'[experiments'[e].profile].kind = experiments'[e].kind
      BY <1>2, KeepsExperts DEF LaneInv
    <3>3. \A k \in Key : runs'[k] # None =>
             runs'[k].kind = experiments'[runs'[k].experiment].kind
      BY <1>2, KeepsColumns DEF LaneInv
    <3> QED
      BY <3>1, <3>2, <3>3 DEF LanesMatch
  <2> QED
    BY <1>1, <2>1, <2>2 DEF LaneInv
<1>3. CASE UNCHANGED <<profiles, experiments, assessments, values, audit, runs>>
  BY <1>1, <1>3 DEF LaneInv, RowsHaveReceipts, ImportsHaveExperiments, LanesMatch
<1> QED
  BY <1>2, <1>3 DEF ExperimentsNext, ChangeScope, vars

\* Identities are unique in a workspace, an experiment's expert is of its
\* workspace and lane, and only workbooks of its lane enter it.
THEOREM LanesAlwaysMatch == ExperimentsSpec => []LanesMatch
<1>1. LaneInv => LanesMatch
  BY DEF LaneInv
<1> QED
  BY <1>1, InitialLanes, StepLanes, PTL DEF ExperimentsSpec

-----------------------------------------------------------------------------
(* History.                                                                *)

\* A key that is free has no rows, so that what is there is never written again.
LEMMA RowsStay ==
    ASSUME LaneInv, NEW r \in Request, Operation(r)
    PROVE  /\ \A a \in Assessments : assessments'[a] = assessments[a]
           /\ \A v \in Values : values'[v] = values[v]
           /\ \A k \in Key : audit[k] # None => audit'[k] = audit[k] /\ runs'[k] = runs[k]
<1>1. CASE Answer(r)
  BY <1>1 DEF Answer, vars
<1>2. CASE Commit(r)
  <2>1. \A k \in Key : audit[k] # None => k # r.key /\ audit'[k] = audit[k]
    BY <1>2, ReceiptsStay DEF LaneInv
  <2>2. \A a \in Assessments : a \in AssessmentId /\ a[1] # r.key
    BY <2>1 DEF Assessments, LaneInv, RowsHaveReceipts, AssessmentId
  <2>3. \A v \in Values : v \in ValueId /\ v[1] # r.key
    BY <2>1 DEF Values, LaneInv, RowsHaveReceipts, ValueId
  <2>4. CASE RecordValue(r)
    <3>1. \A a \in Assessments : assessments'[a] = assessments[a]
      BY <2>2, <2>4 DEF RecordValue, LaneInv, TypeOK
    <3>2. \A v \in Values : values'[v] = values[v]
      BY <2>3, <2>4 DEF RecordValue, LaneInv, TypeOK
    <3> QED
      BY <2>1, <2>4, <3>1, <3>2 DEF RecordValue
  <2>5. CASE ImportWorkbook(r)
    <3>1. \A a \in Assessments : assessments'[a] = assessments[a]
      BY <2>2, <2>5 DEF ImportWorkbook
    <3>2. \A v \in Values : values'[v] = values[v]
      BY <2>3, <2>5 DEF ImportWorkbook
    <3>3. \A k \in Key \ {r.key} : runs'[k] = runs[k]
      BY <2>5 DEF ImportWorkbook, LaneInv, TypeOK
    <3> QED
      BY <2>1, <3>1, <3>2, <3>3
  <2>6. CASE UNCHANGED <<assessments, values, runs>>
    BY <2>1, <2>6
  <2> QED
    BY <1>2, <2>4, <2>5, <2>6 DEF Operation, SaveProfile, CreateExperiment, UpdateExperiment,
       FreezeExperiment, ArchiveExperiment, Answer, Commit
<1> QED
  BY <1>1, <1>2 DEF Operation, SaveProfile, CreateExperiment, UpdateExperiment,
     FreezeExperiment, ArchiveExperiment, RecordValue, ImportWorkbook

\* A closed experiment may still go from FROZEN to ARCHIVED, and nothing else.
LEMMA ClosedStays ==
    ASSUME TypeOK, NEW r \in Request, Operation(r),
           NEW e \in Experiment, experiments[e] # None, ~IsDraft(e)
    PROVE  \/ experiments'[e] = experiments[e]
           \/ /\ experiments[e].status = "FROZEN"
              /\ experiments'[e] = [experiments[e] EXCEPT !.status = "ARCHIVED"]
<1>1. CASE CreateExperiment(r)
  <2>1. r.experiment # e
    BY <1>1, ExperimentCreated
  <2> QED
    BY <1>1, <2>1 DEF CreateExperiment, TypeOK
<1>2. CASE UpdateExperiment(r) \/ FreezeExperiment(r)
  <2>1. IsDraft(r.experiment)
    BY <1>2, ExperimentMoved DEF UpdateExperiment, FreezeExperiment, Transition
  <2> QED
    BY <1>2, <2>1 DEF UpdateExperiment, FreezeExperiment, TypeOK
<1>3. CASE ArchiveExperiment(r)
  <2>1. experiments[r.experiment].status \in {"DRAFT", "FROZEN"}
    BY <1>3, ExperimentMoved DEF ArchiveExperiment, Transition
  <2> QED
    BY <1>3, <2>1 DEF ArchiveExperiment, IsDraft, TypeOK
<1>4. CASE UNCHANGED experiments
  BY <1>4
<1> QED
  BY <1>1, <1>2, <1>3, <1>4 DEF Operation, SaveProfile, RecordValue, ImportWorkbook, Answer, vars

\* New rows belong to the request's experiment, which is a draft.
LEMMA NewRowsInDrafts ==
    ASSUME TypeOK, NEW r \in Request, Operation(r),
           NEW e \in Experiment, experiments[e] # None, ~IsDraft(e)
    PROVE  /\ \A a \in AssessmentId :
                 assessments[a] = None /\ assessments'[a] # None => assessments'[a].experiment # e
           /\ \A v \in ValueId :
                 values[v] = None /\ values'[v] # None =>
                    assessments'[values'[v].assessment].experiment # e
<1>1. CASE RecordValue(r)
  <2>1. r.op = "VALUE" /\ r.experiment # e
    BY <1>1, ValueRecorded DEF RecordValue
  <2>2. <<r.key, r.target>> \in AssessmentId /\ <<r.key, r.target, r.parameter>> \in ValueId
    BY <2>1, RequestFields DEF AssessmentId, ValueId
  <2>3. NewAssessment(r).experiment = r.experiment
    BY <2>1, NewRow
  <2>4. \A a \in AssessmentId :
           assessments[a] = None /\ assessments'[a] # None => assessments'[a].experiment # e
    BY <1>1, <2>1, <2>2, <2>3 DEF RecordValue, TypeOK
  <2>5. assessments'[AttachedTo(r)].experiment = r.experiment
    <3>1. CASE NeedsVersion(r)
      <4>1. AttachedTo(r) = <<r.key, r.target>>
        BY <3>1 DEF AttachedTo
      <4> QED
        BY <1>1, <2>2, <2>3, <3>1, <4>1 DEF RecordValue, TypeOK
    <3>2. CASE ~NeedsVersion(r)
      BY <1>1, <2>1, <3>2, AttachedRow DEF RecordValue
    <3> QED
      BY <3>1, <3>2
  <2>6. ASSUME NEW v \in ValueId, values[v] = None, values'[v] # None
        PROVE  values'[v].assessment = AttachedTo(r)
    <3>1. v = <<r.key, r.target, r.parameter>>
      BY <1>1, <2>2, <2>6 DEF RecordValue, TypeOK
    <3> QED
      BY <1>1, <2>2, <3>1 DEF RecordValue, TypeOK
  <2> QED
    BY <2>1, <2>4, <2>5, <2>6
<1>2. CASE ImportWorkbook(r)
  <2>1. r.op = "IMPORT" /\ r.experiment # e
    BY <1>2, WorkbookImported DEF ImportWorkbook
  <2>2. \A a \in AssessmentId : a[1] = r.key /\ FileRows(r, a[2]) # {} =>
           assessments'[a].experiment = r.experiment
    BY <1>2, <2>1, ImportedRow DEF ImportWorkbook
  <2>3. \A a \in AssessmentId :
           assessments[a] = None /\ assessments'[a] # None => assessments'[a].experiment # e
    BY <1>2, <2>1, <2>2 DEF ImportWorkbook
  <2>4. ASSUME NEW v \in ValueId, values[v] = None, values'[v] # None
        PROVE  assessments'[values'[v].assessment].experiment # e
    <3>1. /\ v[1] = r.key
          /\ FileRows(r, v[2]) # {}
          /\ values'[v].assessment = <<v[1], v[2]>>
      BY <1>2, <2>4 DEF ImportWorkbook
    <3>2. <<v[1], v[2]>> \in AssessmentId
      BY DEF ValueId, AssessmentId
    <3> QED
      BY <2>1, <2>2, <3>1, <3>2
  <2> QED
    BY <2>3, <2>4
<1>3. CASE UNCHANGED <<assessments, values>>
  BY <1>3
<1> QED
  BY <1>1, <1>2, <1>3 DEF Operation, SaveProfile, CreateExperiment, UpdateExperiment,
     FreezeExperiment, ArchiveExperiment, Answer, vars

LEMMA StepKeepsHistory == LaneInv /\ [ExperimentsNext]_vars => [HistoryStays]_vars
<1> SUFFICES ASSUME LaneInv, ExperimentsNext PROVE HistoryStays \/ UNCHANGED vars
  OBVIOUS
<1>1. ASSUME NEW r \in Request, Operation(r) PROVE HistoryStays
  <2>1. \A e \in Experiment : experiments[e] # None =>
           profiles'[experiments[e].profile] = profiles[experiments[e].profile]
    BY <1>1, UsedProfilesStay DEF LaneInv
  <2>2. \A e \in Experiment : experiments[e] # None /\ experiments[e].status # "DRAFT" =>
           /\ \/ experiments'[e] = experiments[e]
              \/ /\ experiments[e].status = "FROZEN"
                 /\ experiments'[e] = [experiments[e] EXCEPT !.status = "ARCHIVED"]
           /\ \A a \in AssessmentId :
                 assessments[a] = None /\ assessments'[a] # None => assessments'[a].experiment # e
           /\ \A v \in ValueId :
                 values[v] = None /\ values'[v] # None =>
                    assessments'[values'[v].assessment].experiment # e
    BY <1>1, ClosedStays, NewRowsInDrafts DEF LaneInv, IsDraft
  <2> QED
    BY <1>1, <2>1, <2>2, RowsStay DEF HistoryStays
<1>2. ASSUME NEW u \in ScopeChange, ChangeScope(u) PROVE HistoryStays
  BY <1>2 DEF ChangeScope, HistoryStays, Assessments, Values
<1> QED
  BY <1>1, <1>2 DEF ExperimentsNext

\* No step ever changes an expert in use, an assessment, a value or a receipt,
\* adds a row to a closed experiment, or opens it again.
THEOREM HistoryAlwaysKept == ExperimentsSpec => HistoryIsKept
  BY InitialLanes, StepLanes, StepKeepsHistory, PTL DEF ExperimentsSpec, HistoryIsKept

-----------------------------------------------------------------------------
(* Replays.                                                                *)

\* A value's assessment is there.
ValuesAreAttached == \A v \in Values : values[v].assessment \in Assessments

\* What a request names is there.
Grounded(r) ==
    /\ r.op \notin ScopedOp => experiments[r.experiment] # None
    /\ r.supersedes # None => r.supersedes \in Values /\ ExperimentOf(r.supersedes) = r.experiment

\* A receipt would still be admitted and found, but for its user's scope.
ReceiptsAreGrounded ==
    \A k \in Key, q \in Request : audit[k] = q =>
        /\ q.key = k
        /\ Grounded(q)
        /\ q.op = "CREATE" => q.ifMatch = [manifest |-> q.workspace]
        /\ runs[k] = IF q.op = "IMPORT" THEN q ELSE None

ReplayInv == LaneInv /\ ValuesAreAttached /\ ReceiptsAreGrounded

\* Every operation attaches its values to rows.
LEMMA KeepsAttached ==
    ASSUME LaneInv, ValuesAreAttached, NEW r \in Request, Operation(r)
    PROVE  ValuesAreAttached'
<1>1. ASSUME NEW v \in ValueId, values'[v] # None
      PROVE  /\ values'[v].assessment \in AssessmentId
             /\ assessments'[values'[v].assessment] # None
  <2>1. CASE values[v] # None
    <3>1. values'[v] = values[v] /\ values[v].assessment \in Assessments
      BY <2>1, RowsStay DEF Values, ValuesAreAttached
    <3> QED
      BY <3>1, RowsStay DEF Assessments
  <2>2. CASE values[v] = None /\ RecordValue(r)
    <3>1. r.op = "VALUE" /\ <<r.key, r.target>> \in AssessmentId
      BY <2>2, RequestFields DEF RecordValue, AssessmentId
    <3>2. <<r.key, r.target, r.parameter>> \in ValueId
      BY <3>1, RequestFields DEF ValueId
    <3>3. values'[v].assessment = AttachedTo(r)
      BY <1>1, <2>2, <3>2 DEF RecordValue, LaneInv, TypeOK
    <3>4. CASE NeedsVersion(r)
      <4>1. AttachedTo(r) = <<r.key, r.target>>
        BY <3>4 DEF AttachedTo
      <4>2. assessments'[<<r.key, r.target>>] = NewAssessment(r)
        BY <2>2, <3>1, <3>4 DEF RecordValue, LaneInv, TypeOK
      <4> QED
        BY <3>1, <3>3, <4>1, <4>2, NewRow, NoneAssumption DEF LaneInv
    <3>5. CASE ~NeedsVersion(r)
      BY <2>2, <3>1, <3>3, <3>5, AttachedRow DEF RecordValue, LaneInv
    <3> QED
      BY <3>4, <3>5
  <2>3. CASE values[v] = None /\ ImportWorkbook(r)
    <3>1. /\ v[1] = r.key
          /\ FileRows(r, v[2]) # {}
          /\ values'[v].assessment = <<v[1], v[2]>>
      BY <1>1, <2>3 DEF ImportWorkbook
    <3>2. <<v[1], v[2]>> \in AssessmentId
      BY DEF ValueId, AssessmentId
    <3>3. assessments'[<<v[1], v[2]>>] = ImportedAssessment(r, v[2])
      BY <2>3, <3>1, <3>2 DEF ImportWorkbook
    <3>4. ImportedAssessment(r, v[2]) \in AssessmentRow
      BY <2>3, ImportedRow DEF ImportWorkbook
    <3>5. ImportedAssessment(r, v[2]) # None
      BY <3>4, NoneAssumption
    <3> QED
      BY <3>1, <3>2, <3>3, <3>5
  <2> QED
    BY <1>1, <2>1, <2>2, <2>3 DEF Operation, SaveProfile, CreateExperiment, UpdateExperiment,
       FreezeExperiment, ArchiveExperiment, Answer, vars
<1> QED
  BY <1>1 DEF ValuesAreAttached, Values, Assessments

\* What a request names stays there.
LEMMA GroundedStays ==
    ASSUME LaneInv, ValuesAreAttached, NEW r \in Request, Operation(r),
           NEW q \in Request, Grounded(q)
    PROVE  Grounded(q)'
<1>1. q.op \notin ScopedOp => experiments'[q.experiment] # None
  <2>1. q.op \notin ScopedOp => q.experiment \in Experiment
    BY RequestFields DEF ScopedOp
  <2> QED
    BY <2>1, ExperimentsStay DEF Grounded, LaneInv
<1>2. ASSUME q.supersedes # None
      PROVE  /\ q.supersedes \in ValueId
             /\ values'[q.supersedes] # None
             /\ assessments'[values'[q.supersedes].assessment].experiment = q.experiment
  <2>1. q.supersedes \in Values /\ ExperimentOf(q.supersedes) = q.experiment
    BY <1>2 DEF Grounded
  <2>2. values'[q.supersedes] = values[q.supersedes]
    BY <2>1, RowsStay
  <2>3. assessments'[values[q.supersedes].assessment] = assessments[values[q.supersedes].assessment]
    BY <2>1, RowsStay DEF ValuesAreAttached
  <2> QED
    BY <2>1, <2>2, <2>3 DEF Values, ExperimentOf
<1> QED
  BY <1>1, <1>2 DEF Grounded, Values, ExperimentOf

\* A new receipt is grounded, and all others stay so.
LEMMA KeepsGrounded ==
    ASSUME ReplayInv, NEW r \in Request, Operation(r)
    PROVE  ReceiptsAreGrounded'
<1> USE DEF ReplayInv
<1>1. ASSUME NEW k \in Key, NEW q \in Request, audit'[k] = q
      PROVE  /\ q.key = k
             /\ Grounded(q)'
             /\ q.op = "CREATE" => q.ifMatch = [manifest |-> q.workspace]
             /\ runs'[k] = IF q.op = "IMPORT" THEN q ELSE None
  <2>1. CASE audit[k] # None
    <3>1. audit[k] = q /\ runs'[k] = runs[k]
      BY <1>1, <2>1, RowsStay
    <3>2. Grounded(q)'
      BY <3>1, GroundedStays DEF ReceiptsAreGrounded
    <3> QED
      BY <3>1, <3>2 DEF ReceiptsAreGrounded
  <2>2. CASE audit[k] = None
    <3>1. Commit(r) /\ k = r.key
      BY <1>1, <2>2, NoneAssumption DEF Operation, SaveProfile, CreateExperiment,
         UpdateExperiment, FreezeExperiment, ArchiveExperiment, RecordValue, ImportWorkbook,
         Commit, Answer, vars, LaneInv, TypeOK
    <3>2. q = r
      BY <1>1, <3>1, ReceiptsStay DEF LaneInv
    <3>3. Grounded(r)'
      BY <3>1, Committed, GroundedStays DEF Admitted, Grounded
    <3>4. r.op = "CREATE" => r.ifMatch = [manifest |-> r.workspace]
      BY <3>1 DEF Commit, Outcome
    <3>5. runs[k] = None
      BY <2>2 DEF LaneInv, RowsHaveReceipts
    <3>6. runs'[k] = IF r.op = "IMPORT" THEN r ELSE None
      BY <3>1, <3>5 DEF Operation, SaveProfile, CreateExperiment, UpdateExperiment,
         FreezeExperiment, ArchiveExperiment, RecordValue, ImportWorkbook, Commit, Answer,
         LaneInv, TypeOK
    <3> QED
      BY <3>1, <3>2, <3>3, <3>4, <3>6
  <2> QED
    BY <2>1, <2>2
<1> QED
  BY <1>1 DEF ReceiptsAreGrounded

\* What is answered under a key that is taken.
LEMMA ReplayInvMeansExact == ReplayInv => ReplaysAreExact
<1> SUFFICES ASSUME ReplayInv, NEW r \in Request
             PROVE  /\ audit[r.key] = r /\ r.user \in members => Outcome(r) = "REPLAYED"
                    /\ audit[r.key] # r => Outcome(r) # "REPLAYED"
                    /\ audit[r.key] \notin {None, r} => Outcome(r) # "CREATED"
  BY DEF ReplaysAreExact
<1> USE DEF ReplayInv
<1>1. r.key \in Key /\ r # None
  BY RequestFields, NoneAssumption
<1>2. runs[r.key] \in {None, audit[r.key]}
  <2>1. CASE audit[r.key] = None
    BY <1>1, <2>1 DEF LaneInv, RowsHaveReceipts
  <2>2. CASE audit[r.key] # None
    <3>1. audit[r.key] \in Request
      BY <1>1, <2>2 DEF LaneInv, TypeOK
    <3> QED
      BY <1>1, <3>1 DEF ReceiptsAreGrounded
  <2> QED
    BY <2>1, <2>2
<1>3. Refusal(r) \notin {"CREATED", "REPLAYED"}
  BY RefusalCodes
<1>4. KeyOutcome(r) = "REPLAYED" <=> audit[r.key] = r
  BY <1>1, <1>2 DEF KeyOutcome
<1>5. KeyOutcome(r) # "CREATED"
  BY DEF KeyOutcome
<1>6. ASSUME audit[r.key] = r, r.user \in members PROVE Outcome(r) = "REPLAYED"
  <2>1. /\ Grounded(r)
        /\ r.op = "CREATE" => r.ifMatch = [manifest |-> r.workspace]
        /\ runs[r.key] = IF r.op = "IMPORT" THEN r ELSE None
    BY <1>1, <1>6 DEF ReceiptsAreGrounded
  <2>2. Admitted(r)
    BY <1>6, <2>1 DEF Admitted, Grounded
  <2>3. FindsReceipt(r)
    BY <1>1, <1>6, <2>1 DEF FindsReceipt
  <2> QED
    BY <1>4, <1>6, <2>1, <2>2, <2>3 DEF Outcome
<1>7. ASSUME audit[r.key] # r PROVE Outcome(r) # "REPLAYED"
  BY <1>3, <1>4, <1>7 DEF Outcome
<1>8. ASSUME audit[r.key] \notin {None, r} PROVE Outcome(r) # "CREATED"
  BY <1>3, <1>5, <1>8 DEF Outcome
<1> QED
  BY <1>6, <1>7, <1>8

LEMMA InitialReplays == ExperimentsInit => ReplayInv
  BY InitialLanes, NoneAssumption DEF ExperimentsInit, ReplayInv, ValuesAreAttached, Values,
     ReceiptsAreGrounded

LEMMA StepReplays == ReplayInv /\ [ExperimentsNext]_vars => ReplayInv'
<1> SUFFICES ASSUME ReplayInv, [ExperimentsNext]_vars PROVE ReplayInv'
  OBVIOUS
<1>1. LaneInv'
  BY StepLanes DEF ReplayInv
<1>2. ASSUME NEW r \in Request, Operation(r) PROVE ReplayInv'
  BY <1>1, <1>2, KeepsAttached, KeepsGrounded DEF ReplayInv
<1>3. CASE UNCHANGED <<profiles, experiments, assessments, values, audit, runs>>
  BY <1>1, <1>3 DEF ReplayInv, ValuesAreAttached, Values, Assessments, ReceiptsAreGrounded,
     Grounded, ExperimentOf
<1> QED
  BY <1>2, <1>3 DEF ExperimentsNext, ChangeScope, vars

\* A committed request is answered with its receipt for ever, and no other
\* request under its key is, nor does one take effect.
THEOREM ReplaysAlwaysExact == ExperimentsSpec => []ReplaysAreExact
  BY InitialReplays, StepReplays, ReplayInvMeansExact, PTL DEF ExperimentsSpec

-----------------------------------------------------------------------------
(* Cells and their lines.                                                  *)

\* The assessments of a target, the values of a cell.
RowsAt(e, t) == {a \in Assessments : assessments[a].experiment = e /\ a[2] = t}
InCell(e, t, p) == {v \in Values : ExperimentOf(v) = e /\ v[2] = t /\ v[3] = p}

\* What has been entered for a target or a cell ends in one current row: the
\* assessment of the highest version, the value that no other corrects.
HeadsAreOne ==
    \A e \in Experiment, t \in Target :
        /\ \A a \in RowsAt(e, t) :
              \E h \in AssessmentId :
                  /\ CurrentAssessments(e, t) = {h}
                  /\ assessments[a].version <= assessments[h].version
        /\ \A p \in Parameter :
              InCell(e, t, p) # {} => \E h \in ValueId : CurrentValues(e, t, p) = {h}

\* The parts of OneLine.
ValuesAreLinked ==
    \A v \in Values :
        /\ values[v].assessment \in Assessments
        /\ values[v].assessment[2] = v[2]
        /\ values[v].supersedes # None =>
              LET u == values[v].supersedes
              IN  /\ u \in Values
                  /\ <<ExperimentOf(u), u[2], u[3]>> = <<ExperimentOf(v), v[2], v[3]>>
                  /\ assessments[values[u].assessment].version
                        <= assessments[values[v].assessment].version

ValuesDoNotFork ==
    \A u, v \in Values :
        /\ <<ExperimentOf(u), u[2], u[3]>> = <<ExperimentOf(v), v[2], v[3]>>
        /\ values[u].supersedes = values[v].supersedes
        => u = v

VersionsAreOne ==
    \A a, b \in Assessments :
        /\ assessments[a].experiment = assessments[b].experiment
        /\ a[2] = b[2]
        /\ assessments[a].version = assessments[b].version
        => a = b

AssessmentsAreLinked ==
    \A a \in Assessments :
        IF assessments[a].supersedes = None THEN assessments[a].version = 0
        ELSE \E b \in Assessments :
                /\ b = assessments[a].supersedes
                /\ assessments[b].experiment = assessments[a].experiment
                /\ b[2] = a[2]
                /\ assessments[a].version = assessments[b].version + 1

LEMMA PartsOfOneLine ==
    OneLine <=> ValuesAreLinked /\ ValuesDoNotFork /\ VersionsAreOne /\ AssessmentsAreLinked
  BY DEF OneLine, ValuesAreLinked, ValuesDoNotFork, VersionsAreOne, AssessmentsAreLinked

LineInv ==
    /\ ReplayInv
    /\ ValuesAreLinked
    /\ ValuesDoNotFork
    /\ VersionsAreOne
    /\ AssessmentsAreLinked
    /\ HeadsAreOne

\* The current rows are those of the target or cell without a successor.
LEMMA CurrentAssessmentsAre ==
    ASSUME NEW e, NEW t \in Target
    PROVE  \A a : a \in CurrentAssessments(e, t) <=>
                  /\ a \in RowsAt(e, t)
                  /\ \A b \in Assessments : assessments[b].supersedes # a
<1>1. \A a \in AssessmentId : a[2] = t => a \in Key \X {t}
  BY DEF AssessmentId
<1>2. \A a \in Key \X {t} : a \in AssessmentId /\ a[2] = t
  BY DEF AssessmentId
<1> QED
  BY <1>1, <1>2 DEF CurrentAssessments, RowsAt, Assessments

LEMMA CurrentValuesAre ==
    ASSUME NEW e, NEW t \in Target, NEW p \in Parameter
    PROVE  \A v : v \in CurrentValues(e, t, p) <=>
                  /\ v \in InCell(e, t, p)
                  /\ \A u \in Values : values[u].supersedes # v
<1>1. \A v \in ValueId : v[2] = t /\ v[3] = p => v \in Key \X {t} \X {p}
  BY DEF ValueId
<1>2. \A v \in Key \X {t} \X {p} : v \in ValueId /\ v[2] = t /\ v[3] = p
  BY DEF ValueId
<1> QED
  BY <1>1, <1>2 DEF CurrentValues, InCell, Values, HasSuccessor

\* The same of the rows after a step.
LEMMA CurrentAssessmentsAreThen ==
    ASSUME NEW e, NEW t \in Target
    PROVE  \A a : a \in CurrentAssessments(e, t)' <=>
                  /\ a \in RowsAt(e, t)'
                  /\ \A b \in Assessments' : assessments'[b].supersedes # a
<1>1. \A a \in AssessmentId : a[2] = t => a \in Key \X {t}
  BY DEF AssessmentId
<1>2. \A a \in Key \X {t} : a \in AssessmentId /\ a[2] = t
  BY DEF AssessmentId
<1> QED
  BY <1>1, <1>2 DEF CurrentAssessments, RowsAt, Assessments

LEMMA CurrentValuesAreThen ==
    ASSUME NEW e, NEW t \in Target, NEW p \in Parameter
    PROVE  \A v : v \in CurrentValues(e, t, p)' <=>
                  /\ v \in InCell(e, t, p)'
                  /\ \A u \in Values' : values'[u].supersedes # v
<1>1. \A v \in ValueId : v[2] = t /\ v[3] = p => v \in Key \X {t} \X {p}
  BY DEF ValueId
<1>2. \A v \in Key \X {t} \X {p} : v \in ValueId /\ v[2] = t /\ v[3] = p
  BY DEF ValueId
<1> QED
  BY <1>1, <1>2 DEF CurrentValues, InCell, Values, HasSuccessor

\* What every step does to the rows that are there: nothing.
Kept ==
    /\ \A a \in Assessments : a \in Assessments' /\ assessments'[a] = assessments[a]
    /\ \A v \in Values : v \in Values' /\ values'[v] = values[v]
    /\ \A k \in Key : audit[k] # None => audit'[k] = audit[k]

LEMMA OperationsKeep ==
    ASSUME LaneInv, NEW r \in Request, Operation(r)
    PROVE  Kept
  BY RowsStay DEF Kept, Assessments, Values

\* Rows keep their places.
LEMMA PlacesStay ==
    ASSUME Kept, ValuesAreAttached
    PROVE  /\ \A v \in Values :
                 /\ ExperimentOf(v)' = ExperimentOf(v)
                 /\ assessments'[values'[v].assessment] = assessments[values[v].assessment]
           /\ \A e, t : RowsAt(e, t) \subseteq RowsAt(e, t)'
           /\ \A e, t, p : InCell(e, t, p) \subseteq InCell(e, t, p)'
<1>1. ASSUME NEW v \in Values
      PROVE  /\ ExperimentOf(v)' = ExperimentOf(v)
             /\ assessments'[values'[v].assessment] = assessments[values[v].assessment]
  BY DEF Kept, ValuesAreAttached, ExperimentOf
<1>2. ASSUME NEW e, NEW t PROVE RowsAt(e, t) \subseteq RowsAt(e, t)'
  BY DEF Kept, RowsAt
<1>3. ASSUME NEW e, NEW t, NEW p PROVE InCell(e, t, p) \subseteq InCell(e, t, p)'
  BY <1>1 DEF Kept, InCell
<1> QED
  BY <1>1, <1>2, <1>3

\* A cell that gets no value, and a target that gets no assessment, keep their
\* current rows.
LEMMA QuietCell ==
    ASSUME Kept, ValuesAreAttached, NEW e, NEW t \in Target, NEW p \in Parameter,
           \A v \in Values' \ Values :
              /\ ~(ExperimentOf(v)' = e /\ v[2] = t /\ v[3] = p)
              /\ values'[v].supersedes \notin InCell(e, t, p)
    PROVE  InCell(e, t, p)' = InCell(e, t, p) /\ CurrentValues(e, t, p)' = CurrentValues(e, t, p)
<1>1. InCell(e, t, p)' = InCell(e, t, p)
  <2>1. ASSUME NEW v \in InCell(e, t, p)' PROVE v \in InCell(e, t, p)
    <3>1. v \in Values' /\ ExperimentOf(v)' = e /\ v[2] = t /\ v[3] = p
      BY DEF InCell
    <3>2. v \in Values
      BY <3>1
    <3> QED
      BY <3>1, <3>2, PlacesStay DEF InCell
  <2> QED
    BY <2>1, PlacesStay
<1>2. \A v \in InCell(e, t, p) :
         (\A u \in Values' : values'[u].supersedes # v) <=> (\A u \in Values : values[u].supersedes # v)
  BY DEF Kept
<1>3. \A v : v \in CurrentValues(e, t, p)' <=> v \in CurrentValues(e, t, p)
  BY <1>1, <1>2, CurrentValuesAre, CurrentValuesAreThen
<1> QED
  BY <1>1, <1>3

LEMMA QuietTarget ==
    ASSUME Kept, NEW e, NEW t \in Target,
           \A a \in Assessments' \ Assessments :
              /\ ~(assessments'[a].experiment = e /\ a[2] = t)
              /\ assessments'[a].supersedes \notin RowsAt(e, t)
    PROVE  /\ RowsAt(e, t)' = RowsAt(e, t)
           /\ CurrentAssessments(e, t)' = CurrentAssessments(e, t)
<1>1. RowsAt(e, t)' = RowsAt(e, t)
  BY DEF Kept, RowsAt
<1>2. \A a \in RowsAt(e, t) :
         (\A b \in Assessments' : assessments'[b].supersedes # a)
            <=> (\A b \in Assessments : assessments[b].supersedes # a)
  BY DEF Kept
<1>3. \A a : a \in CurrentAssessments(e, t)' <=> a \in CurrentAssessments(e, t)
  BY <1>1, <1>2, CurrentAssessmentsAre, CurrentAssessmentsAreThen
<1> QED
  BY <1>1, <1>3

\* What the database and the models let through.
LEMMA NothingRefused ==
    ASSUME NEW r \in Request, Commit(r)
    PROVE  ~RefusedByModel(r)
<1>1. Outcome(r) = "CREATED"
  BY DEF Commit
<1>2. KeyOutcome(r) # "CREATED"
  BY DEF KeyOutcome
<1> QED
  BY <1>1, <1>2, RefusalCodes DEF Outcome

\* The assessment that a manual value makes: the next version of the current
\* one, with the confidence of one parameter replaced.
LEMMA NewRowFields ==
    ASSUME TypeOK, NEW r \in Request, r.op = "VALUE"
    PROVE  LET a == CurrentAssessment(r.experiment, r.target)
           IN  /\ NewAssessment(r).experiment = r.experiment
               /\ NewAssessment(r).supersedes = a
               /\ NewAssessment(r).version = IF a = None THEN 0 ELSE assessments[a].version + 1
               /\ NewAssessment(r).status = IF a = None THEN r.status
                                            ELSE IF Numeric(r) THEN "PROVISIONAL" ELSE "UNKNOWN"
               /\ \A q \in Parameter :
                     NewAssessment(r).confidence[q] =
                        IF q = r.parameter THEN r.category
                        ELSE IF a = None THEN "UNKNOWN" ELSE assessments[a].confidence[q]
               /\ a # None => NewAssessment(r) = NextAssessment(r)
<1> DEFINE a == CurrentAssessment(r.experiment, r.target)
<1>1. /\ r.experiment \in Experiment /\ r.target \in Target /\ r.parameter \in Parameter
      /\ r.status \in ValueStatus /\ r.category \in Category
  BY RequestFields
<1>2. CASE a = None
  BY <1>1, <1>2 DEF NewAssessment, FirstAssessment
<1>3. CASE a # None
  <2>1. /\ a \in AssessmentId
        /\ assessments[a] \in AssessmentRow
        /\ assessments[a].experiment = r.experiment
    BY <1>1, <1>3, CurrentRow
  <2>2. NextAssessment(r) =
          [assessments[a] EXCEPT
              !.supersedes = a,
              !.version = assessments[a].version + 1,
              !.status = IF Numeric(r) THEN "PROVISIONAL" ELSE "UNKNOWN",
              !.confidence = [assessments[a].confidence EXCEPT ![r.parameter] = r.category]]
    BY <2>1 DEF NextAssessment, AssessmentRow
  <2>3. NewAssessment(r) = NextAssessment(r)
    BY <1>3 DEF NewAssessment
  <2> HIDE DEF a
  <2>4. /\ NextAssessment(r).experiment = r.experiment
        /\ NextAssessment(r).supersedes = a
        /\ NextAssessment(r).version = assessments[a].version + 1
        /\ NextAssessment(r).status = IF Numeric(r) THEN "PROVISIONAL" ELSE "UNKNOWN"
        /\ NextAssessment(r).confidence =
              [assessments[a].confidence EXCEPT ![r.parameter] = r.category]
    BY <2>1, <2>2 DEF AssessmentRow
  <2>5. assessments[a].confidence \in [Parameter -> Category]
    BY <2>1 DEF AssessmentRow
  <2> QED
    BY <1>3, <2>3, <2>4, <2>5 DEF a
<1> QED
  BY <1>2, <1>3

\* The rows that a manual value adds.
LEMMA RowsRecorded ==
    ASSUME LaneInv, NEW r \in Request, RecordValue(r)
    PROVE  LET n == <<r.key, r.target>>
               w == <<r.key, r.target, r.parameter>>
           IN  /\ r.op = "VALUE" /\ r.experiment \in Experiment
               /\ r.target \in Target /\ r.parameter \in Parameter
               /\ n \in AssessmentId \ Assessments
               /\ w \in ValueId \ Values
               /\ Values' = Values \cup {w}
               /\ values'[w] = [assessment |-> AttachedTo(r), supersedes |-> r.supersedes,
                                status |-> r.status]
               /\ NeedsVersion(r) => /\ Assessments' = Assessments \cup {n}
                                     /\ assessments'[n] = NewAssessment(r)
                                     /\ AttachedTo(r) = n
               /\ ~NeedsVersion(r) => /\ assessments' = assessments
                                      /\ Assessments' = Assessments
                                      /\ AttachedTo(r) =
                                            CurrentAssessment(r.experiment, r.target)
               /\ AttachedTo(r) \in Assessments'
               /\ AttachedTo(r)[2] = r.target
               /\ assessments'[AttachedTo(r)].experiment = r.experiment
               /\ ExperimentOf(w)' = r.experiment
               /\ audit'[r.key] = r
<1> DEFINE n == <<r.key, r.target>>
           w == <<r.key, r.target, r.parameter>>
           row == [assessment |-> AttachedTo(r), supersedes |-> r.supersedes,
                   status |-> r.status]
<1>1. /\ r.op = "VALUE" /\ Commit(r)
      /\ values' = [values EXCEPT ![w] = row]
      /\ assessments' = IF NeedsVersion(r) THEN [assessments EXCEPT ![n] = NewAssessment(r)]
                        ELSE assessments
  BY DEF RecordValue
<1>2. /\ r.experiment \in Experiment /\ r.target \in Target /\ r.parameter \in Parameter
      /\ r.key \in Key
  BY <1>1, RequestFields
<1>3. TypeOK /\ RowsHaveReceipts
  BY DEF LaneInv
<1>4. audit[r.key] = None /\ audit'[r.key] = r
  BY <1>1, <1>3, ReceiptsStay
<1>5. n \in AssessmentId /\ n[1] = r.key /\ n[2] = r.target
  BY <1>2 DEF AssessmentId
<1>6. w \in ValueId /\ w[1] = r.key
  BY <1>2 DEF ValueId
<1>7. n \notin Assessments
  BY <1>3, <1>4, <1>5 DEF RowsHaveReceipts, Assessments
<1>8. w \notin Values
  BY <1>3, <1>4, <1>6 DEF RowsHaveReceipts, Values
<1>9. AttachedTo(r) \in AssessmentId
  BY <1>1, <1>3, AttachedRow
<1>10. row \in ValueRow /\ row # None /\ row.assessment = AttachedTo(r)
  <2>1. row \in ValueRow
    BY <1>1, <1>9, RequestFields DEF ValueRow
  <2> QED
    BY <2>1, NoneAssumption
<1> HIDE DEF row
<1>11. /\ values'[w] = row
       /\ \A v \in ValueId \ {w} : values'[v] = values[v]
  <2> HIDE DEF w
  <2> QED
    BY <1>1, <1>3, <1>6 DEF TypeOK
<1>12. Values' = Values \cup {w}
  <2> HIDE DEF w
  <2> QED
    BY <1>6, <1>10, <1>11 DEF Values
<1>13. CASE NeedsVersion(r)
  <2>1. NewAssessment(r) \in AssessmentRow /\ NewAssessment(r) # None
    BY <1>1, <1>3, NewRow, NoneAssumption
  <2>2. AttachedTo(r) = n
    BY <1>13 DEF AttachedTo
  <2>3. /\ assessments'[n] = NewAssessment(r)
        /\ \A a \in AssessmentId \ {n} : assessments'[a] = assessments[a]
    <3> HIDE DEF n
    <3> QED
      BY <1>1, <1>3, <1>5, <1>13 DEF TypeOK
  <2>4. Assessments' = Assessments \cup {n}
    <3> HIDE DEF n
    <3> QED
      BY <1>5, <2>1, <2>3 DEF Assessments
  <2>5. assessments'[n].experiment = r.experiment
    BY <1>1, <1>3, <2>3, NewRow
  <2>6. ExperimentOf(w)' = r.experiment
    BY <1>10, <1>11, <2>2, <2>5 DEF ExperimentOf
  <2> QED
    BY <1>1, <1>2, <1>4, <1>5, <1>6, <1>7, <1>8, <1>11, <1>12, <1>13, <2>2, <2>3, <2>4, <2>5, <2>6
      DEF row
<1>14. CASE ~NeedsVersion(r)
  <2>1. AttachedTo(r) = CurrentAssessment(r.experiment, r.target)
    BY <1>14 DEF AttachedTo
  <2>2. AttachedTo(r) # None
    BY <1>9, NoneAssumption
  <2>3. AttachedTo(r) \in CurrentAssessments(r.experiment, r.target)
    BY <2>1, <2>2 DEF CurrentAssessment
  <2>4. /\ AttachedTo(r) \in Assessments
        /\ AttachedTo(r)[2] = r.target
        /\ assessments[AttachedTo(r)].experiment = r.experiment
    BY <1>9, <2>3 DEF CurrentAssessments, Assessments
  <2>5. assessments' = assessments /\ Assessments' = Assessments
    BY <1>1, <1>14 DEF Assessments
  <2>6. ExperimentOf(w)' = r.experiment
    BY <1>10, <1>11, <2>4, <2>5 DEF ExperimentOf
  <2> QED
    BY <1>1, <1>2, <1>4, <1>5, <1>6, <1>7, <1>8, <1>11, <1>12, <1>14, <2>1, <2>4, <2>5, <2>6 DEF row
<1> QED
  BY <1>13, <1>14

\* A target's rows have one current assessment, and a cell's values one current
\* value.
LEMMA TheHead ==
    ASSUME LineInv, NEW e \in Experiment, NEW t \in Target
    PROVE  /\ CurrentAssessment(e, t) = None => RowsAt(e, t) = {}
           /\ CurrentAssessment(e, t) # None =>
                 /\ CurrentAssessment(e, t) \in RowsAt(e, t)
                 /\ CurrentAssessments(e, t) = {CurrentAssessment(e, t)}
                 /\ \A a \in RowsAt(e, t) :
                       assessments[a].version <= assessments[CurrentAssessment(e, t)].version
<1>2. CurrentAssessments(e, t) \subseteq RowsAt(e, t)
  BY CurrentAssessmentsAre
<1>3. \A a \in RowsAt(e, t) :
         \E h \in AssessmentId :
            /\ CurrentAssessments(e, t) = {h}
            /\ assessments[a].version <= assessments[h].version
  BY DEF LineInv, HeadsAreOne
<1>4. CASE CurrentAssessments(e, t) = {}
  BY <1>3, <1>4 DEF CurrentAssessment
<1>5. CASE CurrentAssessments(e, t) # {}
  <2>1. PICK b : b \in CurrentAssessments(e, t)
    BY <1>5
  <2>2. CurrentAssessments(e, t) = {b} /\ b \in RowsAt(e, t)
    BY <1>2, <1>3, <2>1
  <2>3. CurrentAssessment(e, t) = b
    BY <2>2 DEF CurrentAssessment
  <2>4. b # None
    BY <2>2, NoneAssumption DEF RowsAt, Assessments
  <2>5. \A a \in RowsAt(e, t) : assessments[a].version <= assessments[b].version
    BY <1>3, <2>2
  <2> QED
    BY <2>2, <2>3, <2>4, <2>5
<1> QED
  BY <1>4, <1>5

\* A manual value is the first of its cell, or corrects the current one.
LEMMA RecordedAtHead ==
    ASSUME LineInv, NEW r \in Request, RecordValue(r)
    PROVE  /\ r.supersedes = None => InCell(r.experiment, r.target, r.parameter) = {}
           /\ r.supersedes # None =>
                 /\ r.supersedes \in InCell(r.experiment, r.target, r.parameter)
                 /\ CurrentValues(r.experiment, r.target, r.parameter) = {r.supersedes}
                 /\ CurrentAssessment(r.experiment, r.target) # None
<1> DEFINE e == r.experiment
           t == r.target
           p == r.parameter
<1>1. /\ Commit(r) /\ r.op = "VALUE"
      /\ e \in Experiment /\ t \in Target /\ p \in Parameter
  BY RequestFields DEF RecordValue
<1>2. ValueRefusal(r) = None /\ Admitted(r)
  BY <1>1, Committed DEF Refusal, Transition
<1>3. \A v \in InCell(e, t, p) : values[v].assessment \in RowsAt(e, t)
  BY DEF LineInv, ValuesAreLinked, InCell, RowsAt, ExperimentOf
<1>4. InCell(e, t, p) # {} => \E h \in ValueId : CurrentValues(e, t, p) = {h}
  BY <1>1 DEF LineInv, HeadsAreOne
<1>5. CASE r.supersedes = None
  <2>1. CurrentAssessment(e, t) # None => CurrentValues(e, t, p) = {}
    BY <1>2, <1>5, NoneAssumption DEF ValueRefusal, AnswerCode
  <2>2. CASE CurrentAssessment(e, t) = None
    BY <1>1, <1>3, <1>5, <2>2, TheHead
  <2>3. CASE CurrentAssessment(e, t) # None
    BY <1>4, <1>5, <2>1, <2>3
  <2> QED
    BY <2>2, <2>3
<1>6. CASE r.supersedes # None
  <2>1. r.supersedes \in Values /\ ExperimentOf(r.supersedes) = e
    BY <1>2, <1>6 DEF Admitted
  <2>2. /\ ~HasSuccessor(r.supersedes)
        /\ r.supersedes[2] = t /\ r.supersedes[3] = p
    BY <1>1, <1>6, NothingRefused DEF RefusedByModel
  <2>3. r.supersedes \in InCell(e, t, p)
    BY <2>1, <2>2 DEF InCell
  <2>4. r.supersedes \in CurrentValues(e, t, p)
    <3>1. \A u \in Values : values[u].supersedes # r.supersedes
      BY <2>2 DEF HasSuccessor, Values
    <3> QED
      BY <1>1, <2>3, <3>1, CurrentValuesAre
  <2>5. CurrentAssessment(e, t) # None
    BY <1>1, <1>3, <2>3, TheHead
  <2> QED
    BY <1>4, <1>6, <2>3, <2>4, <2>5
<1> QED
  BY <1>5, <1>6

\* It is then the current value of its cell, and other cells keep theirs.
LEMMA CellsAfterRecording ==
    ASSUME LineInv, NEW r \in Request, RecordValue(r)
    PROVE  /\ CurrentValues(r.experiment, r.target, r.parameter)' =
                 {<<r.key, r.target, r.parameter>>}
           /\ \A e \in Experiment, t \in Target, p \in Parameter :
                 <<e, t, p>> # <<r.experiment, r.target, r.parameter>> =>
                    /\ InCell(e, t, p)' = InCell(e, t, p)
                    /\ CurrentValues(e, t, p)' = CurrentValues(e, t, p)
<1> DEFINE w == <<r.key, r.target, r.parameter>>
           cell == InCell(r.experiment, r.target, r.parameter)
<1>1. LaneInv /\ ValuesAreAttached /\ ValuesAreLinked /\ Kept
  BY OperationsKeep DEF LineInv, ReplayInv, Operation
<1>2. /\ r.experiment \in Experiment /\ r.target \in Target /\ r.parameter \in Parameter
      /\ w \in ValueId /\ w \notin Values
      /\ Values' = Values \cup {w}
      /\ values'[w].supersedes = r.supersedes
      /\ ExperimentOf(w)' = r.experiment
      /\ w[2] = r.target /\ w[3] = r.parameter
  <2>1. values'[w] = [assessment |-> AttachedTo(r), supersedes |-> r.supersedes,
                      status |-> r.status]
    BY <1>1, RowsRecorded
  <2>2. values'[w].supersedes = r.supersedes
    BY <2>1
  <2> QED
    BY <1>1, <2>2, RowsRecorded
<1> HIDE DEF w
<1>3. cell' = cell \cup {w}
  <2>1. ASSUME NEW v \in cell' PROVE v \in cell \cup {w}
    <3>1. v \in Values' /\ ExperimentOf(v)' = r.experiment /\ v[2] = r.target /\ v[3] = r.parameter
      BY <2>1 DEF InCell
    <3> QED
      BY <1>1, <1>2, <3>1, PlacesStay DEF InCell
  <2>2. w \in cell'
    BY <1>2 DEF InCell
  <2> QED
    BY <1>1, <2>1, <2>2, PlacesStay
<1>4. \A v : v \in CurrentValues(r.experiment, r.target, r.parameter)' <=>
             v \in cell' /\ \A u \in Values' : values'[u].supersedes # v
  BY <1>2, CurrentValuesAreThen
<1>5. \A u \in Values' : values'[u].supersedes # w
  <2>1. \A u \in Values : values[u].supersedes # w
    BY <1>1, <1>2, NoneAssumption DEF ValuesAreLinked
  <2>2. r.supersedes # w
    BY <1>1, <1>2, RecordedAtHead, NoneAssumption DEF InCell
  <2> QED
    BY <1>1, <1>2, <2>1, <2>2 DEF Kept
<1>6. \A v \in cell : \E u \in Values' : values'[u].supersedes = v
  <2>1. CASE r.supersedes = None
    BY <2>1, RecordedAtHead
  <2>2. CASE r.supersedes # None
    <3>1. \A v \in cell : (\A u \in Values : values[u].supersedes # v) => v = r.supersedes
      <4>1. CurrentValues(r.experiment, r.target, r.parameter) = {r.supersedes}
        BY <2>2, RecordedAtHead
      <4> QED
        BY <1>2, <4>1, CurrentValuesAre
    <3>2. ASSUME NEW v \in cell, v # r.supersedes PROVE \E u \in Values : values[u].supersedes = v
      BY <3>1, <3>2
    <3> QED
      BY <1>1, <1>2, <3>2 DEF Kept
  <2> QED
    BY <2>1, <2>2
<1>7. CurrentValues(r.experiment, r.target, r.parameter)' = {w}
  BY <1>3, <1>4, <1>5, <1>6
<1>8. ASSUME NEW e \in Experiment, NEW t \in Target, NEW p \in Parameter,
             <<e, t, p>> # <<r.experiment, r.target, r.parameter>>
      PROVE  InCell(e, t, p)' = InCell(e, t, p) /\ CurrentValues(e, t, p)' = CurrentValues(e, t, p)
  <2>1. ~(ExperimentOf(w)' = e /\ w[2] = t /\ w[3] = p)
    BY <1>2, <1>8
  <2>2. r.supersedes \notin InCell(e, t, p)
    <3>1. r.supersedes # None => r.supersedes \in cell
      BY RecordedAtHead
    <3>2. None \notin InCell(e, t, p)
      BY NoneAssumption DEF InCell, Values
    <3> QED
      BY <1>8, <3>1, <3>2 DEF InCell
  <2>3. \A v \in Values' \ Values :
           /\ ~(ExperimentOf(v)' = e /\ v[2] = t /\ v[3] = p)
           /\ values'[v].supersedes \notin InCell(e, t, p)
    BY <1>2, <2>1, <2>2
  <2> QED
    BY <1>1, <2>3, QuietCell
<1> QED
  BY <1>7, <1>8 DEF w

\* A new version is the current assessment of its target; other targets keep theirs.
LEMMA TargetsAfterRecording ==
    ASSUME LineInv, NEW r \in Request, RecordValue(r)
    PROVE  /\ NeedsVersion(r) =>
                 /\ RowsAt(r.experiment, r.target)' =
                       RowsAt(r.experiment, r.target) \cup {<<r.key, r.target>>}
                 /\ CurrentAssessments(r.experiment, r.target)' = {<<r.key, r.target>>}
           /\ \A e \in Experiment, t \in Target :
                 ~NeedsVersion(r) \/ <<e, t>> # <<r.experiment, r.target>> =>
                    /\ RowsAt(e, t)' = RowsAt(e, t)
                    /\ CurrentAssessments(e, t)' = CurrentAssessments(e, t)
<1> DEFINE n == <<r.key, r.target>>
           here == RowsAt(r.experiment, r.target)
           a == CurrentAssessment(r.experiment, r.target)
<1>1. LaneInv /\ Kept /\ AssessmentsAreLinked /\ TypeOK
  BY OperationsKeep DEF LineInv, ReplayInv, Operation, LaneInv
<1>2. /\ r.op = "VALUE" /\ r.experiment \in Experiment /\ r.target \in Target
      /\ n \in AssessmentId /\ n \notin Assessments /\ n[2] = r.target
      /\ NeedsVersion(r) => Assessments' = Assessments \cup {n}
      /\ NeedsVersion(r) => assessments'[n] = NewAssessment(r)
      /\ ~NeedsVersion(r) => Assessments' = Assessments
  BY <1>1, RowsRecorded
<1>3. /\ NewAssessment(r).experiment = r.experiment
      /\ NewAssessment(r).supersedes = a
  BY <1>1, <1>2, NewRowFields
<1>4. \/ a = None /\ here = {}
      \/ a \in here /\ CurrentAssessments(r.experiment, r.target) = {a}
  BY <1>2, TheHead
<1> HIDE DEF n, a
<1>5. CASE NeedsVersion(r)
  <2>1. here' = here \cup {n}
    BY <1>1, <1>2, <1>3, <1>5 DEF RowsAt, Kept
  <2>2. \A x : x \in CurrentAssessments(r.experiment, r.target)' <=>
               x \in here' /\ \A b \in Assessments' : assessments'[b].supersedes # x
    BY <1>2, CurrentAssessmentsAreThen
  <2>3. \A b \in Assessments' : assessments'[b].supersedes # n
    <3>1. \A b \in Assessments : assessments[b].supersedes # n
      BY <1>1, <1>2, NoneAssumption DEF AssessmentsAreLinked
    <3>2. a # n
      BY <1>2, <1>4, NoneAssumption DEF RowsAt
    <3> QED
      BY <1>1, <1>2, <1>3, <1>5, <3>1, <3>2 DEF Kept
  <2>4. \A x \in here : \E b \in Assessments' : assessments'[b].supersedes = x
    <3>1. CASE here = {}
      BY <3>1
    <3>2. CASE CurrentAssessments(r.experiment, r.target) = {a}
      <4>1. ASSUME NEW x \in here, x # a PROVE \E b \in Assessments : assessments[b].supersedes = x
        BY <1>2, <3>2, <4>1, CurrentAssessmentsAre
      <4>2. n \in Assessments' /\ assessments'[n].supersedes = a
        BY <1>2, <1>3, <1>5
      <4> QED
        BY <1>1, <4>1, <4>2 DEF Kept
    <3> QED
      BY <1>4, <3>1, <3>2
  <2>5. CurrentAssessments(r.experiment, r.target)' = {n}
    BY <2>1, <2>2, <2>3, <2>4
  <2>6. ASSUME NEW e \in Experiment, NEW t \in Target, <<e, t>> # <<r.experiment, r.target>>
        PROVE  /\ RowsAt(e, t)' = RowsAt(e, t)
               /\ CurrentAssessments(e, t)' = CurrentAssessments(e, t)
    <3>1. ~(assessments'[n].experiment = e /\ n[2] = t)
      BY <1>2, <1>3, <1>5, <2>6
    <3>2. a \notin RowsAt(e, t)
      BY <1>4, <2>6, NoneAssumption DEF RowsAt, Assessments
    <3>3. \A b \in Assessments' \ Assessments :
             /\ ~(assessments'[b].experiment = e /\ b[2] = t)
             /\ assessments'[b].supersedes \notin RowsAt(e, t)
      BY <1>2, <1>3, <1>5, <3>1, <3>2
    <3> QED
      BY <1>1, <3>3, QuietTarget
  <2> QED
    BY <1>5, <2>1, <2>5, <2>6 DEF n
<1>6. CASE ~NeedsVersion(r)
  BY <1>1, <1>2, <1>6, QuietTarget
<1> QED
  BY <1>5, <1>6

\* Assessments stay on one line.
LEMMA AssessmentsAfterRecording ==
    ASSUME LineInv, NEW r \in Request, RecordValue(r)
    PROVE  VersionsAreOne' /\ AssessmentsAreLinked'
<1> DEFINE n == <<r.key, r.target>>
           a == CurrentAssessment(r.experiment, r.target)
<1>1. /\ LaneInv /\ Kept /\ TypeOK
      /\ VersionsAreOne /\ AssessmentsAreLinked
  BY OperationsKeep DEF LineInv, ReplayInv, Operation, LaneInv
<1>2. /\ r.op = "VALUE" /\ r.experiment \in Experiment /\ r.target \in Target
      /\ n \in AssessmentId /\ n \notin Assessments /\ n[2] = r.target
      /\ NeedsVersion(r) => Assessments' = Assessments \cup {n}
      /\ NeedsVersion(r) => assessments'[n] = NewAssessment(r)
      /\ ~NeedsVersion(r) => Assessments' = Assessments
  BY <1>1, RowsRecorded
<1>3. /\ NewAssessment(r).experiment = r.experiment
      /\ NewAssessment(r).supersedes = a
      /\ NewAssessment(r).version = IF a = None THEN 0 ELSE assessments[a].version + 1
  BY <1>1, <1>2, NewRowFields
<1>4. a = None \/ a \in RowsAt(r.experiment, r.target)
  BY <1>2, TheHead
<1>5. ASSUME NeedsVersion(r), NEW b \in Assessments,
             assessments[b].experiment = r.experiment, b[2] = r.target
      PROVE  assessments[b].version # NewAssessment(r).version
  <2>1. ~RefusedByModel(r)
    BY NothingRefused DEF RecordValue
  <2> QED
    BY <1>2, <1>5, <2>1 DEF RefusedByModel
<1> HIDE DEF n, a
<1>6. VersionsAreOne'
  BY <1>1, <1>2, <1>3, <1>5 DEF VersionsAreOne, Kept
<1>7. AssessmentsAreLinked'
  <2>1. ASSUME NEW b \in Assessments
        PROVE  IF assessments'[b].supersedes = None THEN assessments'[b].version = 0
               ELSE \E c \in Assessments' :
                       /\ c = assessments'[b].supersedes
                       /\ assessments'[c].experiment = assessments'[b].experiment
                       /\ c[2] = b[2]
                       /\ assessments'[b].version = assessments'[c].version + 1
    BY <1>1 DEF Kept, AssessmentsAreLinked
  <2>2. ASSUME NeedsVersion(r)
        PROVE  IF assessments'[n].supersedes = None THEN assessments'[n].version = 0
               ELSE \E c \in Assessments' :
                       /\ c = assessments'[n].supersedes
                       /\ assessments'[c].experiment = assessments'[n].experiment
                       /\ c[2] = n[2]
                       /\ assessments'[n].version = assessments'[c].version + 1
    <3>1. CASE a = None
      BY <1>2, <1>3, <2>2, <3>1
    <3>2. CASE a # None /\ a \in RowsAt(r.experiment, r.target)
      <4>1. /\ a \in Assessments' /\ assessments'[a] = assessments[a]
            /\ assessments[a].experiment = r.experiment /\ a[2] = r.target
        BY <1>1, <3>2 DEF RowsAt, Kept
      <4> QED
        BY <1>2, <1>3, <2>2, <3>2, <4>1
    <3> QED
      BY <1>4, <3>1, <3>2
  <2>3. CASE NeedsVersion(r)
    BY <1>2, <2>1, <2>2, <2>3 DEF AssessmentsAreLinked
  <2>4. CASE ~NeedsVersion(r)
    BY <1>2, <2>1, <2>4 DEF AssessmentsAreLinked
  <2> QED
    BY <2>3, <2>4
<1> QED
  BY <1>6, <1>7

\* Values stay on one line, and lines end in one row.
LEMMA ValuesAfterRecording ==
    ASSUME LineInv, NEW r \in Request, RecordValue(r)
    PROVE  ValuesAreLinked' /\ ValuesDoNotFork' /\ HeadsAreOne'
<1> DEFINE n == <<r.key, r.target>>
           w == <<r.key, r.target, r.parameter>>
           a == CurrentAssessment(r.experiment, r.target)
           cell == InCell(r.experiment, r.target, r.parameter)
<1>1. /\ LaneInv /\ Kept /\ TypeOK /\ ValuesAreAttached
      /\ ValuesAreLinked /\ ValuesDoNotFork /\ HeadsAreOne
  BY OperationsKeep DEF LineInv, ReplayInv, Operation, LaneInv
<1>2. /\ r.op = "VALUE" /\ r.experiment \in Experiment
      /\ r.target \in Target /\ r.parameter \in Parameter
      /\ n \in AssessmentId /\ w \in ValueId /\ w \notin Values
      /\ Values' = Values \cup {w}
      /\ AttachedTo(r) \in Assessments'
      /\ AttachedTo(r)[2] = r.target
      /\ ExperimentOf(w)' = r.experiment
      /\ w[2] = r.target /\ w[3] = r.parameter
  BY <1>1, RowsRecorded
<1>3. /\ NeedsVersion(r) => AttachedTo(r) = n /\ assessments'[n] = NewAssessment(r)
      /\ ~NeedsVersion(r) => AttachedTo(r) = a /\ assessments' = assessments
  BY <1>1, RowsRecorded
<1>4. values'[w].assessment = AttachedTo(r) /\ values'[w].supersedes = r.supersedes
  <2>1. values'[w] = [assessment |-> AttachedTo(r), supersedes |-> r.supersedes,
                      status |-> r.status]
    BY <1>1, RowsRecorded
  <2> QED
    BY <2>1
<1>5. NewAssessment(r).version = IF a = None THEN 0 ELSE assessments[a].version + 1
  BY <1>1, <1>2, NewRowFields
<1>6. /\ r.supersedes = None => cell = {}
      /\ r.supersedes # None => r.supersedes \in cell /\ a # None
  BY RecordedAtHead
<1>7. /\ a = None => RowsAt(r.experiment, r.target) = {}
      /\ a # None => /\ a \in RowsAt(r.experiment, r.target)
                     /\ \A b \in RowsAt(r.experiment, r.target) :
                           assessments[b].version <= assessments[a].version
  BY <1>2, TheHead
<1>8. \A v \in Values : /\ ExperimentOf(v)' = ExperimentOf(v)
                        /\ values'[v] = values[v]
                        /\ assessments'[values[v].assessment] = assessments[values[v].assessment]
                        /\ values[v].assessment \in Assessments'
  BY <1>1, PlacesStay DEF Kept, ValuesAreAttached
<1>9. \A b \in Assessments : assessments[b].version \in Nat
  BY <1>1, NoneAssumption DEF TypeOK, Assessments, AssessmentRow
<1>10. \A v \in cell : values[v].assessment \in RowsAt(r.experiment, r.target)
  BY <1>1 DEF ValuesAreLinked, InCell, RowsAt, ExperimentOf
<1> HIDE DEF n, w, a
<1>11. ValuesAreLinked'
  <2>1. ASSUME NEW v \in Values, NEW u, u = values[v].supersedes, u # None
        PROVE  /\ u \in Values'
               /\ ExperimentOf(u)' = ExperimentOf(v)' /\ u[2] = v[2] /\ u[3] = v[3]
               /\ assessments'[values'[u].assessment].version
                     <= assessments'[values'[v].assessment].version
    <3>1. /\ u \in Values
          /\ ExperimentOf(u) = ExperimentOf(v) /\ u[2] = v[2] /\ u[3] = v[3]
          /\ assessments[values[u].assessment].version <= assessments[values[v].assessment].version
      BY <1>1, <2>1 DEF ValuesAreLinked
    <3> QED
      BY <1>2, <1>8, <3>1
  <2>2. ASSUME r.supersedes # None
        PROVE  LET u == r.supersedes
               IN  /\ u \in Values'
                   /\ ExperimentOf(u)' = ExperimentOf(w)' /\ u[2] = w[2] /\ u[3] = w[3]
                   /\ assessments'[values'[u].assessment].version
                         <= assessments'[AttachedTo(r)].version
    <3>1. /\ r.supersedes \in Values
          /\ ExperimentOf(r.supersedes) = r.experiment
          /\ r.supersedes[2] = r.target /\ r.supersedes[3] = r.parameter
      BY <1>6, <2>2 DEF InCell
    <3>2. values[r.supersedes].assessment \in RowsAt(r.experiment, r.target)
      BY <1>6, <1>10, <2>2
    <3>3. /\ a \in Assessments
          /\ assessments[values[r.supersedes].assessment].version <= assessments[a].version
      BY <1>6, <1>7, <2>2, <3>2 DEF RowsAt
    <3>4. assessments[a].version <= assessments'[AttachedTo(r)].version
      <4>1. assessments[a].version <= assessments[a].version + 1
        BY <1>9, <3>3
      <4> QED
        BY <1>3, <1>5, <1>6, <1>9, <2>2, <3>3, <4>1
    <3>5. assessments'[AttachedTo(r)].version \in Nat
      BY <1>3, <1>5, <1>9, <3>3, <1>6, <2>2
    <3>6. assessments'[values'[r.supersedes].assessment].version = assessments[values[r.supersedes].assessment].version
      BY <1>8, <3>1
    <3>7. assessments[values[r.supersedes].assessment].version \in Nat
      BY <1>9, <3>2 DEF RowsAt
    <3>8. assessments'[values'[r.supersedes].assessment].version <= assessments'[AttachedTo(r)].version
      BY <1>9, <3>3, <3>4, <3>5, <3>6, <3>7
    <3> QED
      BY <1>2, <1>8, <3>1, <3>8
  <2>3. \A v \in Values : values[v].assessment[2] = v[2]
    BY <1>1 DEF ValuesAreLinked
  <2>4. ASSUME NEW v \in Values'
        PROVE  values'[v].assessment \in Assessments' /\ values'[v].assessment[2] = v[2]
    BY <1>2, <1>4, <1>8, <2>3
  <2>5. ASSUME NEW v \in Values', NEW u, u = values'[v].supersedes, u # None
        PROVE  /\ u \in Values'
               /\ ExperimentOf(u)' = ExperimentOf(v)' /\ u[2] = v[2] /\ u[3] = v[3]
               /\ assessments'[values'[u].assessment].version
                     <= assessments'[values'[v].assessment].version
    <3>1. CASE v \in Values
      BY <1>8, <2>1, <2>5, <3>1
    <3>2. CASE v = w
      BY <1>2, <1>4, <2>2, <2>5, <3>2
    <3> QED
      BY <1>2, <3>1, <3>2
  <2> QED
    BY <2>4, <2>5 DEF ValuesAreLinked, ExperimentOf
<1>12. ValuesDoNotFork'
  <2>1. ASSUME NEW u \in Values', NEW v \in Values',
               ExperimentOf(u)' = ExperimentOf(v)', u[2] = v[2], u[3] = v[3],
               values'[u].supersedes = values'[v].supersedes
        PROVE  u = v
    <3>1. ASSUME NEW x \in Values,
                 ExperimentOf(x)' = r.experiment, x[2] = r.target, x[3] = r.parameter
          PROVE  values[x].supersedes # r.supersedes
      <4>1. x \in cell
        BY <1>8, <3>1 DEF InCell
      <4>2. CASE r.supersedes = None
        BY <1>6, <4>1, <4>2
      <4>3. CASE r.supersedes # None
        <5>1. ~HasSuccessor(r.supersedes)
          BY <1>2, <4>3, NothingRefused DEF RefusedByModel, RecordValue
        <5> QED
          BY <5>1 DEF HasSuccessor, Values
      <4> QED
        BY <4>2, <4>3
    <3>2. CASE u \in Values /\ v \in Values
      BY <1>1, <1>8, <2>1, <3>2 DEF ValuesDoNotFork
    <3>3. CASE u = w /\ v \in Values
      BY <1>2, <1>4, <1>8, <2>1, <3>1, <3>3
    <3>4. CASE u \in Values /\ v = w
      BY <1>2, <1>4, <1>8, <2>1, <3>1, <3>4
    <3> QED
      BY <1>2, <3>2, <3>3, <3>4
  <2> QED
    BY <2>1 DEF ValuesDoNotFork, ExperimentOf
<1>13. HeadsAreOne'
  <2>1. ASSUME NEW e \in Experiment, NEW t \in Target, NEW b \in RowsAt(e, t)'
        PROVE  \E h \in AssessmentId : /\ CurrentAssessments(e, t)' = {h}
                                       /\ assessments'[b].version <= assessments'[h].version
    <3>1. CASE ~NeedsVersion(r) \/ <<e, t>> # <<r.experiment, r.target>>
      <4>1. b \in RowsAt(e, t) /\ CurrentAssessments(e, t)' = CurrentAssessments(e, t)
        BY <2>1, <3>1, TargetsAfterRecording
      <4>2. PICK h \in AssessmentId : /\ CurrentAssessments(e, t) = {h}
                                      /\ assessments[b].version <= assessments[h].version
        BY <1>1, <4>1 DEF HeadsAreOne
      <4>3. h \in Assessments /\ b \in Assessments
        BY <4>1, <4>2, CurrentAssessmentsAre DEF RowsAt
      <4> QED
        BY <1>1, <4>1, <4>2, <4>3 DEF Kept
    <3>2. CASE NeedsVersion(r) /\ e = r.experiment /\ t = r.target
      <4>1. RowsAt(e, t)' = RowsAt(e, t) \cup {n} /\ CurrentAssessments(e, t)' = {n}
        BY <3>2, TargetsAfterRecording DEF n
      <4>2. assessments'[n].version \in Nat
        <5>1. a # None => a \in Assessments
          BY <1>7 DEF RowsAt
        <5> QED
          BY <1>3, <1>5, <1>9, <3>2, <5>1
      <4>3. ASSUME b \in RowsAt(e, t) PROVE assessments'[b].version <= assessments'[n].version
        <5>1. a # None /\ a \in Assessments /\ assessments[b].version <= assessments[a].version
          BY <1>7, <3>2, <4>3 DEF RowsAt
        <5>2. assessments'[n].version = assessments[a].version + 1
          BY <1>3, <1>5, <3>2, <5>1
        <5>3. b \in Assessments /\ assessments'[b] = assessments[b]
          BY <1>1, <4>3 DEF RowsAt, Kept
        <5>4. assessments[b].version \in Nat /\ assessments[a].version \in Nat
          BY <1>9, <5>1, <5>3
        <5> QED
          BY <5>1, <5>2, <5>3, <5>4
      <4>4. assessments'[b].version <= assessments'[n].version
        BY <2>1, <4>1, <4>2, <4>3
      <4> QED
        BY <1>2, <4>1, <4>4
    <3> QED
      BY <3>1, <3>2
  <2>2. ASSUME NEW e \in Experiment, NEW t \in Target, NEW p \in Parameter, InCell(e, t, p)' # {}
        PROVE  \E h \in ValueId : CurrentValues(e, t, p)' = {h}
    <3>1. CASE <<e, t, p>> = <<r.experiment, r.target, r.parameter>>
      BY <1>2, <3>1, CellsAfterRecording DEF w
    <3>2. CASE <<e, t, p>> # <<r.experiment, r.target, r.parameter>>
      BY <1>1, <2>2, <3>2, CellsAfterRecording DEF HeadsAreOne
    <3> QED
      BY <3>1, <3>2
  <2> QED
    BY <2>1, <2>2 DEF HeadsAreOne
<1> QED
  BY <1>11, <1>12, <1>13

\* A workbook has one row for a parameter of a target.
LEMMA FileRowIsOne ==
    ASSUME NEW r \in Request, NEW f \in r.rows
    PROVE  /\ f \in FileRows(r, f.target)
           /\ (CHOOSE g \in FileRows(r, f.target) : g.parameter = f.parameter) = f
           /\ (CHOOSE g \in r.rows : g.target = f.target /\ g.parameter = f.parameter) = f
           /\ f.target \in Target /\ f.parameter \in Parameter
           /\ f.status \in ValueStatus /\ f.category \in Category
<1>1. \A g \in r.rows : g.target = f.target /\ g.parameter = f.parameter => g = f
  BY RequestAssumption
<1>2. f \in FileRow
  BY RequestFields
<1>3. f \in FileRows(r, f.target)
  BY DEF FileRows
<1>4. \A g \in FileRows(r, f.target) : g.parameter = f.parameter => g = f
  BY <1>1 DEF FileRows
<1> QED
  BY <1>1, <1>2, <1>3, <1>4 DEF FileRow

\* The rows that an import adds: all of the workbook's, to a blank experiment.
LEMMA RowsImported ==
    ASSUME LineInv, NEW r \in Request, ImportWorkbook(r)
    PROVE  /\ r.op = "IMPORT" /\ r.experiment \in Experiment /\ r.key \in Key
           /\ audit'[r.key] = r
           /\ \A a : a \in Assessments' \ Assessments <=>
                 a \in AssessmentId /\ a[1] = r.key /\ FileRows(r, a[2]) # {}
           /\ \A a \in Assessments' \ Assessments :
                 assessments'[a] = ImportedAssessment(r, a[2])
           /\ \A v : v \in Values' \ Values <=>
                 v \in ValueId /\ v[1] = r.key /\ \E f \in FileRows(r, v[2]) : f.parameter = v[3]
           /\ \A v \in Values' \ Values :
                 /\ values'[v] = [assessment |-> <<v[1], v[2]>>, supersedes |-> None,
                                  status |-> (CHOOSE f \in FileRows(r, v[2]) :
                                                 f.parameter = v[3]).status]
                 /\ <<v[1], v[2]>> \in Assessments' \ Assessments
                 /\ ExperimentOf(v)' = r.experiment
           /\ \A t : RowsAt(r.experiment, t) = {}
           /\ \A t, p : InCell(r.experiment, t, p) = {}
<1>1. /\ r.op = "IMPORT" /\ Commit(r)
      /\ assessments' = [a \in AssessmentId |->
                           IF a[1] = r.key /\ FileRows(r, a[2]) # {}
                           THEN ImportedAssessment(r, a[2]) ELSE assessments[a]]
      /\ values' = [v \in ValueId |->
                      IF v[1] = r.key /\ \E f \in FileRows(r, v[2]) : f.parameter = v[3]
                      THEN [assessment |-> <<v[1], v[2]>>, supersedes |-> None,
                            status |-> (CHOOSE f \in FileRows(r, v[2]) :
                                           f.parameter = v[3]).status]
                      ELSE values[v]]
  BY DEF ImportWorkbook
<1>2. r.experiment \in Experiment /\ r.key \in Key
  BY <1>1, RequestFields
<1>3. TypeOK /\ RowsHaveReceipts /\ ValuesAreLinked
  BY DEF LineInv, ReplayInv, LaneInv
<1>4. audit[r.key] = None /\ audit'[r.key] = r
  BY <1>1, <1>3, ReceiptsStay
<1>5. \A a \in AssessmentId : a[1] = r.key => assessments[a] = None
  BY <1>3, <1>4 DEF RowsHaveReceipts
<1>6. \A v \in ValueId : v[1] = r.key => values[v] = None
  BY <1>3, <1>4 DEF RowsHaveReceipts
<1>7. \A t : ImportedAssessment(r, t) # None /\ ImportedAssessment(r, t).experiment = r.experiment
  BY <1>1, ImportedRow, NoneAssumption
<1>8. \A a : a \in Assessments' \ Assessments <=>
         a \in AssessmentId /\ a[1] = r.key /\ FileRows(r, a[2]) # {}
  BY <1>1, <1>5, <1>7 DEF Assessments
<1>9. \A a \in Assessments' \ Assessments : assessments'[a] = ImportedAssessment(r, a[2])
  BY <1>1, <1>8
<1>10. ASSUME NEW v \in ValueId,
              v[1] = r.key /\ \E f \in FileRows(r, v[2]) : f.parameter = v[3]
       PROVE  values'[v] # None
  <2>1. \E f \in FileRows(r, v[2]) : f.parameter = v[3]
    BY <1>10
  <2>2. (CHOOSE f \in FileRows(r, v[2]) : f.parameter = v[3]) \in FileRow
    BY <2>1, RequestFields DEF FileRows
  <2>3. (CHOOSE f \in FileRows(r, v[2]) : f.parameter = v[3]).status \in ValueStatus
    BY <2>2 DEF FileRow
  <2>4. <<v[1], v[2]>> \in AssessmentId
    BY DEF ValueId, AssessmentId
  <2>5. values'[v] = [assessment |-> <<v[1], v[2]>>, supersedes |-> None,
                      status |-> (CHOOSE f \in FileRows(r, v[2]) : f.parameter = v[3]).status]
    BY <1>1, <1>10
  <2>6. values'[v] \in ValueRow
    BY <2>3, <2>4, <2>5 DEF ValueRow
  <2> QED
    BY <2>6, NoneAssumption
<1>11. \A v : v \in Values' \ Values <=>
          v \in ValueId /\ v[1] = r.key /\ \E f \in FileRows(r, v[2]) : f.parameter = v[3]
  BY <1>1, <1>6, <1>10 DEF Values
<1>12. ASSUME NEW v \in Values' \ Values
       PROVE  /\ values'[v] = [assessment |-> <<v[1], v[2]>>, supersedes |-> None,
                               status |-> (CHOOSE f \in FileRows(r, v[2]) :
                                              f.parameter = v[3]).status]
              /\ <<v[1], v[2]>> \in Assessments' \ Assessments
              /\ ExperimentOf(v)' = r.experiment
  <2>1. v \in ValueId /\ v[1] = r.key /\ \E f \in FileRows(r, v[2]) : f.parameter = v[3]
    BY <1>11
  <2>2. values'[v] = [assessment |-> <<v[1], v[2]>>, supersedes |-> None,
                      status |-> (CHOOSE f \in FileRows(r, v[2]) : f.parameter = v[3]).status]
    BY <1>1, <2>1
  <2>3. /\ <<v[1], v[2]>> \in AssessmentId
        /\ <<v[1], v[2]>>[1] = r.key /\ <<v[1], v[2]>>[2] = v[2]
    BY <2>1 DEF ValueId, AssessmentId
  <2>4. <<v[1], v[2]>> \in Assessments' \ Assessments
    BY <1>8, <2>1, <2>3
  <2>5. assessments'[<<v[1], v[2]>>] = ImportedAssessment(r, v[2])
    BY <1>9, <2>3, <2>4
  <2>6. values'[v].assessment = <<v[1], v[2]>>
    BY <2>2
  <2>7. ExperimentOf(v)' = r.experiment
    BY <1>7, <2>5, <2>6 DEF ExperimentOf
  <2> QED
    BY <2>2, <2>4, <2>7
<1>13. \A a \in Assessments : assessments[a].experiment # r.experiment
  <2>1. ImportRefusal(r) = None
    BY <1>1, Committed DEF Refusal, Transition
  <2>2. ~NonEmpty(r.experiment)
    BY <2>1, NoneAssumption DEF ImportRefusal, AnswerCode
  <2> QED
    BY <2>2 DEF NonEmpty
<1>14. \A t : RowsAt(r.experiment, t) = {}
  BY <1>13 DEF RowsAt
<1>15. \A t, p : InCell(r.experiment, t, p) = {}
  BY <1>3, <1>13 DEF InCell, ExperimentOf, ValuesAreLinked
<1> QED
  BY <1>1, <1>2, <1>4, <1>8, <1>9, <1>11, <1>12, <1>14, <1>15

\* Each is then current; other experiments keep what is current.
LEMMA CellsAfterImport ==
    ASSUME LineInv, NEW r \in Request, ImportWorkbook(r),
           NEW e \in Experiment, NEW t \in Target, NEW p \in Parameter
    PROVE  /\ e = r.experiment =>
                 /\ \A v : v \in InCell(e, t, p)' <=>
                       v = <<r.key, t, p>> /\ \E f \in FileRows(r, t) : f.parameter = p
                 /\ CurrentValues(e, t, p)' = InCell(e, t, p)'
           /\ e # r.experiment =>
                 /\ InCell(e, t, p)' = InCell(e, t, p)
                 /\ CurrentValues(e, t, p)' = CurrentValues(e, t, p)
<1>1. LaneInv /\ Kept /\ ValuesAreAttached /\ ValuesAreLinked
  BY OperationsKeep DEF LineInv, ReplayInv, Operation
<1>2. /\ r.key \in Key
      /\ \A v : v \in Values' \ Values <=>
            v \in ValueId /\ v[1] = r.key /\ \E f \in FileRows(r, v[2]) : f.parameter = v[3]
      /\ InCell(r.experiment, t, p) = {}
  BY RowsImported
<1>3. ASSUME NEW v \in Values' \ Values
      PROVE  values'[v].supersedes = None /\ ExperimentOf(v)' = r.experiment
  <2>1. values'[v] = [assessment |-> <<v[1], v[2]>>, supersedes |-> None,
                      status |-> (CHOOSE f \in FileRows(r, v[2]) : f.parameter = v[3]).status]
    BY RowsImported
  <2> QED
    BY <2>1, RowsImported
<1>4. CASE e # r.experiment
  <2>1. None \notin InCell(e, t, p)
    BY NoneAssumption DEF InCell, Values
  <2> QED
    BY <1>1, <1>3, <1>4, <2>1, QuietCell
<1>5. CASE e = r.experiment
  <2>1. ASSUME NEW v
        PROVE  v \in InCell(e, t, p)' <=>
                  v = <<r.key, t, p>> /\ \E f \in FileRows(r, t) : f.parameter = p
    <3>1. v \in InCell(e, t, p)' <=>
             v \in Values' /\ ExperimentOf(v)' = e /\ v[2] = t /\ v[3] = p
      BY DEF InCell
    <3>2. ASSUME v \in InCell(e, t, p)'
          PROVE  v = <<r.key, t, p>> /\ \E f \in FileRows(r, t) : f.parameter = p
      <4>1. v \notin Values
        BY <1>1, <1>2, <1>5, <3>1, <3>2, PlacesStay DEF InCell
      <4>2. v \in ValueId /\ v[1] = r.key /\ \E f \in FileRows(r, v[2]) : f.parameter = v[3]
        BY <1>2, <3>1, <3>2, <4>1
      <4>3. v = <<v[1], v[2], v[3]>>
        BY <4>2 DEF ValueId
      <4> QED
        BY <3>1, <3>2, <4>2, <4>3
    <3>3. ASSUME v = <<r.key, t, p>>, \E f \in FileRows(r, t) : f.parameter = p
          PROVE  v \in InCell(e, t, p)'
      <4>1. v \in ValueId /\ v[1] = r.key /\ v[2] = t /\ v[3] = p
        BY <1>2, <3>3 DEF ValueId
      <4>2. v \in Values' \ Values
        BY <1>2, <3>3, <4>1
      <4> QED
        BY <1>3, <1>5, <3>1, <4>1, <4>2
    <3> QED
      BY <3>2, <3>3
  <2>2. \A v \in InCell(e, t, p)' : \A u \in Values' : values'[u].supersedes # v
    <3>1. ASSUME NEW v \in InCell(e, t, p)', NEW u \in Values, values'[u].supersedes = v
          PROVE  FALSE
      <4>1. values[u].supersedes = v
        BY <1>1, <3>1 DEF Kept
      <4>2. v \in ValueId
        BY <3>1 DEF InCell, Values
      <4>3. v \in Values
        BY <1>1, <4>1, <4>2, NoneAssumption DEF ValuesAreLinked
      <4>4. v \in InCell(e, t, p)
        BY <1>1, <3>1, <4>3, PlacesStay DEF InCell
      <4> QED
        BY <1>2, <1>5, <4>4
    <3>2. ASSUME NEW v \in InCell(e, t, p)' PROVE v # None
      BY NoneAssumption DEF InCell, Values
    <3> QED
      BY <1>3, <3>1, <3>2
  <2>3. \A v : v \in CurrentValues(e, t, p)' <=> v \in InCell(e, t, p)'
    BY <2>2, CurrentValuesAreThen
  <2> QED
    BY <1>5, <2>1, <2>3
<1> QED
  BY <1>4, <1>5

LEMMA TargetsAfterImport ==
    ASSUME LineInv, NEW r \in Request, ImportWorkbook(r), NEW e \in Experiment, NEW t \in Target
    PROVE  /\ e = r.experiment =>
                 /\ \A a : a \in RowsAt(e, t)' <=> a = <<r.key, t>> /\ FileRows(r, t) # {}
                 /\ CurrentAssessments(e, t)' = RowsAt(e, t)'
           /\ e # r.experiment =>
                 /\ RowsAt(e, t)' = RowsAt(e, t)
                 /\ CurrentAssessments(e, t)' = CurrentAssessments(e, t)
<1>1. LaneInv /\ Kept /\ AssessmentsAreLinked
  BY OperationsKeep DEF LineInv, ReplayInv, Operation
<1>2. /\ r.op = "IMPORT" /\ r.key \in Key
      /\ \A a : a \in Assessments' \ Assessments <=>
            a \in AssessmentId /\ a[1] = r.key /\ FileRows(r, a[2]) # {}
      /\ RowsAt(r.experiment, t) = {}
  BY RowsImported
<1>3. ASSUME NEW a \in Assessments' \ Assessments
      PROVE  assessments'[a].supersedes = None /\ assessments'[a].experiment = r.experiment
  <2>1. assessments'[a] = ImportedAssessment(r, a[2])
    BY RowsImported
  <2>2. ImportedAssessment(r, a[2]).supersedes = None
    BY DEF ImportedAssessment
  <2> QED
    BY <1>2, <2>1, <2>2, ImportedRow
<1>4. CASE e # r.experiment
  <2>1. None \notin RowsAt(e, t)
    BY NoneAssumption DEF RowsAt, Assessments
  <2> QED
    BY <1>1, <1>3, <1>4, <2>1, QuietTarget
<1>5. CASE e = r.experiment
  <2>1. ASSUME NEW a PROVE a \in RowsAt(e, t)' <=> a = <<r.key, t>> /\ FileRows(r, t) # {}
    <3>1. a \in RowsAt(e, t)' <=> a \in Assessments' /\ assessments'[a].experiment = e /\ a[2] = t
      BY DEF RowsAt
    <3>2. ASSUME a \in RowsAt(e, t)' PROVE a = <<r.key, t>> /\ FileRows(r, t) # {}
      <4>1. a \notin Assessments
        BY <1>1, <1>2, <1>5, <3>1, <3>2 DEF RowsAt, Kept
      <4>2. a \in AssessmentId /\ a[1] = r.key /\ FileRows(r, a[2]) # {}
        BY <1>2, <3>1, <3>2, <4>1
      <4>3. a = <<a[1], a[2]>>
        BY <4>2 DEF AssessmentId
      <4> QED
        BY <3>1, <3>2, <4>2, <4>3
    <3>3. ASSUME a = <<r.key, t>>, FileRows(r, t) # {} PROVE a \in RowsAt(e, t)'
      <4>1. a \in AssessmentId /\ a[1] = r.key /\ a[2] = t
        BY <1>2, <3>3 DEF AssessmentId
      <4>2. a \in Assessments' \ Assessments
        BY <1>2, <3>3, <4>1
      <4> QED
        BY <1>3, <1>5, <3>1, <4>1, <4>2
    <3> QED
      BY <3>2, <3>3
  <2>2. \A a \in RowsAt(e, t)' : \A b \in Assessments' : assessments'[b].supersedes # a
    <3>1. ASSUME NEW a \in RowsAt(e, t)', NEW b \in Assessments, assessments'[b].supersedes = a
          PROVE  FALSE
      <4>1. assessments[b].supersedes = a
        BY <1>1, <3>1 DEF Kept
      <4>2. a \in AssessmentId
        BY <3>1 DEF RowsAt, Assessments
      <4>3. a \in Assessments
        BY <1>1, <4>1, <4>2, NoneAssumption DEF AssessmentsAreLinked
      <4>4. a \in RowsAt(e, t)
        BY <1>1, <3>1, <4>3 DEF RowsAt, Kept
      <4> QED
        BY <1>2, <1>5, <4>4
    <3>2. ASSUME NEW a \in RowsAt(e, t)' PROVE a # None
      BY NoneAssumption DEF RowsAt, Assessments
    <3> QED
      BY <1>3, <3>1, <3>2
  <2>3. \A a : a \in CurrentAssessments(e, t)' <=> a \in RowsAt(e, t)'
    BY <2>2, CurrentAssessmentsAreThen
  <2> QED
    BY <1>5, <2>1, <2>3
<1> QED
  BY <1>4, <1>5

LEMMA LinesAfterImport ==
    ASSUME LineInv, NEW r \in Request, ImportWorkbook(r)
    PROVE  /\ VersionsAreOne' /\ AssessmentsAreLinked'
           /\ ValuesAreLinked' /\ ValuesDoNotFork' /\ HeadsAreOne'
<1>1. /\ LaneInv /\ Kept /\ TypeOK /\ ValuesAreAttached /\ HeadsAreOne
      /\ VersionsAreOne /\ AssessmentsAreLinked /\ ValuesAreLinked /\ ValuesDoNotFork
  BY OperationsKeep DEF LineInv, ReplayInv, Operation, LaneInv
<1>2. r.op = "IMPORT" /\ r.experiment \in Experiment /\ r.key \in Key
  BY RowsImported
<1>3. ASSUME NEW a \in Assessments' \ Assessments
      PROVE  /\ assessments'[a].supersedes = None
             /\ assessments'[a].version = 0
             /\ assessments'[a].experiment = r.experiment
             /\ a = <<r.key, a[2]>>
  <2>1. assessments'[a] = ImportedAssessment(r, a[2])
    BY RowsImported
  <2>2. ImportedAssessment(r, a[2]).supersedes = None /\ ImportedAssessment(r, a[2]).version = 0
    BY DEF ImportedAssessment
  <2>3. a \in AssessmentId /\ a[1] = r.key
    BY RowsImported
  <2>4. a = <<a[1], a[2]>>
    BY <2>3 DEF AssessmentId
  <2> QED
    BY <1>2, <2>1, <2>2, <2>3, <2>4, ImportedRow
<1>4. ASSUME NEW v \in Values' \ Values
      PROVE  /\ values'[v].supersedes = None
             /\ values'[v].assessment \in Assessments'
             /\ values'[v].assessment[2] = v[2]
             /\ ExperimentOf(v)' = r.experiment
             /\ v = <<r.key, v[2], v[3]>>
  <2>1. values'[v] = [assessment |-> <<v[1], v[2]>>, supersedes |-> None,
                      status |-> (CHOOSE f \in FileRows(r, v[2]) : f.parameter = v[3]).status]
    BY RowsImported
  <2>2. values'[v].assessment = <<v[1], v[2]>> /\ values'[v].supersedes = None
    BY <2>1
  <2>3. v \in ValueId /\ v[1] = r.key
    BY RowsImported
  <2>4. v = <<v[1], v[2], v[3]>>
    BY <2>3 DEF ValueId
  <2>5. <<v[1], v[2]>> \in Assessments' /\ ExperimentOf(v)' = r.experiment
    BY RowsImported
  <2> QED
    BY <2>2, <2>3, <2>4, <2>5
<1>5. /\ \A a \in Assessments : assessments'[a] = assessments[a] /\ assessments[a].experiment # r.experiment
      /\ \A v \in Values : ExperimentOf(v)' = ExperimentOf(v) /\ ExperimentOf(v) # r.experiment
  <2>1. ASSUME NEW a \in Assessments PROVE assessments[a].experiment # r.experiment
    <3>1. RowsAt(r.experiment, a[2]) = {}
      BY RowsImported
    <3> QED
      BY <3>1 DEF RowsAt
  <2>2. \A v \in Values : ExperimentOf(v) # r.experiment
    BY <1>1, <2>1 DEF ExperimentOf, ValuesAreLinked
  <2> QED
    BY <1>1, <2>1, <2>2, PlacesStay DEF Kept
<1>6. VersionsAreOne'
  BY <1>1, <1>3, <1>5 DEF VersionsAreOne, Kept
<1>7. AssessmentsAreLinked'
  <2>1. ASSUME NEW a \in Assessments'
        PROVE  IF assessments'[a].supersedes = None THEN assessments'[a].version = 0
               ELSE \E c \in Assessments' :
                       /\ c = assessments'[a].supersedes
                       /\ assessments'[c].experiment = assessments'[a].experiment
                       /\ c[2] = a[2]
                       /\ assessments'[a].version = assessments'[c].version + 1
    <3>1. CASE a \in Assessments
      BY <1>1, <3>1 DEF Kept, AssessmentsAreLinked
    <3>2. CASE a \notin Assessments
      BY <1>3, <3>2
    <3> QED
      BY <3>1, <3>2
  <2> QED
    BY <2>1 DEF AssessmentsAreLinked
<1>8. \A v \in Values : /\ values'[v] = values[v]
                        /\ assessments'[values[v].assessment] = assessments[values[v].assessment]
                        /\ values[v].assessment \in Assessments'
  BY <1>1, PlacesStay DEF Kept, ValuesAreAttached
<1>9. ValuesAreLinked'
  <2>1. ASSUME NEW v \in Values, NEW u, u = values[v].supersedes, u # None
        PROVE  /\ u \in Values'
               /\ ExperimentOf(u)' = ExperimentOf(v)' /\ u[2] = v[2] /\ u[3] = v[3]
               /\ assessments'[values'[u].assessment].version
                     <= assessments'[values'[v].assessment].version
    <3>1. /\ u \in Values
          /\ ExperimentOf(u) = ExperimentOf(v) /\ u[2] = v[2] /\ u[3] = v[3]
          /\ assessments[values[u].assessment].version <= assessments[values[v].assessment].version
      BY <1>1, <2>1 DEF ValuesAreLinked
    <3> QED
      BY <1>1, <1>5, <1>8, <3>1 DEF Kept
  <2>2. \A v \in Values : values[v].assessment[2] = v[2]
    BY <1>1 DEF ValuesAreLinked
  <2>3. ASSUME NEW v \in Values'
        PROVE  values'[v].assessment \in Assessments' /\ values'[v].assessment[2] = v[2]
    BY <1>4, <1>8, <2>2
  <2>4. ASSUME NEW v \in Values', NEW u, u = values'[v].supersedes, u # None
        PROVE  /\ u \in Values'
               /\ ExperimentOf(u)' = ExperimentOf(v)' /\ u[2] = v[2] /\ u[3] = v[3]
               /\ assessments'[values'[u].assessment].version
                     <= assessments'[values'[v].assessment].version
    BY <1>4, <1>8, <2>1, <2>4
  <2> QED
    BY <2>3, <2>4 DEF ValuesAreLinked, ExperimentOf
<1>10. ValuesDoNotFork'
  <2>1. ASSUME NEW u \in Values', NEW v \in Values',
               ExperimentOf(u)' = ExperimentOf(v)', u[2] = v[2], u[3] = v[3],
               values'[u].supersedes = values'[v].supersedes
        PROVE  u = v
    <3>1. CASE u \in Values /\ v \in Values
      BY <1>1, <1>5, <1>8, <2>1, <3>1 DEF ValuesDoNotFork
    <3>2. CASE u \notin Values /\ v \notin Values
      BY <1>4, <2>1, <3>2
    <3>3. CASE (u \in Values /\ v \notin Values) \/ (u \notin Values /\ v \in Values)
      BY <1>4, <1>5, <2>1, <3>3
    <3> QED
      BY <3>1, <3>2, <3>3
  <2> QED
    BY <2>1 DEF ValuesDoNotFork, ExperimentOf
<1>11. HeadsAreOne'
  <2>1. ASSUME NEW e \in Experiment, NEW t \in Target, NEW b \in RowsAt(e, t)'
        PROVE  \E h \in AssessmentId : /\ CurrentAssessments(e, t)' = {h}
                                       /\ assessments'[b].version <= assessments'[h].version
    <3>1. CASE e # r.experiment
      <4>1. b \in RowsAt(e, t) /\ CurrentAssessments(e, t)' = CurrentAssessments(e, t)
        BY <2>1, <3>1, TargetsAfterImport
      <4>2. PICK h \in AssessmentId : /\ CurrentAssessments(e, t) = {h}
                                      /\ assessments[b].version <= assessments[h].version
        BY <1>1, <4>1 DEF HeadsAreOne
      <4>3. h \in Assessments /\ b \in Assessments
        BY <4>1, <4>2, CurrentAssessmentsAre DEF RowsAt
      <4> QED
        BY <1>1, <4>1, <4>2, <4>3 DEF Kept
    <3>2. CASE e = r.experiment
      <4>1. /\ \A a : a \in RowsAt(e, t)' <=> a = <<r.key, t>> /\ FileRows(r, t) # {}
            /\ CurrentAssessments(e, t)' = RowsAt(e, t)'
        BY <3>2, TargetsAfterImport
      <4>2. CurrentAssessments(e, t)' = {b}
        BY <2>1, <4>1
      <4>3. b \in Assessments' /\ b \in AssessmentId
        BY <2>1 DEF RowsAt, Assessments
      <4>4. b \notin Assessments
        BY <1>5, <2>1, <3>2 DEF RowsAt
      <4>5. assessments'[b].version = 0
        BY <1>3, <4>3, <4>4
      <4> QED
        BY <4>2, <4>3, <4>5
    <3> QED
      BY <3>1, <3>2
  <2>2. ASSUME NEW e \in Experiment, NEW t \in Target, NEW p \in Parameter, InCell(e, t, p)' # {}
        PROVE  \E h \in ValueId : CurrentValues(e, t, p)' = {h}
    <3>1. CASE e = r.experiment
      <4>1. /\ \A v : v \in InCell(e, t, p)' <=>
                  v = <<r.key, t, p>> /\ \E f \in FileRows(r, t) : f.parameter = p
            /\ CurrentValues(e, t, p)' = InCell(e, t, p)'
        BY <3>1, CellsAfterImport
      <4>2. CurrentValues(e, t, p)' = {<<r.key, t, p>>}
        BY <2>2, <4>1
      <4>3. <<r.key, t, p>> \in ValueId
        BY <1>2 DEF ValueId
      <4> QED
        BY <4>2, <4>3
    <3>2. CASE e # r.experiment
      BY <1>1, <2>2, <3>2, CellsAfterImport DEF HeadsAreOne
    <3> QED
      BY <3>1, <3>2
  <2> QED
    BY <2>1, <2>2 DEF HeadsAreOne
<1> QED
  BY <1>6, <1>7, <1>9, <1>10, <1>11

\* The other operations leave assessments and values alone.
LEMMA RowsOrNot ==
    ASSUME NEW r \in Request, Operation(r), ~RecordValue(r), ~ImportWorkbook(r)
    PROVE  UNCHANGED <<assessments, values>>
  BY DEF Operation, SaveProfile, CreateExperiment, UpdateExperiment, FreezeExperiment,
     ArchiveExperiment, Answer, vars

LEMMA LinesUnchanged ==
    ASSUME LineInv, UNCHANGED <<assessments, values>>
    PROVE  /\ VersionsAreOne' /\ AssessmentsAreLinked'
           /\ ValuesAreLinked' /\ ValuesDoNotFork' /\ HeadsAreOne'
<1>1. Assessments' = Assessments /\ Values' = Values
  BY DEF Assessments, Values
<1>2. VersionsAreOne' /\ AssessmentsAreLinked'
  BY <1>1 DEF LineInv, VersionsAreOne, AssessmentsAreLinked
<1>3. ValuesAreLinked' /\ ValuesDoNotFork'
  BY <1>1 DEF LineInv, ValuesAreLinked, ValuesDoNotFork, ExperimentOf
<1>4. HeadsAreOne'
  BY <1>1 DEF LineInv, HeadsAreOne, RowsAt, InCell, ExperimentOf, CurrentAssessments, CurrentValues,
     HasSuccessor
<1> QED
  BY <1>2, <1>3, <1>4

LEMMA InitialLines == ExperimentsInit => LineInv
<1> SUFFICES ASSUME ExperimentsInit PROVE LineInv
  OBVIOUS
<1>1. Assessments = {} /\ Values = {}
  BY DEF ExperimentsInit, Assessments, Values
<1>2. ValuesAreLinked /\ ValuesDoNotFork /\ VersionsAreOne /\ AssessmentsAreLinked
  BY <1>1 DEF ValuesAreLinked, ValuesDoNotFork, VersionsAreOne, AssessmentsAreLinked
<1>3. HeadsAreOne
  BY <1>1 DEF HeadsAreOne, RowsAt, InCell
<1> QED
  BY <1>2, <1>3, InitialReplays DEF LineInv

LEMMA StepLines == LineInv /\ [ExperimentsNext]_vars => LineInv'
<1> SUFFICES ASSUME LineInv, [ExperimentsNext]_vars PROVE LineInv'
  OBVIOUS
<1>1. ReplayInv'
  BY StepReplays DEF LineInv
<1>2. ASSUME NEW r \in Request, Operation(r) PROVE LineInv'
  <2>1. CASE RecordValue(r)
    BY <1>1, <2>1, AssessmentsAfterRecording, ValuesAfterRecording DEF LineInv
  <2>2. CASE ImportWorkbook(r)
    BY <1>1, <2>2, LinesAfterImport DEF LineInv
  <2>3. CASE UNCHANGED <<assessments, values>>
    BY <1>1, <2>3, LinesUnchanged DEF LineInv
  <2> QED
    BY <1>2, <2>1, <2>2, <2>3, RowsOrNot
<1>3. CASE UNCHANGED <<assessments, values>>
  BY <1>1, <1>3, LinesUnchanged DEF LineInv
<1> QED
  BY <1>2, <1>3 DEF ExperimentsNext, ChangeScope, vars

(* The rows of an experiment have one expert of its lane, one line of values *)
(* in every cell, and one line of assessments: a correction or an import     *)
(* never forks a line, jumps to another cell or falls back to an older       *)
(* version.                                                                  *)
THEOREM LinesNeverFork == ExperimentsSpec => []OneLine
<1>1. LineInv => OneLine
  BY PartsOfOneLine DEF LineInv
<1> QED
  BY <1>1, InitialLines, StepLines, PTL DEF ExperimentsSpec

-----------------------------------------------------------------------------
(* Receipts of values, and summaries of them.                              *)

\* Both ways of finding a workbook's row for a cell find the same.
RowFor(r, t, p) == CHOOSE f \in FileRows(r, t) : f.parameter = p
RowIn(r, t, p) == CHOOSE f \in r.rows : f.target = t /\ f.parameter = p

LEMMA RowForCell ==
    ASSUME NEW r \in Request, NEW t, NEW p, \E f \in FileRows(r, t) : f.parameter = p
    PROVE  /\ RowFor(r, t, p) \in r.rows
           /\ RowFor(r, t, p).target = t
           /\ RowFor(r, t, p).parameter = p
           /\ RowIn(r, t, p) = RowFor(r, t, p)
           /\ \A f \in FileRows(r, t) : f.parameter = p => f = RowFor(r, t, p)
<1>1. RowFor(r, t, p) \in FileRows(r, t) /\ RowFor(r, t, p).parameter = p
  BY DEF RowFor
<1>2. RowFor(r, t, p) \in r.rows /\ RowFor(r, t, p).target = t
  BY <1>1 DEF FileRows
<1>3. /\ RowIn(r, t, p) \in r.rows
      /\ RowIn(r, t, p).target = t
      /\ RowIn(r, t, p).parameter = p
  BY <1>1, <1>2 DEF RowIn
<1>4. \A f \in r.rows : f.target = t /\ f.parameter = p => f = RowFor(r, t, p)
  BY <1>1, <1>2, RequestAssumption
<1>5. \A f \in FileRows(r, t) : f.parameter = p => f = RowFor(r, t, p)
  BY <1>4 DEF FileRows
<1> QED
  BY <1>1, <1>2, <1>3, <1>4, <1>5

\* What was submitted for a value stays known.
LEMMA SubmittedStays ==
    ASSUME LaneInv, Kept, NEW v \in Values
    PROVE  /\ audit[v[1]] # None
           /\ audit'[v[1]] = audit[v[1]]
           /\ Submitted(v)' = Submitted(v)
<1>1. v \in ValueId /\ v[1] \in Key /\ values[v] # None
  BY DEF Values, ValueId
<1>2. audit[v[1]] # None
  BY <1>1 DEF LaneInv, RowsHaveReceipts
<1>3. audit'[v[1]] = audit[v[1]]
  BY <1>1, <1>2 DEF Kept
<1> QED
  BY <1>2, <1>3 DEF Submitted

\* A value answers the entry or the import row that its key is bound to.
Answers(v) ==
    LET r == audit[v[1]]
    IN  /\ r # None
        /\ r.experiment = ExperimentOf(v)
        /\ \/ r.op = "VALUE" /\ r.target = v[2] /\ r.parameter = v[3]
           \/ r.op = "IMPORT" /\ \E f \in r.rows : f.target = v[2] /\ f.parameter = v[3]
        /\ values[v].status = Submitted(v).status

ValuesAnswer == \A v \in Values : Answers(v)

\* What an entry or an import asked for is there.
EntriesHaveRows ==
    \A k \in Key :
        /\ audit[k] # None /\ audit[k].op = "VALUE" =>
              <<k, audit[k].target, audit[k].parameter>> \in Values
        /\ audit[k] # None /\ audit[k].op = "IMPORT" =>
              \A f \in audit[k].rows : <<k, f.target, f.parameter>> \in Values

LEMMA PartsOfReceipts ==
    ReplayInv /\ ValuesAnswer /\ EntriesHaveRows => ReceiptsAreExact
<1> SUFFICES ASSUME ReplayInv, ValuesAnswer, EntriesHaveRows PROVE ReceiptsAreExact
  OBVIOUS
<1>1. ASSUME NEW k \in Key
      PROVE  runs[k] = IF audit[k] # None /\ audit[k].op = "IMPORT" THEN audit[k] ELSE None
  <2>1. CASE audit[k] = None
    BY <2>1 DEF ReplayInv, LaneInv, RowsHaveReceipts
  <2>2. CASE audit[k] # None
    <3>1. audit[k] \in Request
      BY <2>2 DEF ReplayInv, LaneInv, TypeOK
    <3> QED
      BY <2>2, <3>1 DEF ReplayInv, ReceiptsAreGrounded
  <2> QED
    BY <2>1, <2>2
<1> QED
  BY <1>1 DEF ValuesAnswer, Answers, EntriesHaveRows, ReceiptsAreExact

\* A value that is there keeps its answer.
LEMMA AnswerStays ==
    ASSUME LaneInv, ValuesAreAttached, Kept, NEW v \in Values, Answers(v)
    PROVE  Answers(v)'
<1>1. /\ audit'[v[1]] = audit[v[1]]
      /\ Submitted(v)' = Submitted(v)
  BY SubmittedStays
<1>2. ExperimentOf(v)' = ExperimentOf(v) /\ values'[v] = values[v]
  BY PlacesStay DEF Kept
<1> QED
  BY <1>1, <1>2 DEF Answers

\* The entry whose value it is, or the row of the import.
LEMMA SubmittedByEntry ==
    ASSUME LineInv, NEW r \in Request, RecordValue(r)
    PROVE  Submitted(<<r.key, r.target, r.parameter>>)' = r
<1>1. r.op = "VALUE" /\ audit'[r.key] = r
  BY RowsRecorded DEF LineInv, ReplayInv
<1> QED
  BY <1>1 DEF Submitted

LEMMA SubmittedByImport ==
    ASSUME LineInv, NEW r \in Request, ImportWorkbook(r), NEW v \in Values' \ Values
    PROVE  /\ Submitted(v)' = RowFor(r, v[2], v[3])
           /\ Submitted(v)' \in r.rows
           /\ Submitted(v)'.target = v[2]
           /\ Submitted(v)'.parameter = v[3]
<1>1. r.op = "IMPORT" /\ audit'[r.key] = r
  BY RowsImported
<1>2. v[1] = r.key /\ \E f \in FileRows(r, v[2]) : f.parameter = v[3]
  BY RowsImported
<1>3. Submitted(v)' = RowIn(r, v[2], v[3])
  BY <1>1, <1>2 DEF Submitted, RowIn
<1> QED
  BY <1>2, <1>3, RowForCell

LEMMA KeepsAnswers ==
    ASSUME LineInv, ValuesAnswer, EntriesHaveRows, NEW r \in Request, Operation(r)
    PROVE  ValuesAnswer' /\ EntriesHaveRows'
<1>1. LaneInv /\ ValuesAreAttached /\ Kept /\ TypeOK
  BY OperationsKeep DEF LineInv, ReplayInv, LaneInv
<1>2. \A v \in Values : Answers(v)'
  BY <1>1, AnswerStays DEF ValuesAnswer
<1>3. ASSUME NEW k \in Key, audit[k] # None
      PROVE  /\ audit'[k].op = "VALUE" => <<k, audit'[k].target, audit'[k].parameter>> \in Values'
             /\ audit'[k].op = "IMPORT" =>
                   \A f \in audit'[k].rows : <<k, f.target, f.parameter>> \in Values'
  <2>1. audit'[k] = audit[k] /\ Values \subseteq Values'
    BY <1>1, <1>3 DEF Kept
  <2> QED
    BY <1>3, <2>1 DEF EntriesHaveRows
<1>4. ASSUME NEW k \in Key, audit[k] = None, audit'[k] # None
      PROVE  Commit(r) /\ k = r.key /\ audit'[k] = r
  <2>1. Commit(r)
    BY <1>4 DEF Operation, SaveProfile, CreateExperiment,
       UpdateExperiment, FreezeExperiment, ArchiveExperiment, RecordValue, ImportWorkbook,
       Answer, vars
  <2> QED
    BY <1>1, <1>4, <2>1, ReceiptsStay
<1>5. CASE RecordValue(r)
  <2> DEFINE w == <<r.key, r.target, r.parameter>>
  <2>1. /\ r.op = "VALUE" /\ audit'[r.key] = r
        /\ Values' = Values \cup {w}
        /\ ExperimentOf(w)' = r.experiment
    BY <1>1, <1>5, RowsRecorded
  <2>2. values'[w].status = r.status
    <3>1. values'[w] = [assessment |-> AttachedTo(r), supersedes |-> r.supersedes,
                        status |-> r.status]
      BY <1>1, <1>5, RowsRecorded
    <3> QED
      BY <3>1
  <2>3. r # None
    BY NoneAssumption
  <2>4. Answers(w)'
    BY <1>5, <2>1, <2>2, <2>3, SubmittedByEntry DEF Answers
  <2>5. ValuesAnswer'
    <3> HIDE DEF w
    <3> QED
      BY <1>2, <2>1, <2>4 DEF ValuesAnswer
  <2>6. EntriesHaveRows'
    BY <1>3, <1>4, <2>1 DEF EntriesHaveRows
  <2> QED
    BY <2>5, <2>6
<1>6. CASE ImportWorkbook(r)
  <2>1. r.op = "IMPORT" /\ audit'[r.key] = r /\ r # None
    BY <1>6, RowsImported, NoneAssumption
  <2>2. ASSUME NEW v \in Values' \ Values PROVE Answers(v)'
    <3>1. /\ Submitted(v)' = RowFor(r, v[2], v[3])
          /\ Submitted(v)' \in r.rows
          /\ Submitted(v)'.target = v[2]
          /\ Submitted(v)'.parameter = v[3]
      BY <1>6, SubmittedByImport
    <3>2. values'[v] = [assessment |-> <<v[1], v[2]>>, supersedes |-> None,
                        status |-> (CHOOSE f \in FileRows(r, v[2]) : f.parameter = v[3]).status]
      BY <1>6, RowsImported
    <3>3. v[1] = r.key /\ ExperimentOf(v)' = r.experiment
      <4>1. v[1] = r.key
        <5>1. \A u \in Values' \ Values : u \in ValueId /\ u[1] = r.key
          BY <1>6, RowsImported
        <5> QED
          BY <5>1
      <4>2. ExperimentOf(v)' = r.experiment
        BY <1>6, RowsImported, Zenon
      <4> QED
        BY <4>1, <4>2
    <3>4. values'[v].status = Submitted(v)'.status
      BY <3>1, <3>2 DEF RowFor
    <3> QED
      BY <2>1, <3>1, <3>3, <3>4 DEF Answers
  <2>3. ASSUME NEW f \in r.rows PROVE <<r.key, f.target, f.parameter>> \in Values'
    <3>1. f.target \in Target /\ f.parameter \in Parameter /\ f \in FileRows(r, f.target)
      BY FileRowIsOne
    <3>2. <<r.key, f.target, f.parameter>> \in ValueId
      BY <1>6, <3>1, RowsImported DEF ValueId
    <3> QED
      BY <1>6, <3>1, <3>2, RowsImported
  <2>4. EntriesHaveRows'
    BY <1>3, <1>4, <2>1, <2>3 DEF EntriesHaveRows
  <2> QED
    BY <1>2, <2>2, <2>4 DEF ValuesAnswer
<1>7. CASE ~RecordValue(r) /\ ~ImportWorkbook(r)
  <2>1. Values' = Values
    BY <1>7, RowsOrNot DEF Values
  <2>2. audit'[r.key] = r => r.op \notin {"VALUE", "IMPORT"} \/ ~Commit(r)
    BY <1>7 DEF Operation, SaveProfile, CreateExperiment, UpdateExperiment, FreezeExperiment,
       ArchiveExperiment, Answer, Commit
  <2>3. EntriesHaveRows'
    BY <1>3, <1>4, <2>2 DEF EntriesHaveRows
  <2> QED
    BY <1>2, <2>1, <2>3 DEF ValuesAnswer
<1> QED
  BY <1>5, <1>6, <1>7

\* The summary in the assessment a of what is current for target t.
Sums(e, t, a) ==
    /\ \A p \in Parameter :
          /\ CurrentValues(e, t, p) = {} => assessments[a].confidence[p] = "UNKNOWN"
          /\ \A v \in CurrentValues(e, t, p) :
                assessments[a].confidence[p] = Submitted(v).category
    /\ (assessments[a].status = "PROVISIONAL") <=>
          \E p \in Parameter : \E v \in CurrentValues(e, t, p) : values[v].status = "PROVISIONAL"

Shows(v) == assessments[values[v].assessment].confidence[v[3]] = Submitted(v).category

LEMMA PartsOfSummary ==
    SummaryIsCurrent <=>
       /\ \A e \in Experiment, t \in Target : \A a \in CurrentAssessments(e, t) : Sums(e, t, a)
       /\ \A v \in Values : Shows(v)
  BY DEF SummaryIsCurrent, Sums, Shows

\* A value that is there keeps showing what was submitted.
LEMMA ShowsStays ==
    ASSUME LaneInv, ValuesAreAttached, Kept, NEW v \in Values, Shows(v)
    PROVE  Shows(v)'
<1>1. Submitted(v)' = Submitted(v)
  BY SubmittedStays
<1>2. assessments'[values'[v].assessment] = assessments[values[v].assessment]
  BY PlacesStay
<1> QED
  BY <1>1, <1>2 DEF Shows

\* A target whose current rows stay keeps its summary.
LEMMA SumsStay ==
    ASSUME LaneInv, Kept, NEW e \in Experiment, NEW t \in Target,
           NEW a \in CurrentAssessments(e, t), Sums(e, t, a),
           \A p \in Parameter : CurrentValues(e, t, p)' = CurrentValues(e, t, p)
    PROVE  Sums(e, t, a)'
<1>1. assessments'[a] = assessments[a]
  BY CurrentAssessmentsAre DEF RowsAt, Kept
<1>2. \A p \in Parameter : CurrentValues(e, t, p) \subseteq Values
  BY CurrentValuesAre DEF InCell
<1>3. \A v \in Values : Submitted(v)' = Submitted(v) /\ values'[v] = values[v]
  BY SubmittedStays DEF Kept
<1> HIDE DEF Sums
<1>4. ASSUME NEW p \in Parameter
      PROVE  /\ CurrentValues(e, t, p)' = {} => assessments'[a].confidence[p] = "UNKNOWN"
             /\ \A v \in CurrentValues(e, t, p)' :
                   assessments'[a].confidence[p] = Submitted(v)'.category
  BY <1>1, <1>2, <1>3 DEF Sums
<1>5. (assessments'[a].status = "PROVISIONAL") <=>
         \E p \in Parameter : \E v \in CurrentValues(e, t, p)' : values'[v].status = "PROVISIONAL"
  BY <1>1, <1>2, <1>3 DEF Sums
<1> QED
  BY <1>4, <1>5 DEF Sums

\* The assessment that a manual value is attached to is current and has the
\* patched summary, whether it got a version of its own or needed none.
LEMMA HeadAfterRecording ==
    ASSUME LineInv, NEW r \in Request, RecordValue(r)
    PROVE  /\ CurrentAssessments(r.experiment, r.target)' = {AttachedTo(r)}
           /\ assessments'[AttachedTo(r)].confidence = NewAssessment(r).confidence
           /\ assessments'[AttachedTo(r)].status = NewAssessment(r).status
<1> DEFINE a == CurrentAssessment(r.experiment, r.target)
<1>1. LaneInv /\ TypeOK
  BY DEF LineInv, ReplayInv, LaneInv
<1>2. /\ r.op = "VALUE" /\ r.experiment \in Experiment /\ r.target \in Target
      /\ NeedsVersion(r) => /\ assessments'[<<r.key, r.target>>] = NewAssessment(r)
                            /\ AttachedTo(r) = <<r.key, r.target>>
      /\ ~NeedsVersion(r) => assessments' = assessments /\ AttachedTo(r) = a
  BY <1>1, RowsRecorded
<1>3. CASE NeedsVersion(r)
  BY <1>2, <1>3, TargetsAfterRecording
<1>4. CASE ~NeedsVersion(r)
  <2>1. /\ a # None
        /\ NextAssessment(r).confidence = assessments[a].confidence
        /\ NextAssessment(r).status = assessments[a].status
    BY <1>4 DEF NeedsVersion
  <2>2. NewAssessment(r) = NextAssessment(r)
    BY <2>1 DEF NewAssessment
  <2>3. CurrentAssessments(r.experiment, r.target)' = CurrentAssessments(r.experiment, r.target)
    BY <1>2, <1>4, TargetsAfterRecording
  <2>4. CurrentAssessments(r.experiment, r.target) = {a}
    BY <1>2, <2>1, TheHead
  <2> QED
    BY <1>2, <1>4, <2>1, <2>2, <2>3, <2>4
<1> QED
  BY <1>3, <1>4

LEMMA SumsAfterRecording ==
    ASSUME LineInv, SummaryIsCurrent, NEW r \in Request, RecordValue(r),
           NEW b, b = AttachedTo(r)
    PROVE  Sums(r.experiment, r.target, b)'
<1> DEFINE e == r.experiment
           t == r.target
           a == CurrentAssessment(e, t)
           w == <<r.key, r.target, r.parameter>>
           conf == NewAssessment(r).confidence
           stat == NewAssessment(r).status
<1>1. LaneInv /\ Kept /\ TypeOK /\ ValuesAreLinked
  BY OperationsKeep DEF LineInv, ReplayInv, Operation, LaneInv
<1>2. /\ r.op = "VALUE" /\ r.experiment \in Experiment
      /\ r.target \in Target /\ r.parameter \in Parameter
  BY <1>1, RowsRecorded
<1>3. values'[w].status = r.status
  <2>1. values'[w] = [assessment |-> AttachedTo(r), supersedes |-> r.supersedes,
                      status |-> r.status]
    BY <1>1, RowsRecorded
  <2> QED
    BY <2>1
<1>4. /\ stat = IF a = None THEN r.status ELSE IF Numeric(r) THEN "PROVISIONAL" ELSE "UNKNOWN"
      /\ \A q \in Parameter :
            conf[q] = IF q = r.parameter THEN r.category
                      ELSE IF a = None THEN "UNKNOWN" ELSE assessments[a].confidence[q]
  BY <1>1, <1>2, NewRowFields
<1>5. /\ CurrentValues(e, t, r.parameter)' = {w}
      /\ \A q \in Parameter \ {r.parameter} : CurrentValues(e, t, q)' = CurrentValues(e, t, q)
  BY <1>2, CellsAfterRecording
<1>6. Submitted(w)' = r
  BY SubmittedByEntry
<1>7. \A q \in Parameter : \A v \in CurrentValues(e, t, q) :
         /\ v \in Values
         /\ values[v].assessment \in RowsAt(e, t)
         /\ Submitted(v)' = Submitted(v)
         /\ values'[v] = values[v]
  <2>1. ASSUME NEW q \in Parameter, NEW v \in CurrentValues(e, t, q)
        PROVE  v \in InCell(e, t, q)
    BY <1>2, CurrentValuesAre
  <2> QED
    BY <1>1, <2>1, SubmittedStays DEF InCell, RowsAt, ExperimentOf, ValuesAreLinked, Kept
<1>8. a = None => \A q \in Parameter : CurrentValues(e, t, q) = {}
  BY <1>2, <1>7, TheHead
<1>9. a # None => Sums(e, t, a)
  <2>1. ASSUME a # None PROVE a \in CurrentAssessments(e, t)
    BY <1>2, <2>1, TheHead
  <2> QED
    BY <1>2, <2>1, PartsOfSummary
<1>10. Numeric(r) <=>
          \/ r.status = "PROVISIONAL"
          \/ \E q \in Parameter \ {r.parameter} :
                \E v \in CurrentValues(e, t, q) : values[v].status = "PROVISIONAL"
  BY DEF Numeric
<1> HIDE DEF a, w, conf, stat
<1>11. ASSUME NEW q \in Parameter
       PROVE  /\ CurrentValues(e, t, q)' = {} => conf[q] = "UNKNOWN"
              /\ \A v \in CurrentValues(e, t, q)' : conf[q] = Submitted(v)'.category
  <2>1. CASE q = r.parameter
    BY <1>2, <1>4, <1>5, <1>6, <2>1
  <2>2. CASE q # r.parameter /\ a = None
    BY <1>4, <1>5, <1>8, <2>2
  <2>3. CASE q # r.parameter /\ a # None
    <3>1. /\ CurrentValues(e, t, q) = {} => assessments[a].confidence[q] = "UNKNOWN"
          /\ \A v \in CurrentValues(e, t, q) :
                assessments[a].confidence[q] = Submitted(v).category
      BY <1>9, <2>3 DEF Sums
    <3> QED
      BY <1>4, <1>5, <1>7, <2>3, <3>1
  <2> QED
    BY <2>1, <2>2, <2>3
<1>12. (stat = "PROVISIONAL") <=>
          \E q \in Parameter : \E v \in CurrentValues(e, t, q)' : values'[v].status = "PROVISIONAL"
  <2>1. (\E q \in Parameter : \E v \in CurrentValues(e, t, q)' : values'[v].status = "PROVISIONAL")
        <=> \/ r.status = "PROVISIONAL"
            \/ \E q \in Parameter \ {r.parameter} :
                  \E v \in CurrentValues(e, t, q) : values[v].status = "PROVISIONAL"
    BY <1>2, <1>3, <1>5, <1>7
  <2>2. CASE a = None
    BY <1>4, <1>8, <2>1, <2>2
  <2>3. CASE a # None
    BY <1>4, <1>10, <2>1, <2>3
  <2> QED
    BY <2>2, <2>3
<1>13. assessments'[b].confidence = conf /\ assessments'[b].status = stat
  BY HeadAfterRecording DEF conf, stat
<1> QED
  BY <1>11, <1>12, <1>13 DEF Sums

\* An imported assessment sums up the rows of its workbook.
LEMMA ImportedFields ==
    ASSUME NEW r \in Request, NEW t
    PROVE  /\ \A p \in Parameter :
                 ImportedAssessment(r, t).confidence[p] =
                    IF \E f \in FileRows(r, t) : f.parameter = p
                    THEN RowFor(r, t, p).category ELSE "UNKNOWN"
           /\ ImportedAssessment(r, t).status = "PROVISIONAL" <=>
                 \E f \in FileRows(r, t) : f.status = "PROVISIONAL"
  BY DEF ImportedAssessment, RowFor

LEMMA SumsAfterImport ==
    ASSUME LineInv, NEW r \in Request, ImportWorkbook(r), NEW t \in Target,
           FileRows(r, t) # {}
    PROVE  Sums(r.experiment, t, <<r.key, t>>)'
<1> DEFINE e == r.experiment
           a == <<r.key, t>>
           row == ImportedAssessment(r, t)
<1>1. e \in Experiment /\ r.key \in Key
  BY RowsImported
<1>2. assessments'[a] = row
  <2>1. a \in AssessmentId /\ a[1] = r.key /\ a[2] = t
    BY <1>1 DEF AssessmentId
  <2>2. a \in Assessments' \ Assessments
    BY <2>1, RowsImported
  <2> QED
    BY <2>1, <2>2, RowsImported
<1>3. ASSUME NEW p \in Parameter
      PROVE  \A v : v \in CurrentValues(e, t, p)' <=>
                v = <<r.key, t, p>> /\ \E f \in FileRows(r, t) : f.parameter = p
  BY <1>1, CellsAfterImport
<1>4. ASSUME NEW p \in Parameter, \E f \in FileRows(r, t) : f.parameter = p
      PROVE  /\ Submitted(<<r.key, t, p>>)' = RowFor(r, t, p)
             /\ values'[<<r.key, t, p>>].status = RowFor(r, t, p).status
  <2> DEFINE v == <<r.key, t, p>>
  <2>1. v \in ValueId /\ v[1] = r.key /\ v[2] = t /\ v[3] = p
    BY <1>1 DEF ValueId
  <2>2. v \in Values' \ Values
    BY <1>4, <2>1, RowsImported
  <2>3. values'[v] = [assessment |-> <<v[1], v[2]>>, supersedes |-> None,
                      status |-> (CHOOSE f \in FileRows(r, v[2]) : f.parameter = v[3]).status]
    BY <2>2, RowsImported
  <2>4. values'[v].status = RowFor(r, v[2], v[3]).status
    BY <2>3 DEF RowFor
  <2>5. Submitted(v)' = RowFor(r, v[2], v[3])
    BY <2>2, SubmittedByImport
  <2> QED
    BY <2>1, <2>4, <2>5
<1> HIDE DEF e, a, row
<1>5. ASSUME NEW p \in Parameter
      PROVE  /\ CurrentValues(e, t, p)' = {} => row.confidence[p] = "UNKNOWN"
             /\ \A v \in CurrentValues(e, t, p)' : row.confidence[p] = Submitted(v)'.category
  <2>1. row.confidence[p] = IF \E f \in FileRows(r, t) : f.parameter = p
                            THEN RowFor(r, t, p).category ELSE "UNKNOWN"
    BY ImportedFields DEF row
  <2>2. CASE \E f \in FileRows(r, t) : f.parameter = p
    <3>1. Submitted(<<r.key, t, p>>)' = RowFor(r, t, p)
      BY <1>4, <2>2
    <3>2. row.confidence[p] = RowFor(r, t, p).category
      BY <2>1, <2>2
    <3>3. <<r.key, t, p>> \in CurrentValues(e, t, p)'
      BY <1>3, <2>2
    <3>4. ASSUME NEW v \in CurrentValues(e, t, p)'
          PROVE  row.confidence[p] = Submitted(v)'.category
      <4>1. v = <<r.key, t, p>>
        BY <1>3, <3>4
      <4>2. Submitted(v)' = RowFor(r, t, p)
        BY <3>1, <4>1
      <4> QED
        BY <3>2, <4>2
    <3> QED
      BY <3>3, <3>4
  <2>3. CASE ~\E f \in FileRows(r, t) : f.parameter = p
    <3>1. row.confidence[p] = "UNKNOWN"
      BY <2>1, <2>3
    <3>2. \A v : v \notin CurrentValues(e, t, p)'
      BY <1>3, <2>3
    <3> QED
      BY <3>1, <3>2
  <2> QED
    BY <2>2, <2>3
<1>6. row.status = "PROVISIONAL" <=>
         \E p \in Parameter : \E v \in CurrentValues(e, t, p)' : values'[v].status = "PROVISIONAL"
  <2>1. row.status = "PROVISIONAL" <=> \E f \in FileRows(r, t) : f.status = "PROVISIONAL"
    BY ImportedFields DEF row
  <2>2. ASSUME NEW f \in FileRows(r, t), f.status = "PROVISIONAL"
        PROVE  \E p \in Parameter : \E v \in CurrentValues(e, t, p)' :
                  values'[v].status = "PROVISIONAL"
    <3>1. f.parameter \in Parameter
      BY FileRowIsOne DEF FileRows
    <3>2. f = RowFor(r, t, f.parameter)
      BY RowForCell
    <3>3. values'[<<r.key, t, f.parameter>>].status = "PROVISIONAL"
      BY <1>4, <2>2, <3>1, <3>2
    <3>4. <<r.key, t, f.parameter>> \in CurrentValues(e, t, f.parameter)'
      BY <1>3, <3>1
    <3> QED
      BY <3>1, <3>3, <3>4
  <2>3. ASSUME NEW p \in Parameter, NEW v \in CurrentValues(e, t, p)',
               values'[v].status = "PROVISIONAL"
        PROVE  \E f \in FileRows(r, t) : f.status = "PROVISIONAL"
    <3>1. v = <<r.key, t, p>> /\ \E f \in FileRows(r, t) : f.parameter = p
      BY <1>3
    <3>2. RowFor(r, t, p).status = "PROVISIONAL"
      BY <1>4, <2>3, <3>1
    <3>3. RowFor(r, t, p) \in FileRows(r, t)
      BY <3>1, RowForCell DEF FileRows
    <3> QED
      BY <3>2, <3>3
  <2> QED
    BY <2>1, <2>2, <2>3
<1> QED
  BY <1>2, <1>5, <1>6 DEF Sums, e, a

\* Every operation keeps the summaries.
LEMMA KeepsSummaries ==
    ASSUME LineInv, SummaryIsCurrent, NEW r \in Request, Operation(r)
    PROVE  SummaryIsCurrent'
<1>1. LaneInv /\ ValuesAreAttached /\ ValuesAreLinked /\ Kept /\ TypeOK
  BY OperationsKeep DEF LineInv, ReplayInv, LaneInv
<1>2. \A v \in Values : Shows(v)'
  BY <1>1, ShowsStays, PartsOfSummary
<1>3. \A e \in Experiment, t \in Target : \A a \in CurrentAssessments(e, t) : Sums(e, t, a)
  BY PartsOfSummary
<1>4. CASE RecordValue(r)
  <2> DEFINE w == <<r.key, r.target, r.parameter>>
  <2>1. /\ r.op = "VALUE" /\ r.experiment \in Experiment
        /\ r.target \in Target /\ r.parameter \in Parameter
        /\ Values' = Values \cup {w}
        /\ w[3] = r.parameter
    BY <1>1, <1>4, RowsRecorded
  <2>2. Shows(w)'
    <3>1. values'[w].assessment = AttachedTo(r)
      <4>1. values'[w] = [assessment |-> AttachedTo(r), supersedes |-> r.supersedes,
                          status |-> r.status]
        BY <1>1, <1>4, RowsRecorded
      <4> QED
        BY <4>1
    <3>2. assessments'[AttachedTo(r)].confidence[r.parameter] = r.category
      BY <1>1, <1>4, <2>1, HeadAfterRecording, NewRowFields
    <3>3. Submitted(w)' = r
      BY <1>4, SubmittedByEntry
    <3> QED
      BY <2>1, <3>1, <3>2, <3>3 DEF Shows
  <2>3. ASSUME NEW e \in Experiment, NEW t \in Target, NEW a \in CurrentAssessments(e, t)'
        PROVE  Sums(e, t, a)'
    <3>1. CASE e = r.experiment /\ t = r.target
      <4>1. a = AttachedTo(r)
        BY <1>4, <2>3, <3>1, HeadAfterRecording
      <4>2. Sums(r.experiment, r.target, a)'
        BY <1>4, <4>1, SumsAfterRecording
      <4> QED
        BY <3>1, <4>2
    <3>2. CASE <<e, t>> # <<r.experiment, r.target>>
      <4>1. CurrentAssessments(e, t)' = CurrentAssessments(e, t)
        BY <1>4, <3>2, TargetsAfterRecording
      <4>2. \A p \in Parameter : CurrentValues(e, t, p)' = CurrentValues(e, t, p)
        BY <1>4, <3>2, CellsAfterRecording
      <4> QED
        BY <1>1, <1>3, <2>3, <4>1, <4>2, SumsStay
    <3> QED
      BY <3>1, <3>2
  <2> HIDE DEF w
  <2>4. \A v \in Values' : Shows(v)'
    BY <1>2, <2>1, <2>2
  <2> QED
    BY <2>3, <2>4 DEF SummaryIsCurrent, Sums, Shows
<1>5. CASE ImportWorkbook(r)
  <2>1. ASSUME NEW v \in Values' \ Values PROVE Shows(v)'
    <3>1. v \in ValueId /\ v[1] = r.key /\ \E f \in FileRows(r, v[2]) : f.parameter = v[3]
      BY <1>5, RowsImported
    <3>2. values'[v] = [assessment |-> <<v[1], v[2]>>, supersedes |-> None,
                        status |-> (CHOOSE f \in FileRows(r, v[2]) : f.parameter = v[3]).status]
      BY <1>5, RowsImported
    <3>3. values'[v].assessment = <<v[1], v[2]>>
      BY <3>2
    <3>4. <<v[1], v[2]>> \in Assessments' \ Assessments
      BY <1>5, RowsImported
    <3>5. assessments'[<<v[1], v[2]>>] = ImportedAssessment(r, v[2])
      BY <1>5, <3>4, RowsImported
    <3>6. v[3] \in Parameter
      BY <3>1 DEF ValueId
    <3>7. ImportedAssessment(r, v[2]).confidence[v[3]] = RowFor(r, v[2], v[3]).category
      BY <3>1, <3>6, ImportedFields
    <3>8. Submitted(v)' = RowFor(r, v[2], v[3])
      BY <1>5, SubmittedByImport
    <3> QED
      BY <3>3, <3>5, <3>7, <3>8 DEF Shows
  <2>2. ASSUME NEW e \in Experiment, NEW t \in Target, NEW a \in CurrentAssessments(e, t)'
        PROVE  Sums(e, t, a)'
    <3>1. CASE e = r.experiment
      <4>1. a = <<r.key, t>> /\ FileRows(r, t) # {}
        BY <1>5, <2>2, <3>1, TargetsAfterImport
      <4>2. Sums(r.experiment, t, <<r.key, t>>)'
        BY <1>5, <4>1, SumsAfterImport
      <4> QED
        BY <3>1, <4>1, <4>2
    <3>2. CASE e # r.experiment
      <4>1. CurrentAssessments(e, t)' = CurrentAssessments(e, t)
        BY <1>5, <3>2, TargetsAfterImport
      <4>2. \A p \in Parameter : CurrentValues(e, t, p)' = CurrentValues(e, t, p)
        BY <1>5, <3>2, CellsAfterImport
      <4> QED
        BY <1>1, <1>3, <2>2, <4>1, <4>2, SumsStay
    <3> QED
      BY <3>1, <3>2
  <2>3. \A v \in Values' : Shows(v)'
    BY <1>2, <2>1
  <2> QED
    BY <2>2, <2>3 DEF SummaryIsCurrent, Sums, Shows
<1>6. CASE ~RecordValue(r) /\ ~ImportWorkbook(r)
  <2>1. assessments' = assessments /\ values' = values
    BY <1>6, RowsOrNot
  <2>2. Assessments' = Assessments /\ Values' = Values
    BY <2>1 DEF Assessments, Values
  <2>3. ASSUME NEW e \in Experiment, NEW t \in Target, NEW a \in CurrentAssessments(e, t)'
        PROVE  Sums(e, t, a)'
    <3>1. CurrentAssessments(e, t)' = CurrentAssessments(e, t)
      BY <2>1, <2>2 DEF CurrentAssessments
    <3>2. \A p \in Parameter : CurrentValues(e, t, p)' = CurrentValues(e, t, p)
      BY <2>1 DEF CurrentValues, HasSuccessor, ExperimentOf
    <3> QED
      BY <1>1, <1>3, <2>3, <3>1, <3>2, SumsStay
  <2>4. \A v \in Values' : Shows(v)'
    BY <1>2, <2>2
  <2> QED
    BY <2>3, <2>4 DEF SummaryIsCurrent, Sums, Shows
<1> QED
  BY <1>4, <1>5, <1>6

-----------------------------------------------------------------------------
\* All that is claimed of assessments and values is inductive together.
RowInv ==
    /\ LineInv
    /\ ValuesAnswer
    /\ EntriesHaveRows
    /\ SummaryIsCurrent

LEMMA InitialRows == ExperimentsInit => RowInv
<1> SUFFICES ASSUME ExperimentsInit PROVE RowInv
  OBVIOUS
<1>1. Assessments = {} /\ Values = {} /\ \A k \in Key : audit[k] = None
  BY DEF ExperimentsInit, Assessments, Values
<1>2. \A e \in Experiment, t \in Target : CurrentAssessments(e, t) = {}
  BY <1>1, CurrentAssessmentsAre DEF RowsAt
<1>3. ValuesAnswer /\ EntriesHaveRows
  BY <1>1 DEF ValuesAnswer, EntriesHaveRows
<1>4. SummaryIsCurrent
  BY <1>1, <1>2 DEF SummaryIsCurrent
<1> QED
  BY <1>3, <1>4, InitialLines DEF RowInv

LEMMA StepRows == RowInv /\ [ExperimentsNext]_vars => RowInv'
<1> SUFFICES ASSUME RowInv, [ExperimentsNext]_vars PROVE RowInv'
  OBVIOUS
<1>1. LineInv'
  BY StepLines DEF RowInv
<1>2. ASSUME NEW r \in Request, Operation(r) PROVE RowInv'
  BY <1>1, <1>2, KeepsAnswers, KeepsSummaries DEF RowInv
<1>3. CASE UNCHANGED <<experiments, assessments, values, audit>>
  <2>1. ValuesAnswer' /\ EntriesHaveRows'
    BY <1>3 DEF RowInv, ValuesAnswer, Answers, EntriesHaveRows, Values, ExperimentOf, Submitted
  <2>2. SummaryIsCurrent'
    <3>1. Assessments' = Assessments /\ Values' = Values
      BY <1>3 DEF Assessments, Values
    <3>2. \A e, t : CurrentAssessments(e, t)' = CurrentAssessments(e, t)
      BY <1>3, <3>1 DEF CurrentAssessments
    <3>3. \A e, t, p : CurrentValues(e, t, p)' = CurrentValues(e, t, p)
      BY <1>3, <3>1 DEF CurrentValues, HasSuccessor, ExperimentOf
    <3>4. \A v : Submitted(v)' = Submitted(v)
      BY <1>3 DEF Submitted
    <3> QED
      BY <1>3, <3>1, <3>2, <3>3, <3>4 DEF RowInv, SummaryIsCurrent
  <2> QED
    BY <1>1, <2>1, <2>2 DEF RowInv
<1> QED
  BY <1>2, <1>3 DEF ExperimentsNext, ChangeScope, vars

\* The key of a value is bound to exactly the entry or import that made it, and
\* every accepted entry or import has all of its rows.
THEOREM ReceiptsAlwaysExact == ExperimentsSpec => []ReceiptsAreExact
<1>1. RowInv => ReceiptsAreExact
  BY PartsOfReceipts DEF RowInv, LineInv
<1> QED
  BY <1>1, InitialRows, StepRows, PTL DEF ExperimentsSpec

\* What an experiment shows of its assessments fits together: one expert of its
\* lane, one line of values in each cell, and a summary that patches of one
\* parameter at a time never let drift from the values that are current.
THEOREM RowsAlwaysFitTogether == ExperimentsSpec => []RowsFitTogether
<1>1. RowInv => RowsFitTogether
  BY PartsOfOneLine DEF RowInv, LineInv, ReplayInv, LaneInv, RowsFitTogether
<1> QED
  BY <1>1, InitialRows, StepRows, PTL DEF ExperimentsSpec

-----------------------------------------------------------------------------
(* The rows implement the ledger.                                          *)

Place == Experiment \X (Target \X Parameter)

\* The state of the ledger that the rows stand for.
Heads ==
    [x \in Experiment \X (Target \X Parameter) |->
        LET now == CurrentValues(x[1], x[2][1], x[2][2])
        IN  IF now = {} THEN None ELSE CHOOSE v \in now : TRUE]
Past == {v \in Values : HasSuccessor(v)}
Closed == {e \in Experiment : experiments[e] # None /\ experiments[e].status # "DRAFT"}

Entered == {x \in Place : Heads'[x] # Heads[x]}

LEMMA EntryInLedger ==
    ASSUME NEW e \in Experiment,
           Entered # {},
           e \notin Closed,
           Entered \subseteq {e} \X (Target \X Parameter),
           \/ \A c \in Target \X Parameter : Heads[<<e, c>>] = None
           \/ \E x \in Entered : Entered = {x},
           \A x \in Entered : Heads'[x] \in ValueId \ (Past \cup {Heads[y] : y \in Place}),
           \A x, y \in Entered : Heads'[x] = Heads'[y] => x = y,
           Past' = Past \cup ({Heads[x] : x \in Entered} \ {None}),
           Closed' = Closed
    PROVE  Ledger!Enter(e)
<1>1. Heads' = [x \in Place |-> Heads'[x]]
  BY DEF Heads, Place
<1> USE DEF Ledger!Enter, Ledger!IsBlank, Ledger!Used
<1> QED
  BY <1>1 DEF Heads, Past, Closed, Place, Entered

LEMMA CloseInLedger ==
    ASSUME NEW e \in Experiment, Heads' = Heads, Past' = Past, Closed' = Closed \cup {e}
    PROVE  Ledger!Close(e)
  BY DEF Ledger!Close, Heads, Past, Closed

LEMMA RestInLedger ==
    ASSUME Heads' = Heads, Past' = Past, Closed' = Closed
    PROVE  UNCHANGED Ledger!ledger
  BY DEF Ledger!ledger, Heads, Past, Closed

\* The current value of a cell is its end.
LEMMA HeadOfCell ==
    ASSUME NEW x \in Place
    PROVE  /\ CurrentValues(x[1], x[2][1], x[2][2]) = {} => Heads[x] = None
           /\ \A v : CurrentValues(x[1], x[2][1], x[2][2]) = {v} => Heads[x] = v
           /\ Heads[x] # None => Heads[x] \in CurrentValues(x[1], x[2][1], x[2][2])
<1> DEFINE now == CurrentValues(x[1], x[2][1], x[2][2])
<1>1. Heads[x] = IF now = {} THEN None ELSE CHOOSE v \in now : TRUE
  BY DEF Heads, Place
<1> HIDE DEF now
<1>2. ASSUME NEW v, now = {v} PROVE Heads[x] = v
  BY <1>1, <1>2
<1>3. Heads[x] # None => Heads[x] \in now
  BY <1>1
<1> QED
  BY <1>1, <1>2, <1>3 DEF now

LEMMA HeadOfCellThen ==
    ASSUME NEW x \in Place
    PROVE  /\ CurrentValues(x[1], x[2][1], x[2][2])' = {} => Heads'[x] = None
           /\ \A v : CurrentValues(x[1], x[2][1], x[2][2])' = {v} => Heads'[x] = v
           /\ CurrentValues(x[1], x[2][1], x[2][2])' = CurrentValues(x[1], x[2][1], x[2][2]) =>
                 Heads'[x] = Heads[x]
<1>1. PICK then : then = CurrentValues(x[1], x[2][1], x[2][2])'
  OBVIOUS
<1>2. PICK now : now = CurrentValues(x[1], x[2][1], x[2][2])
  OBVIOUS
<1>3. Heads'[x] = IF then = {} THEN None ELSE CHOOSE v \in then : TRUE
  BY <1>1 DEF Heads, Place
<1>4. Heads[x] = IF now = {} THEN None ELSE CHOOSE v \in now : TRUE
  BY <1>2 DEF Heads, Place
<1>5. ASSUME NEW v, then = {v} PROVE Heads'[x] = v
  BY <1>3, <1>5
<1>6. ASSUME then = now PROVE Heads'[x] = Heads[x]
  BY <1>3, <1>4, <1>6
<1> QED
  BY <1>1, <1>2, <1>3, <1>5, <1>6

LEMMA PlaceParts ==
    ASSUME NEW x \in Place
    PROVE  /\ x[1] \in Experiment /\ x[2][1] \in Target /\ x[2][2] \in Parameter
           /\ x[2] \in Target \X Parameter
           /\ x = <<x[1], <<x[2][1], x[2][2]>>>>
           /\ x = <<x[1], x[2]>>
  BY DEF Place

\* A value that the ledger names is there.
LEMMA UsedAreValues ==
    ASSUME NEW v, v \in Past \cup {Heads[y] : y \in Place}
    PROVE  v = None \/ v \in Values
<1>1. ASSUME NEW y \in Place, Heads[y] # None PROVE Heads[y] \in Values
  BY <1>1, HeadOfCell, PlaceParts, CurrentValuesAre DEF InCell
<1> QED
  BY <1>1 DEF Past

\* A value is past when another supersedes it.
LEMMA PastIs ==
    /\ \A v : v \in Past <=> v \in Values /\ \E u \in Values : values[u].supersedes = v
    /\ \A v : v \in Past' <=> v \in Values' /\ \E u \in Values' : values'[u].supersedes = v
  BY DEF Past, HasSuccessor, Values

LEMMA SupersededAreValues ==
    ASSUME ValuesAreLinked, NEW u \in Values, values[u].supersedes # None
    PROVE  values[u].supersedes \in Values
  BY DEF ValuesAreLinked

LEMMA RecordingInLedger ==
    ASSUME LineInv, NEW r \in Request, RecordValue(r)
    PROVE  Ledger!Enter(r.experiment)
<1> DEFINE e == r.experiment
           w == <<r.key, r.target, r.parameter>>
           x == <<e, <<r.target, r.parameter>>>>
<1>1. /\ e \in Experiment /\ r.target \in Target /\ r.parameter \in Parameter
      /\ w \in ValueId /\ w \notin Values /\ Values' = Values \cup {w}
  BY RowsRecorded DEF LineInv, ReplayInv
<1>2. values'[w].supersedes = r.supersedes
  <2>1. values'[w] = [assessment |-> AttachedTo(r), supersedes |-> r.supersedes,
                      status |-> r.status]
    BY RowsRecorded DEF LineInv, ReplayInv
  <2> QED
    BY <2>1
<1>3. Kept
  BY OperationsKeep DEF LineInv, ReplayInv, Operation
<1>4. w # None
  BY <1>1, NoneAssumption
<1>5. x \in Place /\ x[1] = e /\ x[2] = <<r.target, r.parameter>>
      /\ x[2][1] = r.target /\ x[2][2] = r.parameter
  BY <1>1 DEF Place
<1> HIDE DEF x, w
<1>6. Heads'[x] = w
  BY <1>5, CellsAfterRecording, HeadOfCellThen DEF e, w
<1>7. ASSUME NEW y \in Place, y # x PROVE Heads'[y] = Heads[y]
  <2>1. y[1] \in Experiment /\ y[2][1] \in Target /\ y[2][2] \in Parameter
        /\ <<y[1], y[2][1], y[2][2]>> # <<r.experiment, r.target, r.parameter>>
    BY <1>7, PlaceParts DEF x
  <2> QED
    BY <2>1, CellsAfterRecording, HeadOfCellThen
<1>8. w \notin Past \cup {Heads[y] : y \in Place}
  BY <1>1, <1>4, UsedAreValues
<1>9. Entered = {x}
  <2>1. Heads[x] # w
    BY <1>5, <1>8
  <2>2. \A y : y \in Entered <=> y = x
    BY <1>5, <1>6, <1>7, <2>1 DEF Entered
  <2> QED
    BY <2>2
<1>10. e \notin Closed /\ Closed' = Closed
  BY ValueRecorded DEF IsDraft, Closed, RecordValue
<1>11. Heads[x] = r.supersedes
  <2>1. CASE r.supersedes = None
    <3>1. InCell(e, r.target, r.parameter) = {}
      BY <2>1, RecordedAtHead
    <3>2. CurrentValues(e, r.target, r.parameter) = {}
      BY <1>1, <3>1, CurrentValuesAre
    <3> QED
      BY <1>5, <2>1, <3>2, HeadOfCell
  <2>2. CASE r.supersedes # None
    <3>1. CurrentValues(e, r.target, r.parameter) = {r.supersedes}
      BY <2>2, RecordedAtHead
    <3> QED
      BY <1>5, <3>1, HeadOfCell
  <2> QED
    BY <2>1, <2>2
<1>12. Past' = Past \cup ({Heads[y] : y \in Entered} \ {None})
  <2>1. {Heads[y] : y \in Entered} = {r.supersedes}
    BY <1>9, <1>11
  <2>2. r.supersedes # None => r.supersedes \in Values
    BY RecordedAtHead DEF InCell
  <2>3. ASSUME NEW v
        PROVE  v \in Past' <=> v \in Past \/ (v = r.supersedes /\ v # None)
    <3>1. v \in Past' <=> v \in Values' /\ \E u \in Values' : values'[u].supersedes = v
      BY PastIs
    <3>2. v \in Past <=> v \in Values /\ \E u \in Values : values[u].supersedes = v
      BY PastIs
    <3>3. \A u \in Values : values'[u].supersedes = values[u].supersedes
      BY <1>3 DEF Kept
    <3>4. \A u \in Values : values[u].supersedes # w
      BY <1>1, <1>4, SupersededAreValues DEF LineInv
    <3>5. r.supersedes # w
      BY <1>1, <1>4, <2>2
    <3>6. v \in Values => v # None
      BY NoneAssumption DEF Values
    <3> QED
      BY <1>1, <1>2, <2>2, <3>1, <3>2, <3>3, <3>4, <3>5, <3>6
  <2> QED
    BY <2>1, <2>3
<1>13. Entered \subseteq {e} \X (Target \X Parameter)
  BY <1>1, <1>9 DEF x
<1> QED
  BY <1>1, <1>6, <1>8, <1>9, <1>10, <1>12, <1>13, EntryInLedger

LEMMA ImportInLedger ==
    ASSUME LineInv, NEW r \in Request, ImportWorkbook(r)
    PROVE  Ledger!Enter(r.experiment)
<1> DEFINE e == r.experiment
           id(y) == <<r.key, y[2][1], y[2][2]>>
           filled(y) == \E f \in FileRows(r, y[2][1]) : f.parameter = y[2][2]
<1>1. e \in Experiment /\ r.key \in Key
  BY RowsImported
<1>2. Kept
  BY OperationsKeep DEF LineInv, ReplayInv, Operation
<1>3. ASSUME NEW y \in Place, y[1] = e
      PROVE  /\ Heads[y] = None
             /\ filled(y) => Heads'[y] = id(y) /\ id(y) \in Values' \ Values
             /\ ~filled(y) => Heads'[y] = None
  <2>1. y[2][1] \in Target /\ y[2][2] \in Parameter
    BY PlaceParts
  <2>2. InCell(e, y[2][1], y[2][2]) = {}
    BY RowsImported
  <2>3. CurrentValues(e, y[2][1], y[2][2]) = {}
    BY <1>1, <2>1, <2>2, CurrentValuesAre
  <2>4. \A v : v \in CurrentValues(e, y[2][1], y[2][2])' <=> v = id(y) /\ filled(y)
    BY <1>1, <2>1, CellsAfterImport
  <2>5. filled(y) => id(y) \in Values' \ Values
    <3>1. id(y) \in ValueId /\ id(y)[1] = r.key /\ id(y)[2] = y[2][1] /\ id(y)[3] = y[2][2]
      BY <1>1, <2>1 DEF ValueId
    <3> QED
      BY <3>1, RowsImported
  <2>6. PICK w : w = id(y)
    OBVIOUS
  <2>7. filled(y) => CurrentValues(e, y[2][1], y[2][2])' = {w}
    BY <2>4, <2>6
  <2>8. ~filled(y) => CurrentValues(e, y[2][1], y[2][2])' = {}
    BY <2>4
  <2> HIDE DEF filled, id
  <2> QED
    BY <1>3, <2>3, <2>5, <2>6, <2>7, <2>8, HeadOfCell, HeadOfCellThen
<1>4. ASSUME NEW y \in Place, y[1] # e PROVE Heads'[y] = Heads[y]
  BY <1>4, PlaceParts, CellsAfterImport, HeadOfCellThen
<1>5. \A v \in Values' : v \in ValueId /\ v # None
  BY NoneAssumption DEF Values
<1>6. ASSUME NEW y PROVE y \in Entered <=> y \in Place /\ y[1] = e /\ filled(y)
  <2> HIDE DEF filled, id
  <2> QED
    BY <1>3, <1>4, <1>5 DEF Entered
<1>7. Entered # {}
  <2>1. r.rows # {}
    <3>1. ImportRefusal(r) = None
      BY Committed DEF ImportWorkbook, Refusal
    <3> QED
      BY <3>1, NoneAssumption DEF ImportRefusal, AnswerCode
  <2>2. PICK f \in r.rows : TRUE
    BY <2>1
  <2>3. /\ f \in FileRows(r, f.target) /\ f.target \in Target /\ f.parameter \in Parameter
    BY FileRowIsOne
  <2>4. <<e, <<f.target, f.parameter>>>> \in Place
    BY <1>1, <2>3 DEF Place
  <2> QED
    BY <1>6, <2>3, <2>4
<1>8. e \notin Closed /\ Closed' = Closed
  BY WorkbookImported DEF IsDraft, Closed, ImportWorkbook
<1>9. \A c \in Target \X Parameter : Heads[<<e, c>>] = None
  <2> SUFFICES ASSUME NEW c \in Target \X Parameter PROVE Heads[<<e, c>>] = None
    OBVIOUS
  <2>1. <<e, c>> \in Place /\ <<e, c>>[1] = e
    BY <1>1 DEF Place
  <2> QED
    BY <1>3, <2>1
<1>10. ASSUME NEW y \in Entered
       PROVE  /\ Heads[y] = None /\ Heads'[y] = id(y)
              /\ id(y) \in ValueId /\ id(y) \notin Values /\ id(y) # None
  <2> HIDE DEF filled, id
  <2> QED
    BY <1>3, <1>5, <1>6
<1>11. ASSUME NEW y \in Entered
       PROVE  Heads'[y] \in ValueId \ (Past \cup {Heads[z] : z \in Place})
  BY <1>10, UsedAreValues
<1>12. ASSUME NEW y \in Entered, NEW z \in Entered, Heads'[y] = Heads'[z] PROVE y = z
  <2>1. id(y) = id(z)
    BY <1>10, <1>12
  <2>2. y[2][1] = z[2][1] /\ y[2][2] = z[2][2]
    BY <2>1
  <2>3. y[1] = z[1] /\ y \in Place /\ z \in Place
    BY <1>6
  <2> QED
    BY <2>2, <2>3, PlaceParts
<1>13. Past' = Past \cup ({Heads[y] : y \in Entered} \ {None})
  <2>1. {Heads[y] : y \in Entered} \ {None} = {}
    BY <1>10
  <2>2. ASSUME NEW v PROVE v \in Past' <=> v \in Past
    <3>1. v \in Past' <=> v \in Values' /\ \E u \in Values' : values'[u].supersedes = v
      BY PastIs
    <3>2. v \in Past <=> v \in Values /\ \E u \in Values : values[u].supersedes = v
      BY PastIs
    <3>3. \A u \in Values : u \in Values' /\ values'[u].supersedes = values[u].supersedes
      BY <1>2 DEF Kept
    <3>4. ASSUME NEW u \in Values' \ Values PROVE values'[u].supersedes = None
      <4>1. values'[u] = [assessment |-> <<u[1], u[2]>>, supersedes |-> None,
                          status |-> (CHOOSE f \in FileRows(r, u[2]) :
                                         f.parameter = u[3]).status]
        BY RowsImported
      <4> QED
        BY <4>1
    <3>5. \A u \in Values : values[u].supersedes # None => values[u].supersedes \in Values
      BY SupersededAreValues DEF LineInv
    <3>6. v \in Values' => v # None
      BY <1>5
    <3> QED
      BY <3>1, <3>2, <3>3, <3>4, <3>5, <3>6
  <2> QED
    BY <2>1, <2>2
<1>14. Entered \subseteq {e} \X (Target \X Parameter)
  <2> HIDE DEF filled, e
  <2> QED
    BY <1>6, PlaceParts
<1> HIDE DEF id, filled
<1> QED
  BY <1>1, <1>7, <1>8, <1>9, <1>11, <1>12, <1>13, <1>14, EntryInLedger

LEMMA InitialLedger == ExperimentsInit => Ledger!LedgerInit
<1> SUFFICES ASSUME ExperimentsInit PROVE Ledger!LedgerInit
  OBVIOUS
<1>1. Values = {} /\ \A e \in Experiment : experiments[e] = None
  BY DEF ExperimentsInit, Values
<1>2. Past = {} /\ Closed = {}
  BY <1>1 DEF Past, Closed
<1>3. ASSUME NEW x \in Place PROVE Heads[x] = None
  <2>1. CurrentValues(x[1], x[2][1], x[2][2]) = {}
    BY <1>1, PlaceParts, CurrentValuesAre DEF InCell
  <2> QED
    BY <2>1, HeadOfCell
<1>4. Heads = [x \in Place |-> None]
  BY <1>3 DEF Heads, Place
<1> QED
  BY <1>2, <1>4 DEF Ledger!LedgerInit, Heads, Past, Closed, Place

\* What neither enters nor imports leaves the entries alone.
LEMMA QuietLedger ==
    ASSUME UNCHANGED <<assessments, values>>
    PROVE  Heads' = Heads /\ Past' = Past
<1>1. Values' = Values
  BY DEF Values
<1>2. \A e, t, p : CurrentValues(e, t, p)' = CurrentValues(e, t, p)
  BY <1>1 DEF CurrentValues, HasSuccessor, ExperimentOf
<1>3. Past' = Past
  BY <1>1 DEF Past, HasSuccessor
<1>4. \A x \in Place : Heads'[x] = Heads[x]
  BY <1>2, HeadOfCellThen
<1>5. Heads = [x \in Place |-> Heads[x]] /\ Heads' = [x \in Place |-> Heads'[x]]
  BY DEF Heads, Place
<1> HIDE DEF Heads
<1>6. Heads' = Heads
  BY <1>4, <1>5
<1> QED
  BY <1>3, <1>6

LEMMA ExperimentInLedger ==
    ASSUME LineInv, NEW r \in Request,
           CreateExperiment(r) \/ UpdateExperiment(r) \/ FreezeExperiment(r) \/ ArchiveExperiment(r)
    PROVE  [Ledger!LedgerNext]_(Ledger!ledger)
<1>1. Heads' = Heads /\ Past' = Past
  BY QuietLedger DEF CreateExperiment, UpdateExperiment, FreezeExperiment, ArchiveExperiment
<1>2. TypeOK
  BY DEF LineInv, ReplayInv, LaneInv
<1>3. r.op \in ScopedOp \cup Transition /\ r.op # "PROFILE" /\ r.experiment \in Experiment
  BY RequestFields DEF CreateExperiment, UpdateExperiment, FreezeExperiment, ArchiveExperiment,
     ScopedOp, Transition
<1>4. CASE CreateExperiment(r)
  <2> DEFINE row == [workspace |-> r.workspace, profile |-> r.profile, kind |-> r.kind,
                     label |-> r.label, status |-> "DRAFT", frozen |-> FALSE]
  <2>1. experiments' = [experiments EXCEPT ![r.experiment] = row]
        /\ experiments[r.experiment] = None /\ row.status = "DRAFT"
    BY <1>4, ExperimentCreated DEF CreateExperiment
  <2> HIDE DEF row
  <2>2. \A e : e \in Closed' <=> e \in Closed
    BY <1>2, <1>3, <2>1 DEF Closed, TypeOK
  <2> QED
    BY <1>1, <2>2, RestInLedger
<1>5. CASE UpdateExperiment(r)
  <2>1. /\ experiments' = [experiments EXCEPT ![r.experiment].label = r.label]
        /\ experiments[r.experiment] # None /\ IsDraft(r.experiment)
    BY <1>5, ExperimentMoved DEF UpdateExperiment, Transition
  <2>2. experiments[r.experiment] \in ExperimentRow
    BY <1>2, <1>3, <2>1 DEF TypeOK
  <2>3. experiments'[r.experiment].status = "DRAFT"
    BY <1>2, <1>3, <2>1, <2>2 DEF TypeOK, ExperimentRow, IsDraft
  <2>4. \A e \in Experiment \ {r.experiment} : experiments'[e] = experiments[e]
    BY <1>2, <2>1 DEF TypeOK
  <2>5. \A e : e \in Closed' <=> e \in Closed
    BY <2>1, <2>3, <2>4 DEF Closed, IsDraft
  <2> QED
    BY <1>1, <2>5, RestInLedger
<1>6. CASE FreezeExperiment(r) \/ ArchiveExperiment(r)
  <2>1. /\ experiments[r.experiment] # None
        /\ \/ experiments' = [experiments EXCEPT ![r.experiment].status = "FROZEN",
                                                 ![r.experiment].frozen = TRUE]
           \/ experiments' = [experiments EXCEPT ![r.experiment].status = "ARCHIVED"]
    BY <1>6, ExperimentMoved DEF FreezeExperiment, ArchiveExperiment, Transition
  <2>2. experiments[r.experiment] \in ExperimentRow
    BY <1>2, <1>3, <2>1 DEF TypeOK
  <2>3. /\ experiments'[r.experiment] \in ExperimentRow
        /\ experiments'[r.experiment].status # "DRAFT"
    BY <1>2, <1>3, <2>1, <2>2 DEF TypeOK, ExperimentRow, ExperimentStatus
  <2>4. \A e \in Experiment \ {r.experiment} : experiments'[e] = experiments[e]
    BY <1>2, <2>1 DEF TypeOK
  <2>5. experiments'[r.experiment] # None
    BY <2>3, NoneAssumption
  <2>6. \A e : e \in Closed' <=> e \in Closed \cup {r.experiment}
    BY <1>3, <2>3, <2>4, <2>5 DEF Closed
  <2>7. Closed' = Closed \cup {r.experiment}
    BY <2>6
  <2>8. Ledger!Close(r.experiment)
    BY <1>1, <1>3, <2>7, CloseInLedger
  <2> QED
    BY <1>3, <2>8 DEF Ledger!LedgerNext
<1> QED
  BY <1>4, <1>5, <1>6

LEMMA StepLedger == LineInv /\ [ExperimentsNext]_vars => [Ledger!LedgerNext]_(Ledger!ledger)
<1> SUFFICES ASSUME LineInv, [ExperimentsNext]_vars PROVE [Ledger!LedgerNext]_(Ledger!ledger)
  OBVIOUS
<1>1. ASSUME NEW r \in Request, RecordValue(r) \/ ImportWorkbook(r)
      PROVE  Ledger!LedgerNext
  <2>1. r.experiment \in Experiment
    BY <1>1, RequestFields DEF RecordValue, ImportWorkbook
  <2> QED
    BY <1>1, <2>1, RecordingInLedger, ImportInLedger DEF Ledger!LedgerNext
<1>2. CASE UNCHANGED <<assessments, values, experiments>>
  <2>1. Closed' = Closed
    BY <1>2 DEF Closed
  <2> QED
    BY <1>2, <2>1, QuietLedger, RestInLedger
<1>3. ASSUME NEW r \in Request, Operation(r)
      PROVE  [Ledger!LedgerNext]_(Ledger!ledger)
  BY <1>1, <1>2, <1>3, ExperimentInLedger DEF Operation, SaveProfile, Answer, vars
<1> QED
  BY <1>2, <1>3 DEF ExperimentsNext, ChangeScope, vars

(* Whatever mix of entries, corrections, imports and closings: without its   *)
(* assessments, keys and receipts an experiment is a ledger in which a cell  *)
(* has one current value, a corrected value stays corrected, a bulk entry    *)
(* meets a blank experiment, and what is closed stays closed.                *)
THEOREM RowsImplementLedger == ExperimentsSpec => LedgerImplemented
  BY InitialLines, StepLines, InitialLedger, StepLedger, PTL
    DEF ExperimentsSpec, LedgerImplemented, Ledger!LedgerSpec

-----------------------------------------------------------------------------
(* The experiments beneath the runs.                                       *)

LEMMA StepServes == [RunsNext]_runVars => [ExperimentsNext]_vars
<1> SUFFICES ASSUME [RunsNext]_runVars PROVE ExperimentsNext \/ UNCHANGED vars
  OBVIOUS
<1>1. ASSUME NEW r \in Request, PlayerStep(r) PROVE ExperimentsNext
  BY <1>1 DEF PlayerStep, ExperimentsNext
<1>2. ASSUME NEW u \in ScopeChange, ScopeStep(u) PROVE ExperimentsNext
  BY <1>2 DEF ScopeStep, ExperimentsNext
<1>3. ASSUME NEW c \in Calculation, Calculate(c) \/ ReplayRun(c) PROVE UNCHANGED vars
  BY <1>3 DEF Calculate, ReplayRun
<1>4. CASE ReworkStep
  BY <1>4 DEF ReworkStep, Rework
<1>5. CASE UNCHANGED runVars
  BY <1>5 DEF runVars
<1> QED
  BY <1>1, <1>2, <1>3, <1>4, <1>5 DEF RunsNext

(* Experiments that calculations and scenarios read, and whose operation     *)
(* UUIDs these use up, still behave as PlayerExperiments says.               *)
THEOREM ExperimentsServed == RunsSpec => ExperimentsSpec
<1>1. RunsInit => ExperimentsInit
  BY DEF RunsInit
<1> QED
  BY <1>1, StepServes, PTL DEF RunsSpec, ExperimentsSpec

(* So nothing that was proved of the experiments is lost when runs and       *)
(* scenarios share their operation UUIDs.                                    *)
COROLLARY ExperimentsUnderRuns ==
    RunsSpec => /\ []RowsFitTogether /\ []ReceiptsAreExact /\ []ReplaysAreExact
                /\ HistoryIsKept /\ LedgerImplemented
  BY ExperimentsServed, RowsAlwaysFitTogether, ReceiptsAlwaysExact, ReplaysAlwaysExact,
     HistoryAlwaysKept, RowsImplementLedger, PTL

-----------------------------------------------------------------------------
(* Scenarios stand on runs.                                                *)

Copies == pages \cup {receipts[k].page : k \in Reworks}

\* What a run has read is there, and stays.
RunsAreStored ==
    \A k \in Runs : \A x \in Cells(receipts[k].request.slice) :
        receipts[k].snapshot.input[x] # None => receipts[k].snapshot.input[x] \in Values

\* A working copy has the form the token seals, and stands on a run.
Founded(g) ==
    /\ g = [user |-> g.user, scenario |-> g.scenario, snapshot |-> g.snapshot,
            overrides |-> [x \in DOMAIN g.overrides |-> g.overrides[x]]]
    /\ \E k \in Runs : receipts[k].snapshot = g.snapshot /\ receipts[k].request.user = g.user
    /\ \A x \in DOMAIN g.overrides :
          /\ g.snapshot.input[x] # None => g.snapshot.input[x] \in Values
          /\ g.overrides[x] # None =>
                g.snapshot.input[x] # None /\ values[g.snapshot.input[x]].status = "PROVISIONAL"

ScenarioInv ==
    /\ LaneInv
    /\ receipts = [k \in Key |-> receipts[k]]
    /\ RunsAreStored
    /\ \A g \in Copies : Founded(g)

\* What a step leaves as it was: the runs recorded and the values entered.
Grown ==
    /\ \A k \in Runs : k \in Runs' /\ receipts'[k] = receipts[k]
    /\ \A v \in Values : v \in Values' /\ values'[v] = values[v]

LEMMA FoundedStays ==
    ASSUME Grown, NEW g, Founded(g)
    PROVE  Founded(g)'
<1>1. PICK k \in Runs : receipts[k].snapshot = g.snapshot /\ receipts[k].request.user = g.user
  BY DEF Founded
<1>2. \E l \in Runs' : receipts'[l].snapshot = g.snapshot /\ receipts'[l].request.user = g.user
  BY <1>1 DEF Grown
<1>3. ASSUME NEW x \in DOMAIN g.overrides
      PROVE  /\ g.snapshot.input[x] # None => g.snapshot.input[x] \in Values'
             /\ g.overrides[x] # None =>
                   /\ g.snapshot.input[x] # None
                   /\ values'[g.snapshot.input[x]].status = "PROVISIONAL"
  BY DEF Founded, Grown
<1> QED
  BY <1>2, <1>3 DEF Founded

LEMMA StoredStay ==
    ASSUME Grown, RunsAreStored, NEW k \in Runs,
           NEW x \in Cells(receipts[k].request.slice), receipts'[k].snapshot.input[x] # None
    PROVE  receipts'[k].snapshot.input[x] \in Values'
  BY DEF Grown, RunsAreStored

LEMMA EditedIsFounded ==
    ASSUME NEW g, Founded(g), NEW action, NEW x \in DOMAIN g.overrides, NEW figure,
           action = "set" => Overridable(g, x)
    PROVE  Founded(Edited(g, action, x, figure))
<1> DEFINE h == Edited(g, action, x, figure)
           edited == CASE action = "set" -> [g.overrides EXCEPT ![x] = figure]
                       [] action = "remove" -> [g.overrides EXCEPT ![x] = None]
                       [] action = "reset" -> [y \in DOMAIN g.overrides |-> None]
                       [] OTHER -> g.overrides
<1>1. g = [user |-> g.user, scenario |-> g.scenario, snapshot |-> g.snapshot,
           overrides |-> [y \in DOMAIN g.overrides |-> g.overrides[y]]]
  BY DEF Founded
<1>2. h = [g EXCEPT !.overrides = edited]
  BY DEF Edited
<1>3. h = [user |-> g.user, scenario |-> g.scenario, snapshot |-> g.snapshot,
           overrides |-> edited]
  <2> HIDE DEF h, edited
  <2> QED
    BY <1>1, <1>2
<1>4. g.overrides = [y \in DOMAIN g.overrides |-> g.overrides[y]]
  BY <1>1
<1>5. /\ DOMAIN edited = DOMAIN g.overrides
      /\ edited = [y \in DOMAIN edited |-> edited[y]]
      /\ \A y \in DOMAIN g.overrides :
            edited[y] # None => g.overrides[y] # None \/ (action = "set" /\ y = x)
  <2>1. CASE action = "set"
    BY <1>4, <2>1
  <2>2. CASE action = "remove"
    BY <1>4, <2>2
  <2>3. CASE action = "reset"
    BY <1>4, <2>3
  <2>4. CASE action \notin {"set", "remove", "reset"}
    BY <1>4, <2>4
  <2> QED
    BY <2>1, <2>2, <2>3, <2>4
<1>6. ASSUME NEW y \in DOMAIN g.overrides, edited[y] # None
      PROVE  /\ g.snapshot.input[y] # None
             /\ values[g.snapshot.input[y]].status = "PROVISIONAL"
  BY <1>5, <1>6 DEF Founded, Overridable
<1> HIDE DEF edited, h
<1> QED
  BY <1>3, <1>5, <1>6 DEF Founded, h

LEMMA CaptureIsStored ==
    ASSUME NEW c, NEW x \in Cells(c.slice), Capture(c).input[x] # None
    PROVE  Capture(c).input[x] \in Values
<1> DEFINE now == {v \in Terminal(c.experiment, c.slice) : CellOf(v) = x}
<1>1. Capture(c).input[x] = IF now = {} THEN None ELSE CHOOSE v \in now : TRUE
  BY DEF Capture
<1>2. Capture(c).input[x] \in now
  BY <1>1
<1> QED
  BY <1>2 DEF Terminal

LEMMA CaptureIsTyped ==
    ASSUME TypeOK, NEW c \in Calculation, experiments[c.experiment] # None
    PROVE  [kind |-> "RUN", request |-> c, snapshot |-> Capture(c),
            shown |-> Display(c.experiment)] \in Artifact(c)
<1>1. c.experiment \in Experiment
  BY CalculationAssumption DEF CalculationType
<1>2. \A t \in Targets(c.slice) :
         CurrentAssessment(c.experiment, t) \in AssessmentId \cup {None}
  BY <1>1, CurrentRow DEF Targets
<1>3. \A x \in Cells(c.slice) : Capture(c).input[x] \in ValueId \cup {None}
  BY CaptureIsStored DEF Values
<1>4. Capture(c).input \in [Cells(c.slice) -> ValueId \cup {None}]
  BY <1>3 DEF Capture
<1>5. Capture(c).header \in [Targets(c.slice) -> AssessmentId \cup {None}]
  BY <1>2 DEF Capture
<1>6. Display(c.experiment) \in [label : Label, status : ExperimentStatus]
  BY <1>1 DEF TypeOK, ExperimentRow, Display
<1>7. Capture(c) = [experiment |-> c.experiment, slice |-> c.slice, weights |-> c.weights,
                    header |-> Capture(c).header, input |-> Capture(c).input]
  BY DEF Capture
<1> QED
  BY <1>4, <1>5, <1>6, <1>7 DEF Artifact

LEMMA RenderedIsFounded ==
    ASSUME Grown, \A g \in pages : Founded(g), NEW c, Render(c),
           NEW k \in Runs', receipts'[k].snapshot = Answered(c), receipts'[k].request.user = c.user,
           \A x \in Cells(c.slice) :
              Answered(c).input[x] # None => Answered(c).input[x] \in Values'
    PROVE  \A g \in pages' : Founded(g)'
<1> DEFINE first(n) == [user |-> c.user, scenario |-> n, snapshot |-> Answered(c),
                        overrides |-> [x \in Cells(c.slice) |-> None]]
<1>1. ASSUME NEW g \in pages' PROVE g \in pages \/ \E n \in Unused : g = first(n)
  BY <1>1 DEF Render
<1>2. ASSUME NEW n, NEW g, g = first(n) PROVE Founded(g)'
  <2>1. /\ g.user = c.user /\ g.snapshot = Answered(c) /\ g.scenario = n
        /\ g.overrides = [x \in Cells(c.slice) |-> None]
    BY <1>2
  <2>2. /\ DOMAIN g.overrides = Cells(c.slice)
        /\ \A x \in DOMAIN g.overrides : g.overrides[x] = None
    BY <2>1
  <2>3. g = [user |-> g.user, scenario |-> g.scenario, snapshot |-> g.snapshot,
             overrides |-> [x \in DOMAIN g.overrides |-> g.overrides[x]]]
    BY <1>2, <2>1, <2>2
  <2>4. \E l \in Runs' :
           receipts'[l].snapshot = g.snapshot /\ receipts'[l].request.user = g.user
    BY <2>1
  <2> QED
    BY <2>1, <2>2, <2>3, <2>4 DEF Founded
<1> QED
  BY <1>1, <1>2, FoundedStays

-----------------------------------------------------------------------------
LEMMA InitialScenarios == RunsInit => ScenarioInv
<1> SUFFICES ASSUME RunsInit PROVE ScenarioInv
  OBVIOUS
<1>1. Runs = {} /\ Reworks = {} /\ pages = {}
  BY DEF RunsInit, Runs, Reworks
<1> QED
  BY <1>1, InitialLanes DEF RunsInit, ScenarioInv, RunsAreStored, Copies

\* Steps of the experiments, and steps that leave them alone, keep the values.
LEMMA ValuesStay ==
    ASSUME LaneInv, [ExperimentsNext]_vars
    PROVE  \A v \in Values : v \in Values' /\ values'[v] = values[v]
<1>1. CASE UNCHANGED vars
  BY <1>1 DEF vars, Values
<1>2. ASSUME NEW r \in Request, Operation(r)
      PROVE  \A v \in Values : values'[v] = values[v]
  BY <1>2, RowsStay
<1>3. ASSUME NEW u \in ScopeChange, ChangeScope(u)
      PROVE  values' = values
  BY <1>3 DEF ChangeScope
<1> QED
  BY <1>1, <1>2, <1>3 DEF ExperimentsNext, Values

LEMMA StepScenarios == ScenarioInv /\ [RunsNext]_runVars => ScenarioInv'
<1> SUFFICES ASSUME ScenarioInv, [RunsNext]_runVars PROVE ScenarioInv'
  OBVIOUS
<1>1. LaneInv'
  BY StepServes, StepLanes DEF ScenarioInv
<1>2. \A v \in Values : v \in Values' /\ values'[v] = values[v]
  BY StepServes, ValuesStay DEF ScenarioInv
<1>3. receipts = [k \in Key |-> receipts[k]] /\ RunsAreStored
  BY DEF ScenarioInv
<1>4. CASE UNCHANGED <<receipts, pages>>
  <2>1. Runs' = Runs /\ Copies' = Copies
    BY <1>4 DEF Runs, Reworks, Copies
  <2>2. Grown
    BY <1>2, <1>4, <2>1 DEF Grown
  <2>3. \A g \in Copies' : Founded(g)'
    BY <2>1, <2>2, FoundedStays DEF ScenarioInv
  <2>4. RunsAreStored'
    BY <1>4, <2>1, <2>2, <1>3, StoredStay DEF RunsAreStored, Cells, Targets
  <2> QED
    BY <1>1, <1>3, <1>4, <2>3, <2>4 DEF ScenarioInv
<1>5. ASSUME NEW c \in Calculation, Calculate(c) PROVE ScenarioInv'
  <2> DEFINE run == [kind |-> "RUN", request |-> c, snapshot |-> Capture(c),
                     shown |-> Display(c.experiment)]
  <2>1. /\ c.key \in Key /\ receipts[c.key] = None
        /\ experiments[c.experiment] # None
    BY <1>5, CalculationAssumption
      DEF Calculate, CalculationOutcome, CalculationType, KeyTaken
  <2>2. receipts' = [receipts EXCEPT ![c.key] = run] /\ Render(c)
    BY <1>5 DEF Calculate
  <2>3. /\ run.kind = "RUN" /\ run.request = c /\ run.snapshot = Capture(c)
        /\ run # None
    BY <2>1, CaptureIsTyped, ArtifactAssumption DEF ScenarioInv, LaneInv
  <2> HIDE DEF run
  <2>4. /\ receipts' = [k \in Key |-> receipts'[k]]
        /\ receipts'[c.key] = run
        /\ \A k \in Key \ {c.key} : receipts'[k] = receipts[k]
    BY <1>3, <2>1, <2>2
  <2>5. /\ Runs' = Runs \cup {c.key} /\ Reworks' = Reworks
        /\ c.key \notin Runs /\ c.key \notin Reworks
    BY <2>1, <2>3, <2>4 DEF Runs, Reworks
  <2>6. Grown
    BY <1>2, <2>4, <2>5 DEF Grown, Runs
  <2>7. Answered(c) = Capture(c)
    BY <1>5 DEF Answered, Calculate
  <2>8. \A x \in Cells(c.slice) :
           Capture(c).input[x] # None => Capture(c).input[x] \in Values'
    BY <1>2, CaptureIsStored
  <2>9. \A g \in pages : Founded(g)
    BY DEF ScenarioInv, Copies
  <2>10. \A g \in pages' : Founded(g)'
    BY <2>2, <2>3, <2>4, <2>5, <2>6, <2>7, <2>8, <2>9, RenderedIsFounded
  <2>11. \A g \in Copies' : Founded(g)'
    <3>1. ASSUME NEW k \in Reworks' PROVE receipts'[k].page \in Copies
      BY <2>4, <2>5, <3>1 DEF Copies, Reworks
    <3>2. \A g \in Copies' : g \in pages' \/ g \in Copies
      BY <3>1 DEF Copies
    <3> QED
      BY <2>6, <2>10, <3>2, FoundedStays DEF ScenarioInv
  <2>12. RunsAreStored'
    <3> SUFFICES ASSUME NEW k \in Runs', NEW x \in Cells(receipts'[k].request.slice),
                        receipts'[k].snapshot.input[x] # None
                 PROVE  receipts'[k].snapshot.input[x] \in Values'
      BY DEF RunsAreStored, Cells, Targets
    <3>1. CASE k = c.key
      BY <2>3, <2>4, <2>8, <3>1
    <3>2. CASE k \in Runs
      BY <1>3, <2>6, <3>2, StoredStay DEF Grown
    <3> QED
      BY <2>5, <3>1, <3>2
  <2> QED
    BY <1>1, <2>4, <2>11, <2>12 DEF ScenarioInv
<1>6. ASSUME NEW c \in Calculation, ReplayRun(c) PROVE ScenarioInv'
  <2>1. receipts' = receipts /\ Render(c) /\ CalculationOutcome(c) = "REPLAYED"
    BY <1>6 DEF ReplayRun
  <2>2. Runs' = Runs /\ Reworks' = Reworks
    BY <2>1 DEF Runs, Reworks
  <2>3. Grown
    BY <1>2, <2>1, <2>2 DEF Grown
  <2>4. c.key \in Runs /\ receipts[c.key].request = c
    BY <2>1 DEF CalculationOutcome
  <2>5. Answered(c) = receipts[c.key].snapshot
    BY <2>1 DEF Answered
  <2>6. \A x \in Cells(c.slice) :
           Answered(c).input[x] # None => Answered(c).input[x] \in Values'
    BY <1>3, <2>3, <2>4, <2>5 DEF RunsAreStored, Grown
  <2>7. \A g \in pages : Founded(g)
    BY DEF ScenarioInv, Copies
  <2>8. \A g \in pages' : Founded(g)'
    BY <2>1, <2>2, <2>3, <2>4, <2>5, <2>6, <2>7, RenderedIsFounded
  <2>9. \A g \in Copies' : Founded(g)'
    BY <2>1, <2>2, <2>3, <2>8, FoundedStays DEF ScenarioInv, Copies
  <2>10. RunsAreStored'
    BY <1>3, <2>1, <2>2, <2>3, StoredStay DEF RunsAreStored, Cells, Targets
  <2> QED
    BY <1>1, <1>3, <2>1, <2>9, <2>10 DEF ScenarioInv
<1>7. ASSUME NEW k \in ReworkKey, NEW g \in pages, NEW action \in Action,
             NEW figure \in Figure \cup {None}, NEW x \in DOMAIN g.overrides,
             Rework(k, g, action, x, figure)
      PROVE  ScenarioInv'
  <2> DEFINE next == Edited(g, action, x, figure)
             row == [kind |-> "SCENARIO", page |-> next]
  <2>1. /\ receipts' = [receipts EXCEPT ![k] = row]
        /\ pages' = pages \cup {next}
        /\ receipts[k] = None \/ k \in Reworks
        /\ action = "set" => Overridable(g, x)
    BY <1>7 DEF Rework, KeyTaken
  <2>2. k \in Key /\ k \notin Runs
    BY <2>1, CalculationAssumption DEF Runs, Reworks
  <2>3. Founded(g)
    BY DEF ScenarioInv, Copies
  <2>4. Founded(next)
    BY <2>1, <2>3, EditedIsFounded
  <2>5. row.kind = "SCENARIO" /\ row.page = next
    OBVIOUS
  <2> HIDE DEF next, row
  <2>6. /\ receipts' = [l \in Key |-> receipts'[l]]
        /\ receipts'[k] = row
        /\ \A l \in Key \ {k} : receipts'[l] = receipts[l]
    BY <1>3, <2>1, <2>2
  <2>7. Runs' = Runs
    BY <2>2, <2>5, <2>6 DEF Runs
  <2>8. Grown
    BY <1>2, <2>2, <2>6, <2>7 DEF Grown, Runs
  <2>9. Copies' \subseteq Copies \cup {next}
    BY <2>1, <2>5, <2>6 DEF Copies, Reworks
  <2>10. \A h \in Copies' : Founded(h)'
    BY <2>4, <2>8, <2>9, FoundedStays DEF ScenarioInv
  <2>11. RunsAreStored'
    BY <1>3, <2>7, <2>8, StoredStay DEF RunsAreStored, Grown, Cells, Targets
  <2> QED
    BY <1>1, <2>6, <2>10, <2>11 DEF ScenarioInv
<1> QED
  BY <1>4, <1>5, <1>6, <1>7 DEF RunsNext, runVars, PlayerStep, ScopeStep, ReworkStep

(* Whoever writes experiments meanwhile, and whatever keys are repeated,     *)
(* every working copy of a scenario, held by a page or kept by a receipt,    *)
(* stands on a run recorded for its user and replaces only its numbers.      *)
THEOREM ScenariosAlwaysStandOnRuns == RunsSpec => []ScenariosStandOnRuns
<1>1. ScenarioInv => ScenariosStandOnRuns
  BY DEF ScenarioInv, Founded, Copies, ScenariosStandOnRuns
<1> QED
  BY <1>1, InitialScenarios, StepScenarios, PTL DEF RunsSpec

-----------------------------------------------------------------------------
(* Every lane can be calculated.                                           *)

\* The end of a line is one, and what is current in a slice is such an end.
LEMMA CurrentIsOne ==
    ASSUME LineInv, NEW e \in Experiment, NEW t \in Target
    PROVE  /\ \A a, b \in CurrentAssessments(e, t) : a = b
           /\ \A p \in Parameter : \A u, v \in CurrentValues(e, t, p) : u = v
<1>1. ASSUME NEW a \in CurrentAssessments(e, t), NEW b \in CurrentAssessments(e, t) PROVE a = b
  <2>1. a \in RowsAt(e, t)
    BY CurrentAssessmentsAre
  <2>2. PICK h \in AssessmentId : CurrentAssessments(e, t) = {h}
    BY <2>1 DEF LineInv, HeadsAreOne
  <2> QED
    BY <2>2
<1>2. ASSUME NEW p \in Parameter, NEW u \in CurrentValues(e, t, p), NEW v \in CurrentValues(e, t, p)
      PROVE  u = v
  <2>1. u \in InCell(e, t, p)
    BY CurrentValuesAre
  <2>2. PICK h \in ValueId : CurrentValues(e, t, p) = {h}
    BY <2>1 DEF LineInv, HeadsAreOne
  <2> QED
    BY <2>2
<1> QED
  BY <1>1, <1>2

LEMMA TerminalIsCurrent ==
    ASSUME LineInv, NEW e \in Experiment, NEW s \in Slice, NEW v \in Terminal(e, s)
    PROVE  /\ v[2] \in Targets(s) /\ v[3] \in Parameter
           /\ CellOf(v) = <<v[2], v[3]>>
           /\ v \in CurrentValues(e, v[2], v[3])
           /\ CurrentAssessments(e, v[2]) # {}
<1>1. /\ v \in Values /\ ExperimentOf(v) = e /\ SliceOf[v[2]] = s /\ ~HasSuccessor(v)
      /\ v \in ValueId
  BY DEF Terminal, Values
<1>2. v[2] \in Target /\ v[3] \in Parameter
  BY <1>1 DEF ValueId
<1>3. values[v].assessment \in Assessments /\ values[v].assessment[2] = v[2]
  BY <1>1 DEF LineInv, ValuesAreLinked
<1>4. v \in CurrentValues(e, v[2], v[3])
  BY <1>1, <1>2, CurrentValuesAre DEF InCell, HasSuccessor, Values
<1>5. values[v].assessment \in RowsAt(e, v[2])
  BY <1>1, <1>3 DEF RowsAt, ExperimentOf
<1>6. CurrentAssessments(e, v[2]) # {}
  <2>1. PICK h \in AssessmentId : CurrentAssessments(e, v[2]) = {h}
    BY <1>2, <1>5 DEF LineInv, HeadsAreOne
  <2> QED
    BY <2>1
<1> QED
  BY <1>1, <1>2, <1>3, <1>4, <1>6 DEF Targets, CellOf

LEMMA LinesAreCalculable == LineInv => AlwaysCalculable
<1> SUFFICES ASSUME LineInv, NEW e \in Experiment, NEW s \in Slice
             PROVE  ~Ambiguous(e, s)
  BY DEF AlwaysCalculable
<1>1. ASSUME NEW t \in Targets(s), NEW a \in CurrentAssessments(e, t),
             NEW b \in CurrentAssessments(e, t)
      PROVE  a = b
  BY CurrentIsOne DEF Targets
<1>2. ASSUME NEW v \in Terminal(e, s)
      PROVE  CellOf(v) \in Cells(s) /\ CurrentAssessments(e, CellOf(v)[1]) # {}
  BY TerminalIsCurrent DEF Cells
<1>3. ASSUME NEW v \in Terminal(e, s), NEW u \in Terminal(e, s), CellOf(u) = CellOf(v)
      PROVE  u = v
  <2>1. v[2] = u[2] /\ v[3] = u[3]
    BY <1>3, TerminalIsCurrent
  <2>2. u \in CurrentValues(e, v[2], v[3]) /\ v \in CurrentValues(e, v[2], v[3])
    BY <2>1, TerminalIsCurrent
  <2>3. v[2] \in Target /\ v[3] \in Parameter
    BY TerminalIsCurrent DEF Targets
  <2> QED
    BY <2>2, <2>3, CurrentIsOne
<1> QED
  BY <1>1, <1>2, <1>3 DEF Ambiguous

(* No history of legal entries, corrections and imports makes an experiment  *)
(* that a baseline run would refuse as ambiguous.                            *)
THEOREM LanesAlwaysCalculable == RunsSpec => []AlwaysCalculable
  BY ExperimentsServed, InitialLines, StepLines, LinesAreCalculable, PTL DEF ExperimentsSpec

-----------------------------------------------------------------------------
(* What a row leads back to, without recursion: whatever holds of the row    *)
(* and passes from a row to its predecessor holds of it.                     *)

ValuesClosed(S) ==
    \A u \in Values : u \in S /\ values[u].supersedes # None => values[u].supersedes \in S
LeadsBack(v, w) == \A S : v \in S /\ ValuesClosed(S) => w \in S

AssessmentsClosed(S) ==
    \A a \in Assessments :
        a \in S /\ assessments[a].supersedes # None => assessments[a].supersedes \in S
TracesBack(a, b) == \A S : a \in S /\ AssessmentsClosed(S) => b \in S

\* A function that adds a row to what its predecessor has.
CollectsValues(f) ==
    /\ DOMAIN f = Values
    /\ \A u \in Values :
          f[u] = {u} \cup IF values[u].supersedes = None THEN {} ELSE f[values[u].supersedes]
CollectsAssessments(f) ==
    /\ DOMAIN f = Assessments
    /\ \A a \in Assessments :
          f[a] = {a} \cup IF assessments[a].supersedes = None THEN {}
                          ELSE f[assessments[a].supersedes]

LEMMA ValuesCollect ==
    ASSUME ValuesAreLinked
    PROVE  CollectsValues([u \in Values |-> {w \in Values : LeadsBack(u, w)}])
<1> DEFINE f == [u \in Values |-> {w \in Values : LeadsBack(u, w)}]
<1>1. ASSUME NEW u \in Values
      PROVE  f[u] = {u} \cup IF values[u].supersedes = None THEN {} ELSE f[values[u].supersedes]
  <2>1. LeadsBack(u, u)
    BY DEF LeadsBack
  <2>2. CASE values[u].supersedes = None
    <3>1. ValuesClosed({u})
      BY <2>2 DEF ValuesClosed
    <3>2. \A w : LeadsBack(u, w) => w = u
      BY <3>1 DEF LeadsBack
    <3> QED
      BY <2>1, <2>2, <3>2
  <2>3. CASE values[u].supersedes # None
    <3> DEFINE b == values[u].supersedes
    <3>1. b \in Values
      BY <2>3 DEF ValuesAreLinked
    <3>2. ASSUME NEW w, LeadsBack(b, w) PROVE LeadsBack(u, w)
      <4> SUFFICES ASSUME NEW S, u \in S, ValuesClosed(S) PROVE w \in S
        BY DEF LeadsBack
      <4>1. b \in S
        BY <2>3 DEF ValuesClosed
      <4> QED
        BY <3>2, <4>1 DEF LeadsBack
    <3>3. ASSUME NEW w, LeadsBack(u, w), w # u PROVE LeadsBack(b, w)
      <4> SUFFICES ASSUME NEW S, b \in S, ValuesClosed(S) PROVE w \in S
        BY DEF LeadsBack
      <4>1. ValuesClosed(S \cup {u})
        BY DEF ValuesClosed
      <4> QED
        BY <3>3, <4>1 DEF LeadsBack
    <3>4. f[u] = {w \in Values : LeadsBack(u, w)} /\ f[b] = {w \in Values : LeadsBack(b, w)}
      BY <3>1
    <3> HIDE DEF f
    <3>5. \A w : w \in f[u] <=> w = u \/ w \in f[b]
      BY <2>1, <3>2, <3>3, <3>4
    <3> QED
      BY <2>3, <3>5
  <2> QED
    BY <2>2, <2>3
<1>2. DOMAIN f = Values
  OBVIOUS
<1> HIDE DEF f
<1> QED
  BY <1>1, <1>2 DEF CollectsValues, f

LEMMA AssessmentsCollect ==
    ASSUME AssessmentsAreLinked
    PROVE  CollectsAssessments([a \in Assessments |-> {b \in Assessments : TracesBack(a, b)}])
<1> DEFINE f == [a \in Assessments |-> {b \in Assessments : TracesBack(a, b)}]
<1>1. ASSUME NEW a \in Assessments
      PROVE  f[a] = {a} \cup IF assessments[a].supersedes = None THEN {}
                             ELSE f[assessments[a].supersedes]
  <2>1. TracesBack(a, a)
    BY DEF TracesBack
  <2>2. CASE assessments[a].supersedes = None
    <3>1. AssessmentsClosed({a})
      BY <2>2 DEF AssessmentsClosed
    <3>2. \A b : TracesBack(a, b) => b = a
      BY <3>1 DEF TracesBack
    <3> QED
      BY <2>1, <2>2, <3>2
  <2>3. CASE assessments[a].supersedes # None
    <3> DEFINE p == assessments[a].supersedes
    <3>1. p \in Assessments
      BY <2>3 DEF AssessmentsAreLinked
    <3>2. ASSUME NEW b, TracesBack(p, b) PROVE TracesBack(a, b)
      <4> SUFFICES ASSUME NEW S, a \in S, AssessmentsClosed(S) PROVE b \in S
        BY DEF TracesBack
      <4>1. p \in S
        BY <2>3 DEF AssessmentsClosed
      <4> QED
        BY <3>2, <4>1 DEF TracesBack
    <3>3. ASSUME NEW b, TracesBack(a, b), b # a PROVE TracesBack(p, b)
      <4> SUFFICES ASSUME NEW S, p \in S, AssessmentsClosed(S) PROVE b \in S
        BY DEF TracesBack
      <4>1. AssessmentsClosed(S \cup {a})
        BY DEF AssessmentsClosed
      <4> QED
        BY <3>3, <4>1 DEF TracesBack
    <3>4. f[a] = {b \in Assessments : TracesBack(a, b)} /\ f[p] = {b \in Assessments : TracesBack(p, b)}
      BY <3>1
    <3> HIDE DEF f
    <3>5. \A b : b \in f[a] <=> b = a \/ b \in f[p]
      BY <2>1, <3>2, <3>3, <3>4
    <3> QED
      BY <2>3, <3>5
  <2> QED
    BY <2>2, <2>3
<1>2. DOMAIN f = Assessments
  OBVIOUS
<1> HIDE DEF f
<1> QED
  BY <1>1, <1>2 DEF CollectsAssessments, f

\* So a function of the recursive definition exists, and whatever one it is, it
\* has all that a row leads back to.
LEMMA LeadsBackIsCorrected ==
    ASSUME ValuesAreLinked, NEW v \in Values, NEW w \in Values, LeadsBack(v, w)
    PROVE  w \in Corrected(v)
<1> DEFINE up == CHOOSE f : f = [u \in Values |->
                    {u} \cup IF values[u].supersedes = None THEN {} ELSE f[values[u].supersedes]]
<1>1. \E f : f = [u \in Values |->
                    {u} \cup IF values[u].supersedes = None THEN {} ELSE f[values[u].supersedes]]
  <2> DEFINE g == [u \in Values |-> {x \in Values : LeadsBack(u, x)}]
  <2>1. CollectsValues(g)
    BY ValuesCollect
  <2>2. g = [u \in Values |-> g[u]]
    OBVIOUS
  <2> HIDE DEF g
  <2>3. g = [u \in Values |->
               {u} \cup IF values[u].supersedes = None THEN {} ELSE g[values[u].supersedes]]
    BY <2>1, <2>2 DEF CollectsValues
  <2> QED
    BY <2>3
<1>2. up = [u \in Values |->
              {u} \cup IF values[u].supersedes = None THEN {} ELSE up[values[u].supersedes]]
  BY <1>1
<1> HIDE DEF up
<1> DEFINE S == {u \in Values : up[u] \subseteq up[v]}
<1>3. \A u \in Values :
         up[u] = {u} \cup IF values[u].supersedes = None THEN {} ELSE up[values[u].supersedes]
  BY <1>2
<1>4. ValuesClosed(S)
  <2> SUFFICES ASSUME NEW u \in Values, u \in S, values[u].supersedes # None
               PROVE  values[u].supersedes \in S
    BY DEF ValuesClosed
  <2>1. values[u].supersedes \in Values
    BY DEF ValuesAreLinked
  <2>2. up[values[u].supersedes] \subseteq up[u]
    BY <1>3
  <2> QED
    BY <2>1, <2>2
<1>5. w \in S
  BY <1>4 DEF LeadsBack
<1>6. w \in up[v]
  BY <1>3, <1>5
<1> QED
  BY <1>6 DEF Corrected, up

LEMMA TracesBackIsLineage ==
    ASSUME AssessmentsAreLinked, NEW a \in Assessments, NEW b \in Assessments, TracesBack(a, b)
    PROVE  b \in Lineage(a)
<1> DEFINE up == CHOOSE f : f = [c \in Assessments |->
                    {c} \cup IF assessments[c].supersedes = None THEN {}
                             ELSE f[assessments[c].supersedes]]
<1>1. \E f : f = [c \in Assessments |->
                    {c} \cup IF assessments[c].supersedes = None THEN {}
                             ELSE f[assessments[c].supersedes]]
  <2> DEFINE g == [c \in Assessments |-> {x \in Assessments : TracesBack(c, x)}]
  <2>1. CollectsAssessments(g)
    BY AssessmentsCollect
  <2>2. g = [c \in Assessments |-> g[c]]
    OBVIOUS
  <2> HIDE DEF g
  <2>3. g = [c \in Assessments |->
               {c} \cup IF assessments[c].supersedes = None THEN {}
                        ELSE g[assessments[c].supersedes]]
    BY <2>1, <2>2 DEF CollectsAssessments
  <2> QED
    BY <2>3
<1>2. up = [c \in Assessments |->
              {c} \cup IF assessments[c].supersedes = None THEN {}
                       ELSE up[assessments[c].supersedes]]
  BY <1>1
<1> HIDE DEF up
<1> DEFINE S == {c \in Assessments : up[c] \subseteq up[a]}
<1>3. \A c \in Assessments :
         up[c] = {c} \cup IF assessments[c].supersedes = None THEN {}
                          ELSE up[assessments[c].supersedes]
  BY <1>2
<1>4. AssessmentsClosed(S)
  <2> SUFFICES ASSUME NEW c \in Assessments, c \in S, assessments[c].supersedes # None
               PROVE  assessments[c].supersedes \in S
    BY DEF AssessmentsClosed
  <2>1. assessments[c].supersedes \in Assessments
    BY DEF AssessmentsAreLinked
  <2>2. up[assessments[c].supersedes] \subseteq up[c]
    BY <1>3
  <2> QED
    BY <2>1, <2>2
<1>5. b \in S
  BY <1>4 DEF TracesBack
<1>6. b \in up[a]
  BY <1>3, <1>5
<1> QED
  BY <1>6 DEF Lineage, up

-----------------------------------------------------------------------------
(* The runs of an experiment are in one order.                             *)

\* Every row of a line is behind its end.
CellsLeadBack ==
    \A e \in Experiment, t \in Target, p \in Parameter :
        \A h \in CurrentValues(e, t, p), v \in InCell(e, t, p) : LeadsBack(h, v)
TargetsTraceBack ==
    \A e \in Experiment, t \in Target :
        \A h \in CurrentAssessments(e, t), a \in RowsAt(e, t) : TracesBack(h, a)

EndsInv == LineInv /\ CellsLeadBack /\ TargetsTraceBack

LEMMA WaysStay ==
    ASSUME Kept
    PROVE  /\ \A v, w : LeadsBack(v, w) => LeadsBack(v, w)'
           /\ \A a, b : TracesBack(a, b) => TracesBack(a, b)'
<1>1. \A S : ValuesClosed(S)' => ValuesClosed(S)
  BY DEF ValuesClosed, Kept
<1>2. \A S : AssessmentsClosed(S)' => AssessmentsClosed(S)
  BY DEF AssessmentsClosed, Kept
<1>3. ASSUME NEW v, NEW w, LeadsBack(v, w) PROVE LeadsBack(v, w)'
  BY <1>1, <1>3 DEF LeadsBack
<1>4. ASSUME NEW a, NEW b, TracesBack(a, b) PROVE TracesBack(a, b)'
  BY <1>2, <1>4 DEF TracesBack
<1> QED
  BY <1>3, <1>4

\* Where a line is as it was, all is still behind its end.
LEMMA QuietCellLeadsBack ==
    ASSUME Kept, CellsLeadBack, NEW e \in Experiment, NEW t \in Target, NEW p \in Parameter,
           InCell(e, t, p)' = InCell(e, t, p), CurrentValues(e, t, p)' = CurrentValues(e, t, p)
    PROVE  \A h \in CurrentValues(e, t, p)', v \in InCell(e, t, p)' : LeadsBack(h, v)'
  BY WaysStay DEF CellsLeadBack

LEMMA QuietTargetTracesBack ==
    ASSUME Kept, TargetsTraceBack, NEW e \in Experiment, NEW t \in Target,
           RowsAt(e, t)' = RowsAt(e, t), CurrentAssessments(e, t)' = CurrentAssessments(e, t)
    PROVE  \A h \in CurrentAssessments(e, t)', a \in RowsAt(e, t)' : TracesBack(h, a)'
  BY WaysStay DEF TargetsTraceBack

\* A correction leads back to what it corrects, and on from there.
LEMMA RecordingLeadsBack ==
    ASSUME EndsInv, NEW r \in Request, RecordValue(r)
    PROVE  \A h \in CurrentValues(r.experiment, r.target, r.parameter)',
              v \in InCell(r.experiment, r.target, r.parameter)' : LeadsBack(h, v)'
<1> DEFINE w == <<r.key, r.target, r.parameter>>
<1>1. /\ Values' = Values \cup {w} /\ values'[w].supersedes = r.supersedes
      /\ r.experiment \in Experiment /\ r.target \in Target /\ r.parameter \in Parameter
  <2>1. values'[w] = [assessment |-> AttachedTo(r), supersedes |-> r.supersedes,
                      status |-> r.status]
    BY RowsRecorded DEF EndsInv, LineInv, ReplayInv
  <2>2. values'[w].supersedes = r.supersedes
    BY <2>1
  <2>3. Values' = Values \cup {w}
    BY RowsRecorded DEF EndsInv, LineInv, ReplayInv
  <2> QED
    BY <2>2, <2>3, RowsRecorded DEF EndsInv, LineInv, ReplayInv
<1>2. CurrentValues(r.experiment, r.target, r.parameter)' = {w}
  BY CellsAfterRecording DEF EndsInv
<1>3. Kept
  BY OperationsKeep DEF EndsInv, LineInv, ReplayInv, Operation
<1>4. ASSUME NEW v \in InCell(r.experiment, r.target, r.parameter)'
      PROVE  v = w \/ v \in InCell(r.experiment, r.target, r.parameter)
  <2>1. v \in Values' /\ (ExperimentOf(v)' = r.experiment) /\ v[2] = r.target /\ v[3] = r.parameter
    BY <1>4 DEF InCell
  <2>2. v \in Values => ExperimentOf(v)' = ExperimentOf(v)
    BY <1>3, PlacesStay DEF EndsInv, LineInv, ReplayInv
  <2> QED
    BY <1>1, <2>1, <2>2 DEF InCell
<1> HIDE DEF w
<1>5. LeadsBack(w, w)'
  BY DEF LeadsBack
<1>6. ASSUME NEW v \in InCell(r.experiment, r.target, r.parameter) PROVE LeadsBack(w, v)'
  <2>1. r.supersedes # None /\ CurrentValues(r.experiment, r.target, r.parameter) = {r.supersedes}
    BY <1>6, RecordedAtHead DEF EndsInv
  <2>2. LeadsBack(r.supersedes, v)
    BY <1>1, <2>1 DEF EndsInv, CellsLeadBack
  <2>3. LeadsBack(r.supersedes, v)'
    BY <1>3, <2>2, WaysStay
  <2>4. \A S : w \in S /\ ValuesClosed(S)' => r.supersedes \in S
    BY <1>1, <2>1 DEF ValuesClosed
  <2> QED
    BY <2>3, <2>4 DEF LeadsBack
<1> QED
  BY <1>2, <1>4, <1>5, <1>6

LEMMA RecordingTracesBack ==
    ASSUME EndsInv, NEW r \in Request, RecordValue(r), NeedsVersion(r)
    PROVE  \A h \in CurrentAssessments(r.experiment, r.target)',
              a \in RowsAt(r.experiment, r.target)' : TracesBack(h, a)'
<1> DEFINE n == <<r.key, r.target>>
<1>1. /\ n \in Assessments' /\ assessments'[n] = NewAssessment(r)
      /\ r.experiment \in Experiment /\ r.target \in Target /\ r.op = "VALUE"
  BY RowsRecorded DEF EndsInv, LineInv, ReplayInv
<1>2. /\ CurrentAssessments(r.experiment, r.target)' = {n}
      /\ RowsAt(r.experiment, r.target)' = RowsAt(r.experiment, r.target) \cup {n}
  BY TargetsAfterRecording DEF EndsInv
<1>3. Kept
  BY OperationsKeep DEF EndsInv, LineInv, ReplayInv, Operation
<1> HIDE DEF n
<1>4. TracesBack(n, n)'
  BY DEF TracesBack
<1>5. assessments'[n].supersedes = CurrentAssessment(r.experiment, r.target)
  BY <1>1, NewRowFields DEF EndsInv, LineInv, ReplayInv, LaneInv
<1>6. ASSUME NEW a \in RowsAt(r.experiment, r.target) PROVE TracesBack(n, a)'
  <2> DEFINE b == CurrentAssessment(r.experiment, r.target)
  <2>1. b # None /\ CurrentAssessments(r.experiment, r.target) = {b}
    BY <1>1, <1>6, TheHead DEF EndsInv
  <2>2. TracesBack(b, a)
    BY <1>1, <2>1 DEF EndsInv, TargetsTraceBack
  <2>3. PICK c : c = b
    OBVIOUS
  <2> HIDE DEF b
  <2>4. TracesBack(c, a)'
    BY <1>3, <2>2, <2>3, WaysStay
  <2>5. \A S : n \in S /\ AssessmentsClosed(S)' => c \in S
    BY <1>1, <1>5, <2>1, <2>3 DEF AssessmentsClosed, b
  <2> QED
    BY <2>4, <2>5 DEF TracesBack
<1> QED
  BY <1>2, <1>4, <1>6

LEMMA ImportLeadsBack ==
    ASSUME EndsInv, NEW r \in Request, ImportWorkbook(r), NEW t \in Target
    PROVE  /\ \A p \in Parameter :
                 \A h \in CurrentValues(r.experiment, t, p)', v \in InCell(r.experiment, t, p)' :
                    LeadsBack(h, v)'
           /\ \A h \in CurrentAssessments(r.experiment, t)', a \in RowsAt(r.experiment, t)' :
                 TracesBack(h, a)'
<1>1. r.experiment \in Experiment
  BY RowsImported DEF EndsInv
<1>2. ASSUME NEW p \in Parameter, NEW h \in CurrentValues(r.experiment, t, p)',
             NEW v \in InCell(r.experiment, t, p)'
      PROVE  LeadsBack(h, v)'
  <2>1. h = v
    BY <1>1, <1>2, CellsAfterImport DEF EndsInv
  <2> QED
    BY <2>1 DEF LeadsBack
<1>3. ASSUME NEW h \in CurrentAssessments(r.experiment, t)', NEW a \in RowsAt(r.experiment, t)'
      PROVE  TracesBack(h, a)'
  <2>1. h = a
    BY <1>1, <1>3, TargetsAfterImport DEF EndsInv
  <2> QED
    BY <2>1 DEF TracesBack
<1> QED
  BY <1>2, <1>3

LEMMA InitialEnds == ExperimentsInit => EndsInv
<1> SUFFICES ASSUME ExperimentsInit PROVE EndsInv
  OBVIOUS
<1>1. Assessments = {} /\ Values = {}
  BY DEF ExperimentsInit, Assessments, Values
<1> QED
  BY <1>1, InitialLines DEF EndsInv, CellsLeadBack, TargetsTraceBack, InCell, RowsAt

LEMMA StepEnds == EndsInv /\ [ExperimentsNext]_vars => EndsInv'
<1> SUFFICES ASSUME EndsInv, [ExperimentsNext]_vars PROVE EndsInv'
  OBVIOUS
<1>1. LineInv'
  BY StepLines DEF EndsInv
<1>2. LineInv /\ LaneInv /\ CellsLeadBack /\ TargetsTraceBack
  BY DEF EndsInv, LineInv, ReplayInv
<1>3. ASSUME NEW r \in Request, RecordValue(r) PROVE CellsLeadBack' /\ TargetsTraceBack'
  <2>1. Kept
    BY <1>2, <1>3, OperationsKeep DEF Operation
  <2>2. ASSUME NEW e \in Experiment, NEW t \in Target, NEW p \in Parameter
        PROVE  \A h \in CurrentValues(e, t, p)', v \in InCell(e, t, p)' : LeadsBack(h, v)'
    <3>1. CASE <<e, t, p>> # <<r.experiment, r.target, r.parameter>>
      BY <1>2, <1>3, <2>1, <3>1, CellsAfterRecording, QuietCellLeadsBack
    <3>2. CASE <<e, t, p>> = <<r.experiment, r.target, r.parameter>>
      BY <1>3, <3>2, RecordingLeadsBack
    <3> QED
      BY <3>1, <3>2
  <2>3. ASSUME NEW e \in Experiment, NEW t \in Target
        PROVE  \A h \in CurrentAssessments(e, t)', a \in RowsAt(e, t)' : TracesBack(h, a)'
    <3>1. CASE ~NeedsVersion(r) \/ <<e, t>> # <<r.experiment, r.target>>
      BY <1>2, <1>3, <2>1, <3>1, TargetsAfterRecording, QuietTargetTracesBack
    <3>2. CASE NeedsVersion(r) /\ <<e, t>> = <<r.experiment, r.target>>
      BY <1>3, <3>2, RecordingTracesBack
    <3> QED
      BY <3>1, <3>2
  <2> QED
    BY <2>2, <2>3 DEF CellsLeadBack, TargetsTraceBack
<1>4. ASSUME NEW r \in Request, ImportWorkbook(r) PROVE CellsLeadBack' /\ TargetsTraceBack'
  <2>1. Kept
    BY <1>2, <1>4, OperationsKeep DEF Operation
  <2>2. ASSUME NEW e \in Experiment, NEW t \in Target, NEW p \in Parameter
        PROVE  \A h \in CurrentValues(e, t, p)', v \in InCell(e, t, p)' : LeadsBack(h, v)'
    <3>1. CASE e # r.experiment
      BY <1>2, <1>4, <2>1, <3>1, CellsAfterImport, QuietCellLeadsBack
    <3>2. CASE e = r.experiment
      BY <1>4, <3>2, ImportLeadsBack
    <3> QED
      BY <3>1, <3>2
  <2>3. ASSUME NEW e \in Experiment, NEW t \in Target
        PROVE  \A h \in CurrentAssessments(e, t)', a \in RowsAt(e, t)' : TracesBack(h, a)'
    <3>1. CASE e # r.experiment
      BY <1>2, <1>4, <2>1, <3>1, TargetsAfterImport, QuietTargetTracesBack
    <3>2. CASE e = r.experiment
      BY <1>4, <3>2, ImportLeadsBack
    <3> QED
      BY <3>1, <3>2
  <2> QED
    BY <2>2, <2>3 DEF CellsLeadBack, TargetsTraceBack
<1>5. CASE UNCHANGED <<assessments, values>>
  <2>1. Assessments' = Assessments /\ Values' = Values
    BY <1>5 DEF Assessments, Values
  <2>2. \A e, t, p : (CurrentValues(e, t, p)' = CurrentValues(e, t, p)) /\ (InCell(e, t, p)' = InCell(e, t, p))
    BY <1>5, <2>1 DEF CurrentValues, HasSuccessor, ExperimentOf, InCell
  <2>3. \A e, t : (CurrentAssessments(e, t)' = CurrentAssessments(e, t)) /\ (RowsAt(e, t)' = RowsAt(e, t))
    BY <1>5, <2>1 DEF CurrentAssessments, RowsAt
  <2>4. \A v, w : LeadsBack(v, w)' <=> LeadsBack(v, w)
    BY <1>5, <2>1 DEF LeadsBack, ValuesClosed
  <2>5. \A a, b : TracesBack(a, b)' <=> TracesBack(a, b)
    BY <1>5, <2>1 DEF TracesBack, AssessmentsClosed
  <2>6. CellsLeadBack'
    BY <1>2, <2>2, <2>4 DEF CellsLeadBack
  <2> QED
    BY <1>1, <1>2, <2>3, <2>5, <2>6 DEF TargetsTraceBack, EndsInv
<1>6. CASE \E r \in Request : RecordValue(r) \/ ImportWorkbook(r)
  BY <1>1, <1>3, <1>4, <1>6 DEF EndsInv
<1>7. CASE ~\E r \in Request : RecordValue(r) \/ ImportWorkbook(r)
  <2>1. UNCHANGED <<assessments, values>>
    BY <1>7, RowsOrNot DEF ExperimentsNext, ChangeScope, vars
  <2> QED
    BY <1>1, <1>5, <2>1 DEF EndsInv
<1> QED
  BY <1>6, <1>7

-----------------------------------------------------------------------------
\* A snapshot names rows of the cells and targets that it read.
ReadFrom(s) ==
    /\ s.experiment \in Experiment
    /\ DOMAIN s.input = Cells(s.slice) /\ DOMAIN s.header = Targets(s.slice)
    /\ \A x \in DOMAIN s.input :
          s.input[x] # None => s.input[x] \in InCell(s.experiment, x[1], x[2])
    /\ \A y \in DOMAIN s.header :
          s.header[y] # None => s.header[y] \in RowsAt(s.experiment, y)

\* What one snapshot read is behind what the other read.
Before(s, t) ==
    /\ \A x \in DOMAIN s.input :
          s.input[x] # None => t.input[x] # None /\ LeadsBack(t.input[x], s.input[x])
    /\ \A y \in DOMAIN s.header :
          s.header[y] # None => t.header[y] # None /\ TracesBack(t.header[y], s.header[y])

SamePlace(s, t) == s.experiment = t.experiment /\ s.slice = t.slice

OrderInv ==
    /\ ScenarioInv
    /\ EndsInv
    /\ \A k \in Runs : ReadFrom(receipts[k].snapshot)
    /\ \A k, l \in Runs :
          SamePlace(receipts[k].snapshot, receipts[l].snapshot) =>
             \/ Before(receipts[k].snapshot, receipts[l].snapshot)
             \/ Before(receipts[l].snapshot, receipts[k].snapshot)

LEMMA ReadStays ==
    ASSUME Kept, LineInv, NEW s, ReadFrom(s)
    PROVE  ReadFrom(s)'
<1>1. /\ \A e, t : RowsAt(e, t) \subseteq RowsAt(e, t)'
      /\ \A e, t, p : InCell(e, t, p) \subseteq InCell(e, t, p)'
  BY PlacesStay DEF LineInv, ReplayInv
<1> QED
  BY <1>1 DEF ReadFrom, Cells, Targets

LEMMA BeforeStays ==
    ASSUME Kept, NEW s, NEW t, Before(s, t)
    PROVE  Before(s, t)'
  BY WaysStay DEF Before

\* What a run captures is what is current.
LEMMA CaptureFields ==
    ASSUME NEW c
    PROVE  /\ Capture(c).experiment = c.experiment /\ Capture(c).slice = c.slice
           /\ DOMAIN Capture(c).input = Cells(c.slice)
           /\ DOMAIN Capture(c).header = Targets(c.slice)
           /\ \A t \in Targets(c.slice) : Capture(c).header[t] = CurrentAssessment(c.experiment, t)
  BY DEF Capture

LEMMA CaptureIsCurrent ==
    ASSUME LineInv, NEW c \in Calculation, NEW t \in Targets(c.slice), NEW p \in Parameter
    PROVE  /\ Capture(c).input[<<t, p>>] = None => InCell(c.experiment, t, p) = {}
           /\ Capture(c).input[<<t, p>>] # None =>
                 Capture(c).input[<<t, p>>] \in CurrentValues(c.experiment, t, p)
<1> DEFINE x == <<t, p>>
           now == {v \in Terminal(c.experiment, c.slice) : CellOf(v) = x}
<1>1. Capture(c).input[x] = IF now = {} THEN None ELSE CHOOSE v \in now : TRUE
  BY DEF Capture, Cells
<1>2. c.experiment \in Experiment /\ c.slice \in Slice /\ t \in Target
  BY CalculationAssumption DEF CalculationType, Targets
<1>3. ASSUME NEW v \in now PROVE v \in CurrentValues(c.experiment, t, p)
  <2>1. /\ CellOf(v) = <<v[2], v[3]>> /\ CellOf(v) = <<t, p>>
        /\ v \in CurrentValues(c.experiment, v[2], v[3])
    BY <1>2, <1>3, TerminalIsCurrent DEF LineInv
  <2> QED
    BY <2>1
<1>4. ASSUME NEW v \in CurrentValues(c.experiment, t, p) PROVE v \in now
  <2>1. /\ v \in Values /\ v \in ValueId /\ ExperimentOf(v) = c.experiment
        /\ v[2] = t /\ v[3] = p /\ \A u \in Values : values[u].supersedes # v
    <3> DEFINE e == c.experiment
    <3>1. e \in Experiment /\ v \in CurrentValues(e, t, p)
      BY <1>2, <1>4
    <3> HIDE DEF e
    <3>2. v \in InCell(e, t, p) /\ \A u \in Values : values[u].supersedes # v
      BY <1>2, <3>1, CurrentValuesAre
    <3>3. v \in Values /\ ExperimentOf(v) = e /\ v[2] = t /\ v[3] = p
      BY <3>2 DEF InCell
    <3> QED
      BY <3>2, <3>3 DEF Values, e
  <2>2. v \in Terminal(c.experiment, c.slice)
    BY <2>1 DEF Terminal, HasSuccessor, Values, Targets
  <2>3. CellOf(v) = <<v[2], v[3]>>
    BY <1>2, <2>2, TerminalIsCurrent
  <2> QED
    BY <2>1, <2>2, <2>3
<1>5. \A v \in ValueId : v # None
  BY NoneAssumption
<1>6. now \subseteq ValueId
  BY DEF Terminal, Values
<1> HIDE DEF now
<1>7. CASE now = {}
  <2>1. CurrentValues(c.experiment, t, p) = {}
    BY <1>4, <1>7
  <2>2. InCell(c.experiment, t, p) = {}
    <3> DEFINE e == c.experiment
    <3>1. e \in Experiment /\ CurrentValues(e, t, p) = {}
      BY <1>2, <2>1
    <3> HIDE DEF e
    <3>2. HeadsAreOne
      BY DEF LineInv
    <3>3. InCell(e, t, p) # {} => \E h \in ValueId : CurrentValues(e, t, p) = {h}
      BY <1>2, <3>1, <3>2 DEF HeadsAreOne
    <3> QED
      BY <3>1, <3>3 DEF e
  <2> QED
    BY <1>1, <1>7, <2>2
<1>8. CASE now # {}
  <2>1. Capture(c).input[x] \in now
    BY <1>1, <1>8
  <2> QED
    BY <1>3, <1>5, <1>6, <2>1
<1> QED
  BY <1>7, <1>8

LEMMA CaptureIsRead ==
    ASSUME LineInv, NEW c \in Calculation
    PROVE  ReadFrom(Capture(c))
<1>1. c.experiment \in Experiment
  BY CalculationAssumption DEF CalculationType
<1>2. ASSUME NEW x \in Cells(c.slice), Capture(c).input[x] # None
      PROVE  Capture(c).input[x] \in InCell(c.experiment, x[1], x[2])
  <2>1. x = <<x[1], x[2]>> /\ x[1] \in Targets(c.slice) /\ x[1] \in Target /\ x[2] \in Parameter
    BY DEF Cells, Targets
  <2>2. Capture(c).input[x] \in CurrentValues(c.experiment, x[1], x[2])
    BY <1>2, <2>1, CaptureIsCurrent
  <2> QED
    BY <2>1, <2>2, CurrentValuesAre
<1>3. ASSUME NEW t \in Targets(c.slice), Capture(c).header[t] # None
      PROVE  Capture(c).header[t] \in RowsAt(c.experiment, t)
  BY <1>1, <1>3, CaptureFields, TheHead DEF Targets
<1> QED
  BY <1>1, <1>2, <1>3, CaptureFields DEF ReadFrom

LEMMA CaptureIsAfter ==
    ASSUME EndsInv, NEW c \in Calculation, NEW s, ReadFrom(s), SamePlace(s, Capture(c))
    PROVE  Before(s, Capture(c))
<1>1. s.experiment = c.experiment /\ s.slice = c.slice /\ c.experiment \in Experiment
  BY CaptureFields, CalculationAssumption DEF SamePlace, CalculationType
<1>2. ASSUME NEW x \in DOMAIN s.input, s.input[x] # None
      PROVE  /\ Capture(c).input[x] # None
             /\ LeadsBack(Capture(c).input[x], s.input[x])
  <2>1. /\ x = <<x[1], x[2]>> /\ x[1] \in Targets(c.slice) /\ x[1] \in Target
        /\ x[2] \in Parameter
    BY <1>1 DEF ReadFrom, Cells, Targets
  <2>2. s.input[x] \in InCell(c.experiment, x[1], x[2])
    BY <1>1, <1>2 DEF ReadFrom
  <2>3. Capture(c).input[x] # None
    BY <2>1, <2>2, CaptureIsCurrent DEF EndsInv
  <2>4. Capture(c).input[x] \in CurrentValues(c.experiment, x[1], x[2])
    BY <2>1, <2>3, CaptureIsCurrent DEF EndsInv
  <2> QED
    BY <1>1, <2>1, <2>2, <2>3, <2>4 DEF EndsInv, CellsLeadBack
<1>3. ASSUME NEW y \in DOMAIN s.header, s.header[y] # None
      PROVE  /\ Capture(c).header[y] # None
             /\ TracesBack(Capture(c).header[y], s.header[y])
  <2>1. y \in Targets(c.slice) /\ y \in Target
    BY <1>1 DEF ReadFrom, Targets
  <2>2. s.header[y] \in RowsAt(c.experiment, y)
    BY <1>1, <1>3 DEF ReadFrom
  <2>3. Capture(c).header[y] = CurrentAssessment(c.experiment, y)
    BY <2>1, CaptureFields
  <2>4. /\ CurrentAssessment(c.experiment, y) # None
        /\ CurrentAssessments(c.experiment, y) = {CurrentAssessment(c.experiment, y)}
    BY <1>1, <2>1, <2>2, TheHead DEF EndsInv
  <2> QED
    BY <1>1, <2>1, <2>2, <2>3, <2>4 DEF EndsInv, TargetsTraceBack
<1> QED
  BY <1>2, <1>3 DEF Before

LEMMA BeforeIsNotAfter ==
    ASSUME LineInv, NEW s, NEW t, ReadFrom(s), ReadFrom(t), SamePlace(s, t), Before(s, t)
    PROVE  NotAfter(s, t)
<1>1. ASSUME NEW x \in DOMAIN s.input, s.input[x] # None
      PROVE  t.input[x] # None /\ s.input[x] \in Corrected(t.input[x])
  <2>1. t.input[x] # None /\ LeadsBack(t.input[x], s.input[x])
    BY <1>1 DEF Before
  <2>2. s.input[x] \in Values /\ t.input[x] \in Values
    BY <1>1, <2>1 DEF ReadFrom, SamePlace, InCell
  <2> QED
    BY <2>1, <2>2, LeadsBackIsCorrected DEF LineInv
<1>2. ASSUME NEW y \in DOMAIN s.header, s.header[y] # None
      PROVE  t.header[y] # None /\ s.header[y] \in Lineage(t.header[y])
  <2>1. t.header[y] # None /\ TracesBack(t.header[y], s.header[y])
    BY <1>2 DEF Before
  <2>2. s.header[y] \in Assessments /\ t.header[y] \in Assessments
    BY <1>2, <2>1 DEF ReadFrom, SamePlace, RowsAt
  <2> QED
    BY <2>1, <2>2, TracesBackIsLineage DEF LineInv
<1> QED
  BY <1>1, <1>2 DEF NotAfter

LEMMA OrderIsOrdered == OrderInv => RunsAreOrdered
<1> SUFFICES ASSUME OrderInv, NEW k \in Runs, NEW l \in Runs,
                    SamePlace(receipts[k].snapshot, receipts[l].snapshot)
             PROVE  \/ NotAfter(receipts[k].snapshot, receipts[l].snapshot)
                    \/ NotAfter(receipts[l].snapshot, receipts[k].snapshot)
  BY DEF RunsAreOrdered, SamePlace
<1>1. SamePlace(receipts[l].snapshot, receipts[k].snapshot)
  BY DEF SamePlace
<1>2. LineInv /\ ReadFrom(receipts[k].snapshot) /\ ReadFrom(receipts[l].snapshot)
  BY DEF OrderInv, EndsInv
<1> QED
  BY <1>1, <1>2, BeforeIsNotAfter DEF OrderInv

\* A step records one run or none, and leaves the others as they are.
LEMMA RunsRecorded ==
    ASSUME ScenarioInv, [RunsNext]_runVars
    PROVE  \/ Runs' = Runs /\ \A k \in Runs : receipts'[k] = receipts[k]
           \/ \E c \in Calculation :
                 /\ UNCHANGED vars
                 /\ c.key \in Key /\ c.key \notin Runs /\ Runs' = Runs \cup {c.key}
                 /\ receipts'[c.key].snapshot = Capture(c)
                 /\ \A k \in Runs : receipts'[k] = receipts[k]
<1>1. receipts = [k \in Key |-> receipts[k]]
  BY DEF ScenarioInv
<1>2. CASE UNCHANGED receipts
  BY <1>2 DEF Runs
<1>3. ASSUME NEW c \in Calculation, Calculate(c)
      PROVE  /\ UNCHANGED vars
             /\ c.key \in Key /\ c.key \notin Runs /\ Runs' = Runs \cup {c.key}
             /\ receipts'[c.key].snapshot = Capture(c)
             /\ \A k \in Runs : receipts'[k] = receipts[k]
  <2> DEFINE run == [kind |-> "RUN", request |-> c, snapshot |-> Capture(c),
                     shown |-> Display(c.experiment)]
  <2>1. /\ c.key \in Key /\ receipts[c.key] = None
        /\ experiments[c.experiment] # None
    BY <1>3, CalculationAssumption
      DEF Calculate, CalculationOutcome, CalculationType, KeyTaken
  <2>2. receipts' = [receipts EXCEPT ![c.key] = run] /\ UNCHANGED vars
    BY <1>3 DEF Calculate
  <2>3. run.kind = "RUN" /\ run.snapshot = Capture(c) /\ run # None
    BY <2>1, CaptureIsTyped, ArtifactAssumption DEF ScenarioInv, LaneInv
  <2> HIDE DEF run
  <2>4. /\ receipts'[c.key] = run
        /\ \A k \in Key \ {c.key} : receipts'[k] = receipts[k]
    BY <1>1, <2>1, <2>2
  <2> QED
    BY <2>1, <2>2, <2>3, <2>4 DEF Runs
<1>4. ASSUME NEW k \in ReworkKey, NEW g \in pages, NEW action \in Action,
             NEW figure \in Figure \cup {None}, NEW x \in DOMAIN g.overrides,
             Rework(k, g, action, x, figure)
      PROVE  (Runs' = Runs) /\ \A l \in Runs : receipts'[l] = receipts[l]
  <2> DEFINE row == [kind |-> "SCENARIO", page |-> Edited(g, action, x, figure)]
  <2>1. /\ receipts' = [receipts EXCEPT ![k] = row]
        /\ receipts[k] = None \/ k \in Reworks
    BY <1>4 DEF Rework, KeyTaken
  <2>2. row.kind = "SCENARIO" /\ k \in Key /\ k \notin Runs
    BY <2>1, CalculationAssumption DEF Runs, Reworks
  <2> HIDE DEF row
  <2>3. /\ receipts'[k] = row
        /\ \A l \in Key \ {k} : receipts'[l] = receipts[l]
    BY <1>1, <2>1, <2>2
  <2> QED
    BY <2>2, <2>3 DEF Runs
<1>5. CASE \E c \in Calculation : Calculate(c)
  BY <1>3, <1>5
<1>6. CASE ReworkStep
  BY <1>4, <1>6 DEF ReworkStep
<1> QED
  BY <1>2, <1>5, <1>6 DEF RunsNext, runVars, PlayerStep, ScopeStep, ReplayRun

LEMMA InitialOrder == RunsInit => OrderInv
<1> SUFFICES ASSUME RunsInit PROVE OrderInv
  OBVIOUS
<1>1. Runs = {}
  BY DEF RunsInit, Runs
<1> QED
  BY <1>1, InitialScenarios, InitialEnds DEF RunsInit, OrderInv

\* Steps of the experiments, and steps that leave them alone, keep the rows.
LEMMA RunsKeep ==
    ASSUME LaneInv, [ExperimentsNext]_vars
    PROVE  Kept
<1>1. CASE UNCHANGED <<assessments, values, audit>>
  BY <1>1 DEF Kept, Assessments, Values
<1>2. ASSUME NEW r \in Request, Operation(r) PROVE Kept
  BY <1>2, OperationsKeep
<1> QED
  BY <1>1, <1>2 DEF ExperimentsNext, ChangeScope, vars

LEMMA StepOrder == OrderInv /\ [RunsNext]_runVars => OrderInv'
<1> SUFFICES ASSUME OrderInv, [RunsNext]_runVars PROVE OrderInv'
  OBVIOUS
<1>1. ScenarioInv' /\ EndsInv'
  BY StepServes, StepScenarios, StepEnds DEF OrderInv
<1>2. Kept /\ LineInv /\ EndsInv /\ ScenarioInv
  BY StepServes, RunsKeep DEF OrderInv, ScenarioInv, EndsInv
<1>3. ASSUME NEW k \in Runs PROVE ReadFrom(receipts[k].snapshot)
  BY DEF OrderInv
<1>4. ASSUME NEW k \in Runs, NEW l \in Runs,
             SamePlace(receipts[k].snapshot, receipts[l].snapshot)
      PROVE  \/ Before(receipts[k].snapshot, receipts[l].snapshot)
             \/ Before(receipts[l].snapshot, receipts[k].snapshot)
  BY <1>4 DEF OrderInv
\* Runs that were there.
<1>5. ASSUME \A k \in Runs : receipts'[k] = receipts[k],
             NEW k \in Runs, NEW s, s = receipts'[k].snapshot
      PROVE  ReadFrom(s) /\ ReadFrom(s)'
  <2>1. ReadFrom(s)
    BY <1>3, <1>5
  <2> QED
    BY <1>2, <2>1, ReadStays
<1>6. ASSUME \A k \in Runs : receipts'[k] = receipts[k],
             NEW k \in Runs, NEW l \in Runs,
             NEW s, NEW t, s = receipts'[k].snapshot, t = receipts'[l].snapshot, SamePlace(s, t)
      PROVE  Before(s, t)' \/ Before(t, s)'
  <2>1. Before(s, t) \/ Before(t, s)
    BY <1>4, <1>6
  <2> QED
    BY <1>2, <2>1, BeforeStays
<1>7. CASE Runs' = Runs /\ \A k \in Runs : receipts'[k] = receipts[k]
  <2>1. ASSUME NEW k \in Runs' PROVE ReadFrom(receipts[k].snapshot)'
    <3>1. PICK s : s = receipts'[k].snapshot
      OBVIOUS
    <3>2. ReadFrom(s)'
      BY <1>5, <1>7, <3>1
    <3> QED
      BY <3>1, <3>2 DEF ReadFrom, Cells, Targets
  <2>2. ASSUME NEW k \in Runs', NEW l \in Runs',
               SamePlace(receipts'[k].snapshot, receipts'[l].snapshot)
        PROVE  \/ Before(receipts[k].snapshot, receipts[l].snapshot)'
               \/ Before(receipts[l].snapshot, receipts[k].snapshot)'
    <3>1. PICK s : s = receipts'[k].snapshot
      OBVIOUS
    <3>2. PICK t : t = receipts'[l].snapshot
      OBVIOUS
    <3>3. Before(s, t)' \/ Before(t, s)'
      BY <1>6, <1>7, <2>2, <3>1, <3>2
    <3> QED
      BY <3>1, <3>2, <3>3 DEF Before
  <2> QED
    BY <1>1, <2>1, <2>2 DEF OrderInv, SamePlace
<1>8. ASSUME NEW c \in Calculation, UNCHANGED vars,
             c.key \in Key, c.key \notin Runs, Runs' = Runs \cup {c.key},
             receipts'[c.key].snapshot = Capture(c),
             \A k \in Runs : receipts'[k] = receipts[k]
      PROVE  OrderInv'
  <2>1. PICK n : n = Capture(c)
    OBVIOUS
  <2>2. ReadFrom(n)
    BY <1>2, <2>1, CaptureIsRead
  <2>3. ReadFrom(n)'
    BY <1>2, <2>2, ReadStays
  <2>4. ASSUME NEW s, ReadFrom(s), SamePlace(s, n) PROVE Before(s, n)'
    <3>1. Before(s, n)
      BY <1>2, <2>1, <2>4, CaptureIsAfter
    <3> QED
      BY <1>2, <3>1, BeforeStays
  <2>5. ASSUME NEW k \in Runs' PROVE ReadFrom(receipts[k].snapshot)'
    <3>1. PICK s : s = receipts'[k].snapshot
      OBVIOUS
    <3>2. ReadFrom(s)'
      BY <1>5, <1>8, <2>1, <2>3, <3>1
    <3> QED
      BY <3>1, <3>2 DEF ReadFrom, Cells, Targets
  <2>6. ASSUME NEW k \in Runs', NEW l \in Runs',
               SamePlace(receipts'[k].snapshot, receipts'[l].snapshot)
        PROVE  \/ Before(receipts[k].snapshot, receipts[l].snapshot)'
               \/ Before(receipts[l].snapshot, receipts[k].snapshot)'
    <3>1. PICK s : s = receipts'[k].snapshot
      OBVIOUS
    <3>2. PICK t : t = receipts'[l].snapshot
      OBVIOUS
    <3>3. Before(s, t)' \/ Before(t, s)'
      <4>1. CASE k \in Runs /\ l \in Runs
        BY <1>6, <1>8, <2>6, <3>1, <3>2, <4>1
      <4>2. CASE l = c.key
        <5>1. t = n /\ SamePlace(s, n)
          BY <1>8, <2>1, <2>6, <3>1, <3>2, <4>2
        <5>2. ReadFrom(s)
          BY <1>5, <1>8, <2>1, <2>2, <3>1
        <5> QED
          BY <2>4, <5>1, <5>2
      <4>3. CASE k = c.key
        <5>1. s = n /\ SamePlace(t, n)
          BY <1>8, <2>1, <2>6, <3>1, <3>2, <4>3 DEF SamePlace
        <5>2. ReadFrom(t)
          BY <1>5, <1>8, <2>1, <2>2, <3>2
        <5> QED
          BY <2>4, <5>1, <5>2
      <4> QED
        BY <1>8, <4>1, <4>2, <4>3
    <3> QED
      BY <3>1, <3>2, <3>3 DEF Before
  <2> QED
    BY <1>1, <2>5, <2>6 DEF OrderInv, SamePlace
<1> QED
  BY <1>2, <1>7, <1>8, RunsRecorded DEF OrderInv

(* No history of entries closes an experiment to calculation, and of any two *)
(* runs recorded of one experiment and slice, one knows all that the other   *)
(* knew, each value or a correction of it.                                   *)
THEOREM RunsAlwaysTellOneHistory == RunsSpec => []RunsTellOneHistory
<1>1. OrderInv => RunsTellOneHistory
  BY LinesAreCalculable, OrderIsOrdered DEF OrderInv, EndsInv, RunsTellOneHistory
<1> QED
  BY <1>1, InitialOrder, StepOrder, PTL DEF RunsSpec

-----------------------------------------------------------------------------
(* What is answered under a key, at any later time, is the receipt of exactly *)
(* the rows that were made under it.                                         *)
THEOREM KeysAlwaysTellHistory == ExperimentsSpec => []KeysTellHistory
<1>1. ReceiptsAreExact /\ ReplaysAreExact => KeysTellHistory
  BY DEF KeysTellHistory
<1> QED
  BY <1>1, ReceiptsAlwaysExact, ReplaysAlwaysExact, PTL
=============================================================================
