--------------------------- MODULE EvidenceImport ---------------------------
(***************************************************************************)
(* Foundation 2.0 packages of assessments with their facts and documents,  *)
(* imported into one workspace next to the Player.                         *)
(*                                                                         *)
(* A package is previewed without a lock, committed under the lock of its  *)
(* workspace, and, if it did not commit, receipted by a third transaction  *)
(* after the rollback.  It adds rows and changes none; into a lane (an     *)
(* Experiment with its expert and assessment set) that the request selects *)
(* it may repeat stored rows exactly.  The Player creates, freezes and     *)
(* archives Experiments meanwhile; it takes the workspace's lock as well.  *)
(*                                                                         *)
(* A package stands for its canonical rows, so that it is its checksum.    *)
(***************************************************************************)
EXTENDS Integers, FiniteSets

CONSTANTS
    Experiment,
    Name,       \* identities of assessments, documents and facts
    Importer,   \* operators of the import command
    Request,    \* what they import
    PlayerRow,  \* assessments that the Player may enter
    Absent

LaneRow ==
    [section : {"LANE"}, id : Experiment, status : {"DRAFT", "FROZEN", "ARCHIVED"}]
AssessmentRow ==
    [section : {"ASSESSMENT"}, id : Name, lane : Experiment, confirmed : BOOLEAN, cutoff : Nat]
\* A document with its version, content and the one fragment that is quoted.
DocumentRow ==
    [section : {"DOCUMENT"}, id : Name, published : Nat \cup {Absent}, exact : BOOLEAN]
FactRow ==
    [section : {"FACT"}, id : Name, lane : Experiment \cup {Absent}, confirmed : BOOLEAN]
EvidenceRow == [section : {"EVIDENCE"}, fact : Name, document : Name]
LinkRow ==
    [section : {"LINK"}, assessment : Name, fact : Name, support : BOOLEAN,
     temporal : {"CONTEMPORANEOUS", "RETROSPECTIVE", "UNKNOWN"}]

StoredRow ==
    LaneRow \cup AssessmentRow \cup DocumentRow \cup FactRow \cup EvidenceRow \cup LinkRow

RequestType == [rows : SUBSET StoredRow, lane : Experiment \cup {Absent}, nonempty : BOOLEAN]

ASSUME ImportAssumption ==
    /\ \A q \in Request : q \in RequestType
    /\ PlayerRow \subseteq AssessmentRow
    /\ \A a \in PlayerRow : ~a.confirmed
    /\ Absent \notin Experiment

VARIABLES
    rows,      \* the workspace's rows
    receipts,  \* ImportRun rows
    attempt    \* Importer -> the attempt under way, or Absent

evidenceVars == <<rows, receipts, attempt>>

\* Refused attempts have a code of their own; equal ones are one element here.
ImportRun ==
    [request : Request, status : {"COMMITTED", "REJECTED", "FAILED"}, created : SUBSET StoredRow]

Attempt ==
    [request : Request, step : {"previewed", "refused"}, plan : SUBSET StoredRow,
     status : {"REJECTED", "FAILED", Absent}]

EvidenceTypeOK ==
    /\ rows \subseteq StoredRow
    /\ receipts \subseteq ImportRun
    /\ attempt \in [Importer -> Attempt \cup {Absent}]

Of(rs, section) == {x \in rs : x.section = section}

\* What no two rows of a section may share.  A link is known by what it joins:
\* no package here gives one pair two names.
Identity(x) ==
    CASE x.section = "EVIDENCE" -> <<x.fact, x.document>>
      [] x.section = "LINK" -> <<x.assessment, x.fact>>
      [] OTHER -> x.id

Existing(x) == {y \in Of(rows, x.section) : Identity(y) = Identity(x)}

LaneStatus(rs, e) == {x.status : x \in {y \in Of(rs, "LANE") : y.id = e}}

-----------------------------------------------------------------------------
(* A package on its own.                                                   *)

Ids(rs, section) == {x.id : x \in Of(rs, section)}

Distinct(rs) ==
    \A x, y \in rs : x.section = y.section /\ Identity(x) = Identity(y) => x = y

\* Every reference is to a row of the package.
Closed(rs) ==
    /\ \A a \in Of(rs, "ASSESSMENT") : a.lane \in Ids(rs, "LANE")
    /\ \A f \in Of(rs, "FACT") : f.lane \in Ids(rs, "LANE") \cup {Absent}
    /\ \A v \in Of(rs, "EVIDENCE") : v.fact \in Ids(rs, "FACT") /\ v.document \in Ids(rs, "DOCUMENT")
    /\ \A l \in Of(rs, "LINK") : l.assessment \in Ids(rs, "ASSESSMENT") /\ l.fact \in Ids(rs, "FACT")

Cited(rs, f) ==
    {d \in Of(rs, "DOCUMENT") : \E v \in Of(rs, "EVIDENCE") : v.fact = f /\ v.document = d.id}

\* Mutant: any document will do.
BackedByAny(rs, f) == Cited(rs, f) # {}

Backed(rs, f) == \E d \in Cited(rs, f) : d.exact

\* What is CONFIRMED rests on the exact text of a document.
ChainsComplete(rs) ==
    /\ \A f \in Of(rs, "FACT") : f.confirmed => Backed(rs, f.id)
    /\ \A a \in Of(rs, "ASSESSMENT") : a.confirmed =>
          \E l \in Of(rs, "LINK") : l.assessment = a.id /\ l.support /\ Backed(rs, l.fact)

Dates(rs, f) == {d.published : d \in Cited(rs, f)} \ {Absent}

CutoffOf(rs, l) ==
    (CHOOSE a \in Of(rs, "ASSESSMENT") : a.id = l.assessment).cutoff

\* What was published after an assessment's cutoff is called retrospective.
CutoffKept(rs, l) ==
    (\E t \in Dates(rs, l.fact) : t > CutoffOf(rs, l)) => l.temporal = "RETROSPECTIVE"

Valid(rs) ==
    /\ Distinct(rs)
    /\ Closed(rs)
    /\ ChainsComplete(rs)
    /\ \A l \in Of(rs, "LINK") : CutoffKept(rs, l)

-----------------------------------------------------------------------------
(* A package against the rows of the workspace.                            *)

\* Mutant: the lane is looked at in the preview only.
LaneSelectedOnce(q) == q \in Request

\* A selected lane is repeated as it is stored, the package has no other, and a
\* FROZEN one takes no new row.
LaneSelected(q) ==
    \/ q.lane = Absent
    \/ /\ Ids(q.rows, "LANE") = {q.lane}
       /\ Of(q.rows, "LANE") \subseteq rows
       /\ \A f \in Of(q.rows, "FACT") : f.lane \in {Absent, q.lane}
       /\ LaneStatus(rows, q.lane) = {"FROZEN"} => \A x \in q.rows : Existing(x) # {}

\* Only next to a selected lane can stored rows be repeated.
Reused(q) == IF q.lane = Absent THEN {} ELSE q.rows \cap rows
Created(q) == q.rows \ Reused(q)

\* Mutant: rows that differ from the stored ones are taken for them.
NoConflictByIdentity(q) == q.nonempty \/ rows = {}

NoConflict(q) ==
    /\ \A x \in Created(q) : Existing(x) = {}
    /\ q.nonempty \/ rows = {}

\* Mutant: a link is checked against the evidence of its package.
CleanInPackage(q) ==
    \A a \in Of(Created(q), "ASSESSMENT") :
       LaneStatus(rows \cup q.rows, a.lane) = {"DRAFT"}

\* full_clean of each new row, against all rows that are then there.
Clean(q) ==
    LET all == rows \cup q.rows IN
    /\ \A a \in Of(Created(q), "ASSESSMENT") : LaneStatus(all, a.lane) = {"DRAFT"}
    /\ \A l \in Of(Created(q), "LINK") :
          /\ CutoffKept(all, l)
          /\ l.temporal = "CONTEMPORANEOUS" => Dates(all, l.fact) # {}

Replayed(q) == \E r \in receipts : r.status = "COMMITTED" /\ r.request.rows = q.rows

\* How a commit of what was previewed ends.  A conflict is the importer's own
\* error, an invalid row the model's; with both, it is the one met first.
Outcomes(q, plan) ==
    IF ~LaneSelected(q) \/ Created(q) # plan \/ Replayed(q) THEN {"REJECTED"}
    ELSE IF NoConflict(q) /\ Clean(q) THEN {"COMMITTED"}
    ELSE (IF NoConflict(q) THEN {} ELSE {"REJECTED"}) \cup (IF Clean(q) THEN {} ELSE {"FAILED"})

-----------------------------------------------------------------------------
(* The importers.                                                          *)

\* Everything is checked and even written, and then rolled back.
Preview(i, q) ==
    /\ attempt[i] = Absent
    /\ attempt' = [attempt EXCEPT ![i] =
          IF Valid(q.rows) /\ LaneSelected(q) /\ NoConflict(q) /\ Clean(q)
          THEN [request |-> q, step |-> "previewed", plan |-> Created(q), status |-> Absent]
          ELSE [request |-> q, step |-> "refused", plan |-> {}, status |-> "REJECTED"]]
    /\ UNCHANGED <<rows, receipts>>

\* Mutant: a failure keeps what was inserted before it.
CommitInPieces(i) ==
    /\ attempt[i] # Absent /\ attempt[i].step = "previewed"
    /\ \E o \in Outcomes(attempt[i].request, attempt[i].plan) :
          LET q == attempt[i].request IN
          IF o = "COMMITTED"
          THEN /\ rows' = rows \cup q.rows
               /\ receipts' = receipts \cup {[request |-> q, status |-> o, created |-> Created(q)]}
               /\ attempt' = [attempt EXCEPT ![i] = Absent]
          ELSE /\ rows' = IF o = "FAILED" THEN rows \cup Of(Created(q), "FACT") ELSE rows
               /\ attempt' = [attempt EXCEPT ![i].step = "refused", ![i].status = o]
               /\ UNCHANGED receipts

\* One transaction under the workspace's lock.
Commit(i) ==
    /\ attempt[i] # Absent /\ attempt[i].step = "previewed"
    /\ \E o \in Outcomes(attempt[i].request, attempt[i].plan) :
          LET q == attempt[i].request IN
          IF o = "COMMITTED"
          THEN /\ rows' = rows \cup q.rows
               /\ receipts' = receipts \cup {[request |-> q, status |-> o, created |-> Created(q)]}
               /\ attempt' = [attempt EXCEPT ![i] = Absent]
          ELSE /\ attempt' = [attempt EXCEPT ![i].step = "refused", ![i].status = o]
               /\ UNCHANGED <<rows, receipts>>

\* The receipt of an attempt that did not commit, after its rollback.
RecordRefusal(i) ==
    /\ attempt[i] # Absent /\ attempt[i].step = "refused"
    /\ receipts' = receipts \cup
          {[request |-> attempt[i].request, status |-> attempt[i].status, created |-> {}]}
    /\ attempt' = [attempt EXCEPT ![i] = Absent]
    /\ UNCHANGED rows

\* The command is killed: nothing is rolled back but what was not committed.
Crash(i) ==
    /\ attempt[i] # Absent
    /\ attempt' = [attempt EXCEPT ![i] = Absent]
    /\ UNCHANGED <<rows, receipts>>

-----------------------------------------------------------------------------
(* The Player.                                                             *)

Lane(e, status) == [section |-> "LANE", id |-> e, status |-> status]

CreateExperiment(e) ==
    /\ LaneStatus(rows, e) = {}
    /\ rows' = rows \cup {Lane(e, "DRAFT")}
    /\ UNCHANGED <<receipts, attempt>>

Move(e, from, to) ==
    /\ Lane(e, from) \in rows
    /\ rows' = (rows \ {Lane(e, from)}) \cup {Lane(e, to)}
    /\ UNCHANGED <<receipts, attempt>>

FreezeExperiment(e) == Move(e, "DRAFT", "FROZEN")
ArchiveExperiment(e) == Move(e, "DRAFT", "ARCHIVED") \/ Move(e, "FROZEN", "ARCHIVED")

Assess(a) ==
    /\ Lane(a.lane, "DRAFT") \in rows
    /\ Existing(a) = {}
    /\ rows' = rows \cup {a}
    /\ UNCHANGED <<receipts, attempt>>

EvidenceInit ==
    /\ rows = {}
    /\ receipts = {}
    /\ attempt = [i \in Importer |-> Absent]

EvidenceNext ==
    \/ \E i \in Importer :
          \/ \E q \in Request : Preview(i, q)
          \/ Commit(i)
          \/ RecordRefusal(i)
          \/ Crash(i)
    \/ \E e \in Experiment :
          CreateExperiment(e) \/ FreezeExperiment(e) \/ ArchiveExperiment(e)
    \/ \E a \in PlayerRow : Assess(a)

EvidenceSpec == EvidenceInit /\ [][EvidenceNext]_evidenceVars

-----------------------------------------------------------------------------
(* Properties.                                                             *)

\* Every row of a section but lanes was entered by the Player or created by
\* exactly one committed import, and all that a committed import created or
\* repeated is there: no attempt leaves part of a package behind.
Committed == {r \in receipts : r.status = "COMMITTED"}

RowsHaveOneOrigin ==
    /\ \A x \in rows : x.section # "LANE" =>
          \/ x \in PlayerRow
          \/ \E r \in Committed : x \in r.created
    /\ \A r, s \in Committed : r # s => r.created \cap s.created = {}
    /\ \A r \in Committed : \A x \in r.request.rows : Existing(x) # {}
    /\ Distinct(rows)

\* What a lane shows: its assessments, the links of these and its own facts with
\* their evidence.
Shown(rs, e) ==
    LET assessed == {a.id : a \in {x \in Of(rs, "ASSESSMENT") : x.lane = e}}
        told == {f.id : f \in {x \in Of(rs, "FACT") : x.lane = e}}
    IN {x \in rs : \/ x.section \in {"ASSESSMENT", "FACT"} /\ x.lane = e
                   \/ x.section = "LINK" /\ x.assessment \in assessed
                   \/ x.section = "EVIDENCE" /\ x.fact \in told}

\* As long as an Experiment is FROZEN nothing is added to its lane, not even by a
\* package that was previewed when it was a DRAFT.
FrozenLanesClosed ==
    [][\A e \in Experiment :
          Lane(e, "FROZEN") \in rows => Shown(rows', e) = Shown(rows, e)]_evidenceVars

\* A new link calls retrospective what the evidence stored by then makes so.
LinksAreHonestWhenMade ==
    [][\A l \in Of(rows', "LINK") \ rows : CutoffKept(rows', l)]_evidenceVars

\* Every CONFIRMED fact is quoted from the exact text of a stored document, and
\* every CONFIRMED assessment supported by such a fact.
QuotedExactly(f) ==
    \E v \in Of(rows, "EVIDENCE"), d \in Of(rows, "DOCUMENT") :
       v.fact = f /\ v.document = d.id /\ d.exact

ConfirmedIsBacked ==
    /\ \A f \in Of(rows, "FACT") : f.confirmed => QuotedExactly(f.id)
    /\ \A a \in Of(rows, "ASSESSMENT") : a.confirmed =>
          \E l \in Of(rows, "LINK") : l.assessment = a.id /\ l.support /\ QuotedExactly(l.fact)
=============================================================================
