-------------------------- MODULE CalculationRuns --------------------------
(***************************************************************************)
(* Calculations over the Player's experiments: a baseline run captures the *)
(* current values of one experiment and time slice under the Project lock, *)
(* and stores its receipt together with an artifact from which a retry is  *)
(* answered; a scenario is a working copy of a run that its page carries,  *)
(* and leaves a receipt for each change.                                   *)
(*                                                                         *)
(* The receipts are AuditEvents too, so that they share their UUIDs with   *)
(* the operations of PlayerExperiments.  A run is one step for the Project *)
(* lock.  A scenario takes no such lock, but all it reads is immutable,    *)
(* and its key is decided by one INSERT whose refusal is looked up again.  *)
(***************************************************************************)
EXTENDS PlayerExperiments

CONSTANTS
    Slice,        \* time slices
    SliceOf,      \* the slice of a target
    HomeOf,       \* the workspace of a slice
    Weights,      \* transient beta weights, within the topology
    Calculation,  \* the baseline requests that clients send
    ReworkKey,    \* operation UUIDs of scenario requests
    Scenario,     \* UUIDs that scenarios may draw
    Figure        \* numbers that a scenario puts in the place of another

CalculationType ==
    [key : Key, user : User, experiment : Experiment, slice : Slice,
     weightsFor : Experiment \X Slice, weights : Weights]

Action == {"start", "set", "remove", "reset", "recalculate"}

ASSUME SliceAssumption ==
    /\ SliceOf \in [Target -> Slice]
    /\ HomeOf \in [Slice -> Workspace]

ASSUME CalculationAssumption ==
    /\ Calculation \subseteq CalculationType
    /\ ReworkKey \subseteq Key
    /\ None \notin Figure

VARIABLES
    receipts,  \* Key -> the receipt of a run or a scenario with its artifact, or None
    pages      \* the sealed working copies that clients hold

runVars == <<vars, receipts, pages>>

-----------------------------------------------------------------------------
\* What a calculation reads.
Targets(s) == {t \in Target : SliceOf[t] = s}
Cells(s) == Targets(s) \X Parameter

\* A value is of the cell that the header of its assessment names.
CellOf(v) == <<values[v].assessment[2], v[3]>>

\* Mutant: only values that the current assessment was made for.
TerminalInHeader(e, s) ==
    {v \in Values : /\ ExperimentOf(v) = e /\ SliceOf[v[2]] = s /\ ~HasSuccessor(v)
                    /\ values[v].assessment = CurrentAssessment(e, v[2])}

\* The current values of a slice, over all revisions of the assessments.
Terminal(e, s) ==
    {v \in Values : ExperimentOf(v) = e /\ SliceOf[v[2]] = s /\ ~HasSuccessor(v)}

\* The rows do not say what is current: the capture refuses to choose.
Ambiguous(e, s) ==
    \/ \E t \in Targets(s) : \E a, b \in CurrentAssessments(e, t) : a # b
    \/ \E v \in Terminal(e, s) :
          \/ CellOf(v) \notin Cells(s)
          \/ CurrentAssessments(e, CellOf(v)[1]) = {}
          \/ \E u \in Terminal(e, s) : u # v /\ CellOf(u) = CellOf(v)

\* What the run is calculated from: the current assessment of each target and
\* the current value of each cell, None where there is none.
Capture(c) ==
    [experiment |-> c.experiment, slice |-> c.slice, weights |-> c.weights,
     header |-> [t \in Targets(c.slice) |-> CurrentAssessment(c.experiment, t)],
     input |-> [x \in Cells(c.slice) |->
                   LET now == {v \in Terminal(c.experiment, c.slice) : CellOf(v) = x}
                   IN  IF now = {} THEN None ELSE CHOOSE v \in now : TRUE]]

\* The lane as the artifact will always display it.
Display(e) == [label |-> experiments[e].label, status |-> experiments[e].status]

\* The receipt of a run with the snapshot and the lane that its artifact shows.
Artifact(c) ==
    [kind : {"RUN"}, request : {c},
     snapshot : [experiment : {c.experiment}, slice : {c.slice}, weights : {c.weights},
                 header : [Targets(c.slice) -> AssessmentId \cup {None}],
                 input : [Cells(c.slice) -> ValueId \cup {None}]],
     shown : [label : Label, status : ExperimentStatus]]

ASSUME ArtifactAssumption == \A c \in Calculation : None \notin Artifact(c)

\* Runs, by their keys, and what scenarios have recorded.
Runs == {k \in Key : receipts[k] # None /\ receipts[k].kind = "RUN"}
Reworks == {k \in Key : receipts[k] # None /\ receipts[k].kind = "SCENARIO"}

KeyTaken(k) == receipts[k] # None \/ audit[k] # None

\* What a baseline request is answered.  Its key is looked up before the slice,
\* the weights and the current values, by the UUID alone.
CalculationOutcome(c) ==
    IF c.user \notin members \/ experiments[c.experiment] = None THEN "PLAYER_NOT_FOUND"
    ELSE IF KeyTaken(c.key)
    THEN IF c.key \in Runs /\ receipts[c.key].request = c THEN "REPLAYED"
         ELSE "PLAYER_OPERATION_KEY_REUSE"
    ELSE IF HomeOf[c.slice] # experiments[c.experiment].workspace THEN "PLAYER_NOT_FOUND"
    ELSE IF c.weightsFor # <<c.experiment, c.slice>> THEN "PLAYER_REQUEST_INVALID"
    ELSE IF Ambiguous(c.experiment, c.slice) THEN "PLAYER_CALCULATION_INPUT_INVALID"
    ELSE "CREATED"

\* Mutant: a retry is answered from the current values.
AnsweredAnew(c) == Capture(c)

\* The snapshot that the answer shows: the artifact's in a replay.
Answered(c) ==
    IF CalculationOutcome(c) = "REPLAYED" THEN receipts[c.key].snapshot ELSE Capture(c)

\* The result page carries a working copy with a new identity, unless the copy
\* is too large or the route answers JSON.
Unused == Scenario \ ({g.scenario : g \in pages} \cup {receipts[k].page.scenario : k \in Reworks})

Render(c) ==
    \/ UNCHANGED pages
    \/ \E n \in Unused :
          pages' = pages \cup
             {[user |-> c.user, scenario |-> n, snapshot |-> Answered(c),
               overrides |-> [x \in Cells(c.slice) |-> None]]}

-----------------------------------------------------------------------------
RunsInit ==
    /\ ExperimentsInit
    /\ receipts = [k \in Key |-> None]
    /\ pages = {}

\* calculate_and_record_experiment: receipt and artifact in one transaction.
Calculate(c) ==
    /\ CalculationOutcome(c) = "CREATED"
    /\ receipts' = [receipts EXCEPT ![c.key] =
                      [kind |-> "RUN", request |-> c, snapshot |-> Capture(c),
                       shown |-> Display(c.experiment)]]
    /\ Render(c)
    /\ UNCHANGED vars

ReplayRun(c) ==
    /\ CalculationOutcome(c) = "REPLAYED"
    /\ Render(c)
    /\ UNCHANGED <<vars, receipts>>

\* Only a number may be replaced.
Overridable(g, x) ==
    /\ x \in DOMAIN g.overrides
    /\ g.snapshot.input[x] # None
    /\ values[g.snapshot.input[x]].status = "PROVISIONAL"

\* The working copy after an action; figure None is the baseline's own number,
\* which is no override.
Edited(g, action, x, figure) ==
    [g EXCEPT !.overrides =
        CASE action = "set" -> [@ EXCEPT ![x] = figure]
          [] action = "remove" -> [@ EXCEPT ![x] = None]
          [] action = "reset" -> [y \in DOMAIN @ |-> None]
          [] OTHER -> @]

\* update: a form is valid for numbers only, and removes what is there.  A key
\* that has recorded the same working copy of the same user is replayed; the
\* page that answers carries the copy as it now is.
Rework(k, g, action, x, figure) ==
    LET next == Edited(g, action, x, figure)
        same == k \in Reworks /\ receipts[k].page = next
    IN  /\ g.user \in members
        /\ action = "set" => Overridable(g, x)
        /\ action = "remove" => x \in DOMAIN g.overrides /\ g.overrides[x] # None
        /\ ~KeyTaken(k) \/ same
        /\ receipts' = [receipts EXCEPT ![k] = [kind |-> "SCENARIO", page |-> next]]
        /\ pages' = pages \cup {next}
        /\ UNCHANGED vars

\* An operation whose UUID a receipt has is not found by its own lookup and
\* fails at the INSERT of its AuditEvent, if not before.
PlayerStep(r) ==
    /\ receipts[r.key] = None
    /\ Operation(r)
    /\ UNCHANGED <<receipts, pages>>

ScopeStep(u) == ChangeScope(u) /\ UNCHANGED <<receipts, pages>>

ReworkStep ==
    \E k \in ReworkKey, g \in pages, action \in Action, figure \in Figure \cup {None} :
        \E x \in DOMAIN g.overrides : Rework(k, g, action, x, figure)

RunsNext ==
    \/ \E r \in Request : PlayerStep(r)
    \/ \E u \in ScopeChange : ScopeStep(u)
    \/ \E c \in Calculation : Calculate(c) \/ ReplayRun(c)
    \/ ReworkStep

RunsSpec == RunsInit /\ [][RunsNext]_runVars

-----------------------------------------------------------------------------
(* Whatever mix of first values, corrections that patch one parameter,       *)
(* corrections that keep their assessment, and imports wrote an experiment,  *)
(* its rows tell a calculation one current value per cell under one current  *)
(* assessment: capture_snapshot never meets what it would refuse as          *)
(* ambiguous, so that no history of legal entries makes a lane incalculable. *)
AlwaysCalculable ==
    \A e \in Experiment, s \in Slice :
        experiments[e] # None => ~Ambiguous(e, s)

\* A value and all it corrects, directly or not.
Corrected(v) ==
    LET up[u \in Values] ==
            {u} \cup IF values[u].supersedes = None THEN {} ELSE up[values[u].supersedes]
    IN  up[v]

\* Nothing that one snapshot read is undone or forgotten in the other.
NotAfter(s, t) ==
    /\ \A x \in DOMAIN s.input :
          s.input[x] # None => t.input[x] # None /\ s.input[x] \in Corrected(t.input[x])
    /\ \A y \in DOMAIN s.header :
          s.header[y] # None => t.header[y] # None /\ s.header[y] \in Lineage(t.header[y])

(* The runs recorded of an experiment and slice show one history: of any     *)
(* two, one knows all that the other knew, each cell's value or a correction *)
(* of it, though a correction of one parameter leaves the value of the other *)
(* attached to an older assessment.                                          *)
RunsAreOrdered ==
    \A k, l \in Runs :
        LET s == receipts[k].snapshot
            t == receipts[l].snapshot
        IN  <<s.experiment, s.slice>> = <<t.experiment, t.slice>> =>
               NotAfter(s, t) \/ NotAfter(t, s)

(* No history of entries closes an experiment to calculation, and the runs   *)
(* that it had are in one order.                                             *)
RunsTellOneHistory == AlwaysCalculable /\ RunsAreOrdered

(* Every working copy, however it was reworked and whenever its page was     *)
(* asked for again, stands on the snapshot of a run recorded for its user,   *)
(* not on values that were corrected since; and it replaces only numbers of  *)
(* that snapshot, so that what was unknown stays unknown.                    *)
ScenariosStandOnRuns ==
    \A g \in pages \cup {receipts[k].page : k \in Reworks} :
        /\ \E k \in Runs : /\ receipts[k].snapshot = g.snapshot
                           /\ receipts[k].request.user = g.user
        /\ \A x \in DOMAIN g.overrides :
              g.overrides[x] # None =>
                 /\ g.snapshot.input[x] # None
                 /\ values[g.snapshot.input[x]].status = "PROVISIONAL"
=============================================================================
