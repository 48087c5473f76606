-------------------------- MODULE AssessmentLedger --------------------------
(***************************************************************************)
(* What Player promises of its assessment experiments, without profiles,   *)
(* assessments, operation keys or receipts: every cell of an experiment (a *)
(* parameter of a target) has at most one current value; a correction      *)
(* replaces the current value and keeps the old one for ever; a bulk entry *)
(* happens in a blank experiment only; a closed experiment never changes.  *)
(***************************************************************************)
CONSTANTS
    Experiment,  \* experiments
    Cell,        \* what an experiment assigns values to
    Value,       \* identities of values
    Blank        \* no value, and not a value

VARIABLES
    current,  \* <<experiment, cell>> -> its current value, or Blank
    past,     \* values that have been corrected
    closed    \* experiments that accept nothing more

ledger == <<current, past, closed>>

IsBlank(e) == \A c \in Cell : current[<<e, c>>] = Blank
Used == past \cup {current[x] : x \in Experiment \X Cell}

LedgerInit ==
    /\ current = [x \in Experiment \X Cell |-> Blank]
    /\ past = {}
    /\ closed = {}

\* One cell of an open experiment, or several of a blank one, take new values,
\* each its own.
Enter(e) ==
    LET old == current
        new == current'
        entered == {x \in Experiment \X Cell : new[x] # old[x]}
    IN  /\ entered # {}
        /\ e \notin closed
        /\ entered \subseteq {e} \X Cell
        /\ IsBlank(e) \/ \E x \in entered : entered = {x}
        /\ \A x \in entered : new[x] \in Value \ Used
        /\ \A x, y \in entered : new[x] = new[y] => x = y
        /\ new = [x \in Experiment \X Cell |-> new[x]]
        /\ past' = past \cup ({old[x] : x \in entered} \ {Blank})
        /\ UNCHANGED closed

Close(e) ==
    /\ closed' = closed \cup {e}
    /\ UNCHANGED <<current, past>>

LedgerNext == \E e \in Experiment : Enter(e) \/ Close(e)

LedgerSpec == LedgerInit /\ [][LedgerNext]_ledger
=============================================================================
