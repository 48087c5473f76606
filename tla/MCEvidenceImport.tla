-------------------------- MODULE MCEvidenceImport --------------------------
(***************************************************************************)
(* A package founds lane E1; others add to it, to the Player's lane E2 and *)
(* to a fact that both may use; some repeat rows that are out of date.     *)
(***************************************************************************)
EXTENDS EvidenceImport, TLC

CONSTANTS E1, E2, A1, A2, A3, Old, New, Scan, F1, F2, F3, I1, I2

MCExperiment == {E1, E2}
MCName == {A1, A2, A3, Old, New, Scan, F1, F2, F3}
MCImporter == {I1, I2}

Assessment(a, e, c) ==
    [section |-> "ASSESSMENT", id |-> a, lane |-> e, confirmed |-> c, cutoff |-> 1]
Doc(d, t, x) == [section |-> "DOCUMENT", id |-> d, published |-> t, exact |-> x]
Fact(f, e, c) == [section |-> "FACT", id |-> f, lane |-> e, confirmed |-> c]
Cite(f, d) == [section |-> "EVIDENCE", fact |-> f, document |-> d]
Link(a, f, t) ==
    [section |-> "LINK", assessment |-> a, fact |-> f, support |-> TRUE, temporal |-> t]

OldDoc == Doc(Old, 0, TRUE)
NewDoc == Doc(New, 2, TRUE)
ScanDoc == Doc(Scan, Absent, FALSE)

\* A confirmed assessment of E1 on a shared fact.
Base == {Assessment(A1, E1, TRUE), OldDoc, Fact(F1, Absent, TRUE), Cite(F1, Old),
         Link(A1, F1, "CONTEMPORANEOUS")}
Into(e, s, rs) == [rows |-> rs \cup {Lane(e, s)}, lane |-> e, nonempty |-> TRUE]

Importers == Permutations(MCImporter)

\* No step reads the receipt of a refusal, and a refused attempt does nothing but
\* write it: the states behind a receipt, or behind a refusal next to an attempt
\* of the other importer, add nothing.
RefusalsAlone ==
    /\ \A r \in receipts : r.status = "COMMITTED"
    /\ \A i, j \in Importer :
          attempt[i] # Absent /\ attempt[j] # Absent /\ attempt[i].step = "refused" => i = j

MCPlayerRow == {Assessment(A2, E2, FALSE)}

MCRequest ==
    {[rows |-> Base \cup {Lane(E1, "DRAFT")}, lane |-> Absent, nonempty |-> TRUE],
     [rows |-> Base \cup {Lane(E1, "DRAFT")}, lane |-> Absent, nonempty |-> FALSE],
     \* the shared fact gets evidence from after the cutoff
     Into(E1, "DRAFT", {Fact(F1, Absent, TRUE), OldDoc, NewDoc, Cite(F1, Old), Cite(F1, New)}),
     \* a new assessment on the shared fact
     Into(E1, "DRAFT", {Assessment(A3, E1, TRUE), Fact(F1, Absent, TRUE), OldDoc, Cite(F1, Old),
                        Link(A3, F1, "CONTEMPORANEOUS")}),
     \* the same, of another content
     Into(E1, "DRAFT", {Assessment(A3, E1, FALSE), Fact(F1, E1, TRUE), OldDoc, Cite(F1, Old)}),
     \* a fact of its own for the Player's assessment, honest and not
     Into(E2, "DRAFT", {Assessment(A2, E2, FALSE), Fact(F2, E2, TRUE), NewDoc, Cite(F2, New),
                        Link(A2, F2, "RETROSPECTIVE")}),
     Into(E2, "DRAFT", {Assessment(A2, E2, FALSE), Fact(F2, E2, TRUE), NewDoc, Cite(F2, New),
                        Link(A2, F2, "UNKNOWN")}),
     \* more evidence for it, once the lane is frozen
     Into(E2, "FROZEN", {Fact(F2, E2, TRUE), OldDoc, NewDoc, Cite(F2, New), Cite(F2, Old)}),
     Into(E2, "ARCHIVED", {Assessment(A2, E2, FALSE), Fact(F3, E2, FALSE), ScanDoc, Cite(F3, Scan),
                           Link(A2, F3, "UNKNOWN")}),
     \* confirmed without an exact text
     Into(E2, "DRAFT", {Fact(F3, E2, TRUE), ScanDoc, Cite(F3, Scan)})}
=============================================================================
