------------------------- MODULE MCDocumentLineage -------------------------
(***************************************************************************)
(* One captured text of three sentences in a foreign language, translated  *)
(* and aligned in several ways; a workspace whose own language it is, and  *)
(* one whose Project has none.  What callers should not submit, they do.   *)
(***************************************************************************)
EXTENDS DocumentLineage, TLC

CONSTANTS D1, D2, D3, D4, W1, W2, W3, RU, EN, S1, S2, Tale, Copy, Loose

MCDocument == {D1, D2, D3, D4}
MCWorkspace == {W1, W2, W3}
MCLanguage == {RU, EN, Und}
MCSegmentation == {S1, S2}
MCText == {Tale, Copy, Loose}
\* "ab c", "a bc" and "a b "
MCBlank == (Tale :> <<FALSE, FALSE, TRUE, FALSE>>) @@ (Copy :> <<FALSE, TRUE, FALSE, FALSE>>)
              @@ (Loose :> <<FALSE, TRUE, FALSE, TRUE>>)
MCLanguageOf == (W1 :> RU) @@ (W2 :> EN) @@ (W3 :> Und)
MCAnchor == {[from |-> 0, to |-> 1], [from |-> 1, to |-> 2], [from |-> 1, to |-> 5]}

R(a, b) == [from |-> a, to |-> b]
C(os, ps) == [originals |-> os, primaries |-> ps]
V(t, l, g) == [text |-> t, language |-> l, segmentation |-> g]

English == V(Tale, EN, S1)
Russian == V(Copy, RU, S1)
Edited == V(Loose, RU, S1)
Recut == V(Copy, RU, S2)

Three == <<R(0, 1), R(1, 2), R(3, 4)>>   \* of Tale
Two == <<R(0, 1), R(2, 4)>>              \* of Copy
TwoLoose == <<R(0, 1), R(2, 3)>>         \* of Loose

Ingest(d, w) ==
    [kind |-> "INITIAL_INGEST", document |-> d, workspace |-> w, predecessor |-> None,
     original |-> English, primary |-> Russian, originals |-> Three, primaries |-> Two,
     components |-> {C({1, 2}, {1}), C({3}, {2})}, provenance |-> TRUE]

\* The whole text as one sentence, on its own or against all of the others.
Whole(s) == [s EXCEPT !.primaries = <<R(0, 4)>>, !.components = {C({1, 2, 3}, {1})}]

Self(w) ==
    [Ingest(D2, w) EXCEPT !.primary = English, !.primaries = Three, !.provenance = FALSE,
                          !.components = {C({1}, {1}), C({2}, {2}), C({3}, {3})}]

Derive(kind, d, p) ==
    [Ingest(d, None) EXCEPT !.kind = kind, !.predecessor = p]
Edit(d, p, v) ==
    [Derive("TRANSLATION_EDIT", d, p) EXCEPT !.primary = v, !.originals = <<>>,
                                             !.primaries = <<>>, !.components = {}]
Align(d, p, v, ps, cs) ==
    [Derive("REALIGNMENT", d, p) EXCEPT !.primary = v, !.primaries = ps, !.components = cs]

MCSubmission ==
    {Ingest(D1, W1), Whole(Ingest(D1, W1)),
     \* no coverage, many to many, a sentence left out, twice used, no language
     [Ingest(D1, W1) EXCEPT !.primaries = <<R(0, 1), R(2, 3)>>],
     [Ingest(D1, W1) EXCEPT !.components = {C({1, 2, 3}, {1, 2})}],
     [Ingest(D1, W1) EXCEPT !.components = {C({1, 2}, {1, 2}), C({3}, {2})}],
     [Ingest(D1, W1) EXCEPT !.components = {C({1}, {1}), C({3}, {2})}],
     Ingest(D1, W3), Ingest(D1, W2),
     \* one variant for both roles, and a self-alignment that is none
     Self(W2), Self(W1),
     [Self(W2) EXCEPT !.components = {C({1}, {2}), C({2}, {1}), C({3}, {3})}],
     [Self(W2) EXCEPT !.primaries = <<R(0, 2), R(3, 4)>>],
     \* edits of D1, of an edit, back to the first text, and of another original
     Edit(D2, D1, Edited), Edit(D3, D1, Recut), Edit(D3, D2, Russian), Edit(D2, D1, Russian),
     [Edit(D3, D1, Edited) EXCEPT !.original = V(Loose, EN, S1)],
     [Edit(D2, D1, Edited) EXCEPT !.originals = Three, !.primaries = <<R(2, 3)>>],
     \* realignments of D1 and of its edits
     Align(D3, D1, Russian, Two, {C({1}, {1}), C({2, 3}, {2})}),
     Align(D4, D1, Russian, <<R(0, 1), R(2, 3), R(3, 4)>>, {C({1, 2}, {1}), C({3}, {2, 3})}),
     Align(D4, D2, Edited, TwoLoose, {C({2, 3}, {1}), C({1}, {2})}),
     Align(D3, D1, Edited, TwoLoose, {C({1, 2}, {1}), C({3}, {2})}),
     Align(D4, D3, Recut, Two, {C({1}, {1}), C({2, 3}, {2})}),
     [Align(D4, D2, English, Three, {C({1}, {1}), C({2}, {2}), C({3}, {3})})
        EXCEPT !.provenance = FALSE]}

\* Fragments do not see each other: two of them, of one or of two documents.
TwoFragments == Cardinality(fragments) <= 2
=============================================================================
