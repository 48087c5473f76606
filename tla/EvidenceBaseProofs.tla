------------------------- MODULE EvidenceBaseProofs -------------------------
(***************************************************************************)
(* Theorems about the two ways that documents come into a workspace:       *)
(* DocumentLineage, for any documents, workspaces, texts and submissions,  *)
(* and EvidenceImport, for any packages and lanes; and about the database  *)
(* they are in: SchemaMigrations, for any sample databases,                *)
(* ProjectionGuards, for any rows, and ValueGuards, for any values.        *)
(***************************************************************************)
EXTENDS DocumentLineage, EvidenceImport, SchemaMigrations, ProjectionGuards, ValueGuards,
        FiniteSetTheorems, TLAPS

(***************************************************************************)
(* Capturing and translating documents.                                    *)
(***************************************************************************)

-----------------------------------------------------------------------------
(* Types.                                                                  *)

LEMMA SubmissionFields ==
    ASSUME NEW s \in Submission
    PROVE  /\ s.kind \in Kind /\ s.document \in Document
           /\ s.workspace \in Workspace \cup {None}
           /\ s.predecessor \in Document \cup {None}
           /\ s.original \in Variant /\ s.primary \in Variant
           /\ s.originals \in Seq(Offsets) /\ s.primaries \in Seq(Offsets)
           /\ s.components \subseteq Component /\ s.provenance \in BOOLEAN
           /\ IF s.kind = "INITIAL_INGEST"
              THEN s.workspace \in Workspace /\ s.predecessor = None
              ELSE s.predecessor \in Document
<1>1. s \in SubmissionType
  BY SubmissionAssumption
<1>2. IF s.kind = "INITIAL_INGEST" THEN s.workspace # None /\ s.predecessor = None
      ELSE s.workspace = None /\ s.predecessor # None
  BY SubmissionAssumption
<1>3. /\ s.kind \in Kind /\ s.document \in Document
      /\ s.workspace \in Workspace \cup {None}
      /\ s.predecessor \in Document \cup {None}
      /\ s.original \in Variant /\ s.primary \in Variant
      /\ s.originals \in Seq(Offsets) /\ s.primaries \in Seq(Offsets)
      /\ s.components \subseteq Component /\ s.provenance \in BOOLEAN
  BY <1>1 DEF SubmissionType
<1> QED
  BY <1>2, <1>3

LEMMA EdgesTyped ==
    ASSUME NEW components \in SUBSET Component
    PROVE  Edges(components) \subseteq Edge
<1> SUFFICES ASSUME NEW c \in components, NEW o \in c.originals, NEW p \in c.primaries
             PROVE  [original |-> o, primary |-> p,
                     cardinality |-> CardinalityOf(c.originals, c.primaries)] \in Edge
  BY DEF Edges
<1>1. o \in Nat \ {0} /\ p \in Nat \ {0}
  BY DEF Component
<1>2. CardinalityOf(c.originals, c.primaries) \in EdgeKind
  BY DEF CardinalityOf, EdgeKind
<1> QED
  BY <1>1, <1>2 DEF Edge

\* The row that a command inserts, and what it requires.
NewRow(s, w, root, synchronized) ==
    [kind |-> s.kind, workspace |-> w, predecessor |-> s.predecessor,
     root |-> root, synchronized |-> synchronized,
     original |-> s.original, primary |-> s.primary,
     originals |-> s.originals, primaries |-> s.primaries,
     edges |-> Edges(s.components),
     translatedFrom |-> IF ~s.provenance THEN None
                        ELSE IF s.predecessor # None THEN s.predecessor
                        ELSE s.document]

LEMMA NewRowTyped ==
    ASSUME NEW s \in Submission, NEW w \in Workspace, NEW root \in Document,
           NEW synchronized \in BOOLEAN
    PROVE  NewRow(s, w, root, synchronized) \in Row
<1>1. Edges(s.components) \subseteq Edge
  BY SubmissionFields, EdgesTyped
<1>2. (IF ~s.provenance THEN None
       ELSE IF s.predecessor # None THEN s.predecessor ELSE s.document) \in Document \cup {None}
  BY SubmissionFields
<1> QED
  BY <1>1, <1>2, SubmissionFields DEF NewRow, Row

\* A stored document with roles has a root.
Rooted == \A d \in Document : HasRoles(d) => documents[d].root \in Document

TypeInv == LineageTypeOK /\ Rooted

\* Every command but the quotations inserts one row.
Inserts(s, w, root, synchronized) ==
    /\ w \in Workspace /\ root \in Document /\ synchronized \in BOOLEAN
    /\ documents[s.document] = None
    /\ RolesAgree(s, w)
    /\ IF synchronized THEN Synchronizes(s) ELSE ClaimsNothing(s)
    /\ documents' = [documents EXCEPT ![s.document] = NewRow(s, w, root, synchronized)]
    /\ declared' = [declared EXCEPT ![s.document] = s.components]
    /\ fragments' = fragments

\* Where a derivative comes from.
Derives(s, w, root) ==
    /\ s.predecessor \in Document /\ HasRoles(s.predecessor)
    /\ w = documents[s.predecessor].workspace
    /\ root = documents[s.predecessor].root
    /\ documents[s.predecessor].original = s.original
    /\ s.kind = "REALIGNMENT" <=> documents[s.predecessor].primary = s.primary

LEMMA Ingested ==
    ASSUME NEW s \in Submission, IngestInitial(s)
    PROVE  /\ Inserts(s, s.workspace, s.document, TRUE)
           /\ s.kind = "INITIAL_INGEST"
  BY SubmissionFields DEF IngestInitial, CreateResult, Inserts, NewRow

LEMMA Edited ==
    ASSUME TypeInv, NEW s \in Submission, TranslationEdit(s)
    PROVE  /\ \E w, root : Inserts(s, w, root, FALSE) /\ Derives(s, w, root)
           /\ s.kind # "INITIAL_INGEST"
<1> DEFINE p == s.predecessor
<1>1. p \in Document /\ HasRoles(p) /\ s.kind = "TRANSLATION_EDIT"
  BY SubmissionFields DEF TranslationEdit, KeepsOriginal
<1>2. documents[p] \in Row /\ documents[p].root \in Document
  BY <1>1 DEF TypeInv, LineageTypeOK, Rooted, HasRoles, Stored
<1>3. documents[p].workspace \in Workspace
  BY <1>2 DEF Row
<1>4. CreateResult(s, documents[p].workspace, documents[p].root, FALSE)
  BY DEF TranslationEdit
<1>5. Inserts(s, documents[p].workspace, documents[p].root, FALSE)
  BY <1>2, <1>3, <1>4 DEF CreateResult, Inserts, NewRow
<1>6. Derives(s, documents[p].workspace, documents[p].root)
  BY <1>1 DEF TranslationEdit, KeepsOriginal, KeepsPrimary, Derives
<1> QED
  BY <1>1, <1>5, <1>6

LEMMA Realigned ==
    ASSUME TypeInv, NEW s \in Submission, Realign(s)
    PROVE  /\ \E w, root : Inserts(s, w, root, TRUE) /\ Derives(s, w, root)
           /\ s.kind # "INITIAL_INGEST"
<1> DEFINE p == s.predecessor
<1>1. p \in Document /\ HasRoles(p) /\ s.kind = "REALIGNMENT"
  BY SubmissionFields DEF Realign, KeepsOriginal
<1>2. documents[p] \in Row /\ documents[p].root \in Document
  BY <1>1 DEF TypeInv, LineageTypeOK, Rooted, HasRoles, Stored
<1>3. documents[p].workspace \in Workspace
  BY <1>2 DEF Row
<1>4. CreateResult(s, documents[p].workspace, documents[p].root, TRUE)
  BY DEF Realign
<1>5. Inserts(s, documents[p].workspace, documents[p].root, TRUE)
  BY <1>2, <1>3, <1>4 DEF CreateResult, Inserts, NewRow
<1>6. Derives(s, documents[p].workspace, documents[p].root)
  BY <1>1 DEF Realign, KeepsOriginal, KeepsPrimary, Derives
<1> QED
  BY <1>1, <1>5, <1>6

\* An insertion keeps every stored document and what was declared of it.
LEMMA InsertKeeps ==
    ASSUME TypeInv, NEW s \in Submission, NEW w, NEW root, NEW synchronized,
           Inserts(s, w, root, synchronized)
    PROVE  /\ s.document \in Document /\ documents[s.document] = None
           /\ documents'[s.document] = NewRow(s, w, root, synchronized)
           /\ declared'[s.document] = s.components
           /\ \A d \in Document \ {s.document} :
                 /\ documents'[d] = documents[d] /\ declared'[d] = declared[d]
                 /\ HasRoles(d)' <=> HasRoles(d)
           /\ HasRoles(s.document)' /\ ~HasRoles(s.document)
<1>1. s.document \in Document /\ s.original # None
  BY SubmissionFields, TextAssumption
<1>2. documents \in [Document -> Row \cup {None}] /\ declared \in [Document -> SUBSET Component]
  BY DEF TypeInv, LineageTypeOK
<1>3. /\ documents[s.document] = None
      /\ documents'[s.document] = NewRow(s, w, root, synchronized)
      /\ declared'[s.document] = s.components
      /\ \A d \in Document \ {s.document} :
            documents'[d] = documents[d] /\ declared'[d] = declared[d]
  BY <1>1, <1>2 DEF Inserts
<1>4. NewRow(s, w, root, synchronized) # None
  BY NewRowTyped, NoneAssumption DEF Inserts
<1>5. NewRow(s, w, root, synchronized).original # None
  BY <1>1 DEF NewRow
<1> QED
  BY <1>1, <1>3, <1>4, <1>5 DEF HasRoles, Stored

\* A quotation adds a fragment of a stored document, and that is all.
Quotes(d, a) ==
    /\ Stored(d)
    /\ fragments' = fragments \cup {[document |-> d, pinned |-> HasRoles(d), anchor |-> a]}
    /\ UNCHANGED <<documents, declared>>

LEMMA Quotation ==
    ASSUME NEW d \in Document, NEW a \in Anchor, CreateFragment(d, a) \/ ImportFragment(d, a)
    PROVE  Quotes(d, a)
<1>1. HasRoles(d) \in BOOLEAN
  BY DEF HasRoles, Stored
<1>2. CASE CreateFragment(d, a)
  <2>1. HasRoles(d) = TRUE
    BY <1>1, <1>2 DEF CreateFragment
  <2> QED
    BY <1>2, <2>1 DEF CreateFragment, Quotes, HasRoles
<1>3. CASE ImportFragment(d, a)
  <2>1. HasRoles(d) = FALSE
    BY <1>1, <1>3 DEF ImportFragment
  <2> QED
    BY <1>3, <2>1 DEF ImportFragment, Quotes
<1> QED
  BY <1>2, <1>3

\* What a step does to the rows: it inserts a document, imports one or quotes.
StepKind ==
    \/ \E s \in Submission : \E w, root, synchronized :
          /\ Inserts(s, w, root, synchronized)
          /\ IF s.kind = "INITIAL_INGEST"
             THEN w = s.workspace /\ root = s.document /\ synchronized = TRUE
             ELSE Derives(s, w, root)
    \/ \E d \in Document, w \in Workspace : ImportLegacy(d, w)
    \/ \E d \in Document, a \in Anchor : Quotes(d, a)
    \/ UNCHANGED vars

LEMMA StepKinds ==
    ASSUME TypeInv, [LineageNext]_vars
    PROVE  StepKind
<1>1. ASSUME NEW s \in Submission, IngestInitial(s) PROVE StepKind
  BY <1>1, Ingested DEF StepKind
<1>2. ASSUME NEW s \in Submission, TranslationEdit(s) PROVE StepKind
  BY <1>2, Edited DEF StepKind
<1>3. ASSUME NEW s \in Submission, Realign(s) PROVE StepKind
  BY <1>3, Realigned DEF StepKind
<1>4. ASSUME NEW d \in Document, NEW a \in Anchor, CreateFragment(d, a) \/ ImportFragment(d, a)
      PROVE  StepKind
  BY <1>4, Quotation DEF StepKind
<1>5. ASSUME NEW d \in Document, NEW w \in Workspace, ImportLegacy(d, w) PROVE StepKind
  BY <1>5 DEF StepKind
<1>6. CASE UNCHANGED vars
  BY <1>6 DEF StepKind
<1> QED
  BY <1>1, <1>2, <1>3, <1>4, <1>5, <1>6 DEF LineageNext

\* A document that a package brings has no roles and leaves all others alone.
LEMMA LegacyImported ==
    ASSUME TypeInv, NEW d \in Document, NEW w \in Workspace, ImportLegacy(d, w)
    PROVE  /\ documents[d] = None /\ ~HasRoles(d) /\ ~HasRoles(d)'
           /\ documents'[d] \in Row /\ documents' \in [Document -> Row \cup {None}]
           /\ declared' = declared /\ fragments' = fragments
           /\ \A c \in Document \ {d} : documents'[c] = documents[c] /\ (HasRoles(c)' <=> HasRoles(c))
<1> DEFINE row == [kind |-> "LEGACY_CAPTURE", workspace |-> w, predecessor |-> None,
                   root |-> None, synchronized |-> FALSE, original |-> None,
                   primary |-> None, originals |-> <<>>, primaries |-> <<>>,
                   edges |-> {}, translatedFrom |-> None]
<1>1. row \in Row
  BY DEF Row
<1>2. documents[d] = None /\ documents' = [documents EXCEPT ![d] = row]
  BY DEF ImportLegacy
<1>3. documents \in [Document -> Row \cup {None}]
  BY DEF TypeInv, LineageTypeOK
<1>4. documents'[d] = row /\ row.original = None
  BY <1>2, <1>3
<1> QED
  BY <1>1, <1>2, <1>3, <1>4 DEF ImportLegacy, HasRoles, Stored

LEMMA TypeInitially == LineageInit => TypeInv
  BY DEF LineageInit, TypeInv, LineageTypeOK, Rooted, HasRoles, Stored

LEMMA TypeStep ==
    ASSUME TypeInv, [LineageNext]_vars
    PROVE  TypeInv'
<1>1. ASSUME NEW s \in Submission, NEW w, NEW root, NEW synchronized,
             Inserts(s, w, root, synchronized)
      PROVE  TypeInv'
  <2>1. NewRow(s, w, root, synchronized) \in Row /\ s.components \in SUBSET Component
    BY <1>1, NewRowTyped, SubmissionFields DEF Inserts
  <2>2. LineageTypeOK'
    BY <1>1, <2>1 DEF Inserts, TypeInv, LineageTypeOK
  <2>3. ASSUME NEW d \in Document, HasRoles(d)' PROVE documents'[d].root \in Document
    <3>1. CASE d = s.document
      <4>1. documents'[d] = NewRow(s, w, root, synchronized)
        BY <1>1, <3>1, InsertKeeps
      <4>2. root \in Document
        BY <1>1 DEF Inserts
      <4> QED
        BY <4>1, <4>2 DEF NewRow
    <3>2. CASE d # s.document
      BY <1>1, <2>3, <3>2, InsertKeeps DEF TypeInv, Rooted
    <3> QED
      BY <3>1, <3>2
  <2> QED
    BY <2>2, <2>3 DEF TypeInv, Rooted
<1>2. ASSUME NEW d \in Document, NEW w \in Workspace, ImportLegacy(d, w) PROVE TypeInv'
  <2>1. LineageTypeOK'
    BY <1>2, LegacyImported DEF TypeInv, LineageTypeOK
  <2>2. Rooted'
    BY <1>2, LegacyImported DEF TypeInv, Rooted
  <2> QED
    BY <2>1, <2>2 DEF TypeInv
<1>3. ASSUME NEW d \in Document, NEW a \in Anchor, Quotes(d, a) PROVE TypeInv'
  <2>1. HasRoles(d) \in BOOLEAN /\ a \in Offsets
    BY SubmissionAssumption DEF HasRoles, Stored
  <2>2. [document |-> d, pinned |-> HasRoles(d), anchor |-> a] \in Fragment
    BY <2>1 DEF Fragment
  <2>3. LineageTypeOK'
    BY <1>3, <2>2 DEF Quotes, TypeInv, LineageTypeOK
  <2> QED
    BY <1>3, <2>3 DEF Quotes, TypeInv, Rooted, HasRoles, Stored
<1>4. CASE UNCHANGED vars
  BY <1>4 DEF vars, TypeInv, LineageTypeOK, Rooted, HasRoles, Stored
<1> QED
  BY <1>1, <1>2, <1>3, <1>4, StepKinds DEF StepKind

\* The rows of every reachable state are well typed, and every document with
\* roles has a root.
LEMMA TypeInvariant == LineageSpec => []TypeInv
<1>1. TypeInv /\ [LineageNext]_vars => TypeInv'
  BY TypeStep
<1> QED
  BY <1>1, TypeInitially, PTL DEF LineageSpec

\* Documents, fragments and declarations are well typed in every reachable state.
THEOREM LineageTypes == LineageSpec => []LineageTypeOK
<1>1. TypeInv => LineageTypeOK
  BY DEF TypeInv
<1> QED
  BY <1>1, TypeInvariant, PTL

-----------------------------------------------------------------------------
(* Trees of derivatives.                                                   *)

\* What is said of a document stays true while its relatives are kept.
LEMMA TreeKept ==
    ASSUME NEW d \in Document, InTree(d), HasRoles(d),
           \A c \in Document : HasRoles(c) => documents'[c] = documents[c] /\ HasRoles(c)'
    PROVE  InTree(d)'
<1> DEFINE row == documents[d]
<1>1. documents'[d] = row
  OBVIOUS
<1>2. /\ row.root \in Document /\ HasRoles(row.root)
      /\ documents'[row.root] = documents[row.root] /\ HasRoles(row.root)'
  BY DEF InTree
<1>3. row.kind # "INITIAL_INGEST" =>
         /\ row.predecessor \in Document
         /\ documents'[row.predecessor] = documents[row.predecessor]
         /\ HasRoles(row.predecessor)'
         /\ row.root = documents[row.predecessor].root
         /\ row.kind = "REALIGNMENT" <=> row.primary = documents[row.predecessor].primary
  BY DEF InTree, Derived
<1>4. row.translatedFrom # None =>
         /\ row.translatedFrom \in Document
         /\ documents'[row.translatedFrom] = documents[row.translatedFrom]
         /\ HasRoles(row.translatedFrom)'
         /\ documents[row.translatedFrom].original = row.original
  BY DEF InTree
<1>5. /\ documents[row.root].kind = "INITIAL_INGEST" /\ documents[row.root].root = row.root
      /\ documents[row.root].workspace = row.workspace
      /\ documents[row.root].original = row.original
      /\ row.kind = "INITIAL_INGEST" <=> row.root = d
  BY DEF InTree
<1> QED
  BY <1>1, <1>2, <1>3, <1>4, <1>5 DEF InTree, Derived, HasRoles, Stored

LEMMA TreeInitially == LineageInit => OneOriginalPerTree
  BY DEF LineageInit, OneOriginalPerTree, HasRoles, Stored

LEMMA TreeStep ==
    ASSUME TypeInv, OneOriginalPerTree, [LineageNext]_vars
    PROVE  OneOriginalPerTree'
<1>1. ASSUME NEW s \in Submission, NEW w, NEW root, NEW synchronized,
             Inserts(s, w, root, synchronized),
             IF s.kind = "INITIAL_INGEST"
             THEN w = s.workspace /\ root = s.document /\ synchronized = TRUE
             ELSE Derives(s, w, root)
      PROVE  OneOriginalPerTree'
  <2> DEFINE new == NewRow(s, w, root, synchronized)
  <2>1. /\ s.document \in Document /\ documents'[s.document] = new
        /\ HasRoles(s.document)' /\ ~HasRoles(s.document)
        /\ \A c \in Document \ {s.document} :
              documents'[c] = documents[c] /\ (HasRoles(c)' <=> HasRoles(c))
    BY <1>1, InsertKeeps
  <2>2. \A c \in Document : HasRoles(c) => documents'[c] = documents[c] /\ HasRoles(c)'
    BY <2>1
  <2>3. ASSUME NEW d \in Document \ {s.document}, HasRoles(d)' PROVE InTree(d)'
    <3>1. HasRoles(d) /\ InTree(d)
      BY <2>1, <2>3 DEF OneOriginalPerTree
    <3> QED
      BY <2>2, <3>1, TreeKept
  <2>4. InTree(s.document)'
    <3>1. /\ new.kind = s.kind /\ new.workspace = w /\ new.root = root
          /\ new.original = s.original /\ new.primary = s.primary
          /\ new.predecessor = s.predecessor
          /\ new.translatedFrom \in
                {None, IF s.predecessor # None THEN s.predecessor ELSE s.document}
      BY DEF NewRow
    <3>2. CASE s.kind = "INITIAL_INGEST"
      <4>1. root = s.document /\ s.predecessor = None
        BY <1>1, <3>2, SubmissionFields
      <4>2. new.translatedFrom \in {None, s.document} /\ new.root = s.document
        BY <3>1, <4>1
      <4> QED
        BY <2>1, <3>1, <3>2, <4>2 DEF InTree
    <3>3. CASE s.kind # "INITIAL_INGEST"
      <4> DEFINE p == s.predecessor
      <4>1. /\ p \in Document /\ HasRoles(p) /\ w = documents[p].workspace
            /\ root = documents[p].root /\ documents[p].original = s.original
            /\ s.kind = "REALIGNMENT" <=> documents[p].primary = s.primary
        BY <1>1, <3>3 DEF Derives
      <4>2. InTree(p)
        BY <4>1 DEF OneOriginalPerTree
      <4>3. /\ root \in Document /\ HasRoles(root)
            /\ documents[root].kind = "INITIAL_INGEST" /\ documents[root].root = root
            /\ documents[root].workspace = w /\ documents[root].original = s.original
        BY <4>1, <4>2 DEF InTree
      <4>4. /\ p # s.document /\ documents'[p] = documents[p] /\ HasRoles(p)'
            /\ root # s.document /\ documents'[root] = documents[root] /\ HasRoles(root)'
        BY <2>1, <2>2, <4>1, <4>3
      <4>5. new.translatedFrom \in {None, p}
        BY <3>1, <4>1, TextAssumption
      <4>6. Derived(s.document)'
        BY <2>1, <3>1, <4>1, <4>4 DEF Derived
      <4> QED
        BY <2>1, <3>1, <3>3, <4>1, <4>3, <4>4, <4>5, <4>6 DEF InTree
    <3> QED
      BY <3>2, <3>3
  <2> QED
    BY <2>3, <2>4 DEF OneOriginalPerTree
<1>2. ASSUME NEW d \in Document, NEW w \in Workspace, ImportLegacy(d, w)
      PROVE  OneOriginalPerTree'
  <2>1. /\ ~HasRoles(d)' /\ ~HasRoles(d)
        /\ \A c \in Document \ {d} : documents'[c] = documents[c] /\ (HasRoles(c)' <=> HasRoles(c))
    BY <1>2, LegacyImported
  <2>2. \A c \in Document : HasRoles(c) => documents'[c] = documents[c] /\ HasRoles(c)'
    BY <2>1
  <2>3. \A c \in Document : HasRoles(c)' => HasRoles(c)
    BY <2>1
  <2> QED
    BY <2>2, <2>3, TreeKept DEF OneOriginalPerTree
<1>3. CASE documents' = documents
  BY <1>3 DEF OneOriginalPerTree, InTree, Derived, HasRoles, Stored
<1> QED
  BY <1>1, <1>2, <1>3, StepKinds DEF StepKind, Quotes, vars

\* Every document with roles belongs to a tree with one root, one workspace and
\* one original, whatever is edited and realigned.
THEOREM OneOriginalAlways == LineageSpec => []OneOriginalPerTree
<1>1. TypeInv /\ OneOriginalPerTree /\ [LineageNext]_vars => OneOriginalPerTree'
  BY TreeStep
<1> QED
  BY <1>1, TreeInitially, TypeInvariant, PTL DEF LineageSpec

-----------------------------------------------------------------------------
(* What a reader is shown.                                                 *)

LEMMA EdgeOfComponent ==
    ASSUME NEW components, NEW e
    PROVE  e \in Edges(components) <=>
              \E c \in components : \E o \in c.originals, p \in c.primaries :
                 e = [original |-> o, primary |-> p,
                      cardinality |-> CardinalityOf(c.originals, c.primaries)]
  BY DEF Edges

\* The stored edges of a sentence lead to the other side of its component.
LEMMA Counterparts ==
    ASSUME NEW s \in Submission, ValidComponents(s), NEW c \in s.components,
           NEW o \in c.originals, NEW p \in c.primaries
    PROVE  /\ Originals(Edges(s.components), p) = c.originals
           /\ Primaries(Edges(s.components), o) = c.primaries
<1> DEFINE edges == Edges(s.components)
<1>1. \A b \in s.components : b # c =>
         b.originals \cap c.originals = {} /\ b.primaries \cap c.primaries = {}
  BY DEF ValidComponents
<1>2. ASSUME NEW x \in c.originals PROVE x \in Originals(edges, p)
  <2> DEFINE e == [original |-> x, primary |-> p,
                   cardinality |-> CardinalityOf(c.originals, c.primaries)]
  <2>1. e \in edges
    BY EdgeOfComponent
  <2> QED
    BY <2>1 DEF Originals
<1>3. ASSUME NEW x \in Originals(edges, p) PROVE x \in c.originals
  <2>1. PICK e \in edges : e.primary = p /\ e.original = x
    BY DEF Originals
  <2>2. PICK b \in s.components : \E q \in b.originals, r \in b.primaries :
           e = [original |-> q, primary |-> r,
                cardinality |-> CardinalityOf(b.originals, b.primaries)]
    BY <2>1, EdgeOfComponent
  <2>3. x \in b.originals /\ p \in b.primaries
    BY <2>1, <2>2
  <2> QED
    BY <1>1, <2>3
<1>4. ASSUME NEW x \in c.primaries PROVE x \in Primaries(edges, o)
  <2> DEFINE e == [original |-> o, primary |-> x,
                   cardinality |-> CardinalityOf(c.originals, c.primaries)]
  <2>1. e \in edges
    BY EdgeOfComponent
  <2> QED
    BY <2>1 DEF Primaries
<1>5. ASSUME NEW x \in Primaries(edges, o) PROVE x \in c.primaries
  <2>1. PICK e \in edges : e.original = o /\ e.primary = x
    BY DEF Primaries
  <2>2. PICK b \in s.components : \E q \in b.originals, r \in b.primaries :
           e = [original |-> q, primary |-> r,
                cardinality |-> CardinalityOf(b.originals, b.primaries)]
    BY <2>1, EdgeOfComponent
  <2>3. o \in b.originals /\ x \in b.primaries
    BY <2>1, <2>2
  <2> QED
    BY <1>1, <2>3
<1> QED
  BY <1>2, <1>3, <1>4, <1>5

\* The sides of a component are finite, so that one of one sentence is a singleton.
LEMMA OneSentence ==
    ASSUME NEW s \in Submission, ValidComponents(s), Monolingual(s), NEW c \in s.components,
           NEW o \in c.originals, NEW p \in c.primaries
    PROVE  o = p
<1>1. Cardinality(c.originals) = 1 /\ c.originals = c.primaries
  BY DEF ValidComponents
<1>2. c.originals \subseteq DOMAIN s.originals
  BY DEF ValidComponents
<1>3. IsFiniteSet(DOMAIN s.originals)
  <2>1. DOMAIN s.originals = 1 .. Len(s.originals) /\ Len(s.originals) \in Nat
    BY SubmissionFields
  <2> QED
    BY <2>1, FS_Interval
<1>4. IsFiniteSet(c.originals)
  BY <1>2, <1>3, FS_Subset
<1>5. \E x : c.originals = {x}
  BY <1>1, <1>4, FS_Singleton
<1> QED
  BY <1>1, <1>5

\* A row that stores a valid submission is proved by the reader's checks.
LEMMA StoredIsProven ==
    ASSUME NEW s \in Submission, Synchronizes(s), NEW row,
           row.originals = s.originals, row.primaries = s.primaries,
           row.edges = Edges(s.components)
    PROVE  ComponentsProven(row)
<1>1. ValidComponents(s)
  BY DEF Synchronizes
<1>2. /\ \A c \in s.components : c.originals # {} /\ c.primaries # {}
      /\ \A c \in s.components : Cardinality(c.originals) = 1 \/ Cardinality(c.primaries) = 1
      /\ UNION {c.originals : c \in s.components} = DOMAIN s.originals
      /\ UNION {c.primaries : c \in s.components} = DOMAIN s.primaries
  BY <1>1 DEF ValidComponents
<1>3. {e.original : e \in row.edges} = DOMAIN row.originals
  <2>1. ASSUME NEW x \in DOMAIN s.originals PROVE \E e \in row.edges : e.original = x
    <3>1. PICK c \in s.components : x \in c.originals
      BY <1>2, <2>1
    <3>2. PICK p : p \in c.primaries
      BY <1>2
    <3> DEFINE e == [original |-> x, primary |-> p,
                     cardinality |-> CardinalityOf(c.originals, c.primaries)]
    <3>3. e \in row.edges
      BY <3>1, <3>2, EdgeOfComponent
    <3> QED
      BY <3>3
  <2>2. ASSUME NEW e \in row.edges PROVE e.original \in DOMAIN s.originals
    <3>1. PICK c \in s.components : e.original \in c.originals
      BY <2>2, EdgeOfComponent
    <3> QED
      BY <1>2, <3>1
  <2> QED
    BY <2>1, <2>2
<1>4. {e.primary : e \in row.edges} = DOMAIN row.primaries
  <2>1. ASSUME NEW x \in DOMAIN s.primaries PROVE \E e \in row.edges : e.primary = x
    <3>1. PICK c \in s.components : x \in c.primaries
      BY <1>2, <2>1
    <3>2. PICK o : o \in c.originals
      BY <1>2
    <3> DEFINE e == [original |-> o, primary |-> x,
                     cardinality |-> CardinalityOf(c.originals, c.primaries)]
    <3>3. e \in row.edges
      BY <3>1, <3>2, EdgeOfComponent
    <3> QED
      BY <3>3
  <2>2. ASSUME NEW e \in row.edges PROVE e.primary \in DOMAIN s.primaries
    <3>1. PICK c \in s.components : e.primary \in c.primaries
      BY <2>2, EdgeOfComponent
    <3> QED
      BY <1>2, <3>1
  <2> QED
    BY <2>1, <2>2
<1>5. ASSUME NEW e \in row.edges
      PROVE  LET os == Originals(row.edges, e.primary)
                 ps == Primaries(row.edges, e.original)
             IN /\ \A o \in os : Primaries(row.edges, o) = ps
                /\ \A p \in ps : Originals(row.edges, p) = os
                /\ Cardinality(os) = 1 \/ Cardinality(ps) = 1
                /\ e.cardinality = CardinalityOf(os, ps)
  <2>1. PICK c \in s.components : \E o \in c.originals, p \in c.primaries :
           e = [original |-> o, primary |-> p,
                cardinality |-> CardinalityOf(c.originals, c.primaries)]
    BY <1>5, EdgeOfComponent
  <2>2. /\ e.original \in c.originals /\ e.primary \in c.primaries
        /\ e.cardinality = CardinalityOf(c.originals, c.primaries)
    BY <2>1
  <2>3. /\ \A o \in c.originals : Primaries(row.edges, o) = c.primaries
        /\ \A p \in c.primaries : Originals(row.edges, p) = c.originals
    BY <1>1, <2>2, Counterparts
  <2> QED
    BY <1>2, <2>2, <2>3
<1> QED
  BY <1>3, <1>4, <1>5 DEF ComponentsProven

\* What a document with roles stores was submitted and accepted.
Accepts(s, d) ==
    LET row == documents[d] IN
    /\ row.original = s.original /\ row.primary = s.primary
    /\ row.originals = s.originals /\ row.primaries = s.primaries
    /\ row.edges = Edges(s.components) /\ declared[d] = s.components
    /\ IF row.synchronized THEN Synchronizes(s) ELSE ClaimsNothing(s)
    /\ Monolingual(s) => s.primary = s.original

AcceptedInv ==
    /\ \A d \in Document :
          IF HasRoles(d) THEN \E s \in Submission : Accepts(s, d)
          ELSE declared[d] = {} /\ (Stored(d) => ~documents[d].synchronized)
    /\ \A f \in fragments :
          /\ f.document \in Document /\ Stored(f.document)
          /\ f.pinned <=> HasRoles(f.document)

LEMMA AcceptedInitially == LineageInit => AcceptedInv
  BY DEF LineageInit, AcceptedInv, HasRoles, Stored

LEMMA AcceptedStep ==
    ASSUME TypeInv, AcceptedInv, [LineageNext]_vars
    PROVE  AcceptedInv'
<1>1. ASSUME NEW s \in Submission, NEW w, NEW root, NEW synchronized,
             Inserts(s, w, root, synchronized)
      PROVE  AcceptedInv'
  <2> DEFINE new == NewRow(s, w, root, synchronized)
  <2>1. /\ s.document \in Document /\ documents[s.document] = None
        /\ documents'[s.document] = new /\ declared'[s.document] = s.components
        /\ HasRoles(s.document)' /\ ~HasRoles(s.document)
        /\ \A d \in Document \ {s.document} :
              /\ documents'[d] = documents[d] /\ declared'[d] = declared[d]
              /\ (HasRoles(d)' <=> HasRoles(d))
    BY <1>1, InsertKeeps
  <2>2. /\ fragments' = fragments /\ RolesAgree(s, w)
        /\ IF synchronized THEN Synchronizes(s) ELSE ClaimsNothing(s)
    BY <1>1 DEF Inserts
  <2>3. Accepts(s, s.document)'
    <3>1. /\ new.original = s.original /\ new.primary = s.primary
          /\ new.originals = s.originals /\ new.primaries = s.primaries
          /\ new.edges = Edges(s.components) /\ new.synchronized = synchronized
      BY DEF NewRow
    <3>2. Monolingual(s) => s.primary = s.original
      BY <2>2 DEF RolesAgree
    <3> QED
      BY <2>1, <2>2, <3>1, <3>2 DEF Accepts
  <2>4. ASSUME NEW d \in Document
        PROVE  IF HasRoles(d)' THEN \E q \in Submission : Accepts(q, d)'
               ELSE declared'[d] = {} /\ (Stored(d)' => ~documents'[d].synchronized)
    <3>1. CASE d = s.document
      BY <2>1, <2>3, <3>1
    <3>2. CASE d # s.document
      BY <2>1, <3>2 DEF AcceptedInv, Accepts, Stored
    <3> QED
      BY <3>1, <3>2
  <2>5. ASSUME NEW f \in fragments'
        PROVE  /\ f.document \in Document /\ Stored(f.document)'
               /\ f.pinned <=> HasRoles(f.document)'
    <3>1. f \in fragments
      BY <2>2
    <3>2. /\ f.document \in Document /\ documents[f.document] # None
          /\ f.pinned <=> HasRoles(f.document)
      BY <3>1 DEF AcceptedInv, Stored
    <3>3. f.document # s.document
      BY <2>1, <3>2
    <3> QED
      BY <2>1, <3>2, <3>3 DEF Stored
  <2> QED
    BY <2>4, <2>5 DEF AcceptedInv
<1>2. ASSUME NEW d \in Document, NEW w \in Workspace, ImportLegacy(d, w)
      PROVE  AcceptedInv'
  <2>1. /\ documents[d] = None /\ ~HasRoles(d) /\ ~HasRoles(d)'
        /\ declared' = declared /\ fragments' = fragments
        /\ \A c \in Document \ {d} : documents'[c] = documents[c] /\ (HasRoles(c)' <=> HasRoles(c))
    BY <1>2, LegacyImported
  <2>2. documents'[d].synchronized = FALSE
    BY <1>2 DEF ImportLegacy, TypeInv, LineageTypeOK
  <2>3. ASSUME NEW c \in Document
        PROVE  IF HasRoles(c)' THEN \E q \in Submission : Accepts(q, c)'
               ELSE declared'[c] = {} /\ (Stored(c)' => ~documents'[c].synchronized)
    <3>1. CASE c = d
      BY <2>1, <2>2, <3>1 DEF AcceptedInv
    <3>2. CASE c # d
      BY <2>1, <3>2 DEF AcceptedInv, Accepts, Stored
    <3> QED
      BY <3>1, <3>2
  <2>4. ASSUME NEW f \in fragments'
        PROVE  /\ f.document \in Document /\ Stored(f.document)'
               /\ f.pinned <=> HasRoles(f.document)'
    <3>1. /\ f.document \in Document /\ documents[f.document] # None
          /\ f.pinned <=> HasRoles(f.document)
      BY <2>1 DEF AcceptedInv, Stored
    <3> QED
      BY <2>1, <3>1 DEF Stored
  <2> QED
    BY <2>3, <2>4 DEF AcceptedInv
<1>3. ASSUME NEW d \in Document, NEW a \in Anchor, Quotes(d, a)
      PROVE  AcceptedInv'
  <2>1. /\ documents' = documents /\ declared' = declared /\ Stored(d)
        /\ fragments' = fragments \cup {[document |-> d, pinned |-> HasRoles(d), anchor |-> a]}
    BY <1>3 DEF Quotes
  <2>2. \A c \in Document : (HasRoles(c)' <=> HasRoles(c)) /\ (Stored(c)' <=> Stored(c))
    BY <2>1 DEF HasRoles, Stored
  <2>3. ASSUME NEW c \in Document
        PROVE  IF HasRoles(c)' THEN \E q \in Submission : Accepts(q, c)'
               ELSE declared'[c] = {} /\ (Stored(c)' => ~documents'[c].synchronized)
    BY <2>1, <2>2 DEF AcceptedInv, Accepts
  <2>4. ASSUME NEW f \in fragments'
        PROVE  /\ f.document \in Document /\ Stored(f.document)'
               /\ f.pinned <=> HasRoles(f.document)'
    <3>1. CASE f \in fragments
      BY <2>2, <3>1 DEF AcceptedInv
    <3>2. CASE f = [document |-> d, pinned |-> HasRoles(d), anchor |-> a]
      <4>1. f.document = d /\ f.pinned = HasRoles(d)
        BY <3>2
      <4> QED
        BY <2>1, <2>2, <4>1
    <3> QED
      BY <2>1, <3>1, <3>2
  <2> QED
    BY <2>3, <2>4 DEF AcceptedInv
<1>4. CASE UNCHANGED vars
  BY <1>4 DEF vars, AcceptedInv, Accepts, HasRoles, Stored
<1> QED
  BY <1>1, <1>2, <1>3, <1>4, StepKinds DEF StepKind

LEMMA AcceptedInvariant == LineageSpec => [](TypeInv /\ AcceptedInv)
<1>1. TypeInv /\ AcceptedInv /\ [LineageNext]_vars => (TypeInv /\ AcceptedInv)'
  BY TypeStep, AcceptedStep
<1> QED
  BY <1>1, TypeInitially, AcceptedInitially, PTL DEF LineageSpec

\* A reader proves every alignment that was accepted, and is shown what it says.
LEMMA ShownOriginals ==
    ASSUME AcceptedInv, NEW f \in fragments
    PROVE  OriginalSentences(f) =
              UNION {c.originals : c \in {b \in declared[f.document] :
                        b.primaries \cap Quoted(f, documents[f.document].primaries) # {}}}
<1> DEFINE d == f.document
           row == documents[d]
           quoted == Quoted(f, row.primaries)
<1>1. d \in Document /\ (f.pinned <=> HasRoles(d))
  BY DEF AcceptedInv
<1>2. CASE ~HasRoles(d)
  <2>1. declared[d] = {}
    BY <1>1, <1>2 DEF AcceptedInv
  <2>2. ~Aligned(f)
    BY <1>1, <1>2 DEF Aligned
  <2> QED
    BY <2>1, <2>2 DEF OriginalSentences
<1>3. CASE HasRoles(d)
  <2>1. PICK s \in Submission : Accepts(s, d)
    BY <1>1, <1>3 DEF AcceptedInv
  <2>2. /\ row.original = s.original /\ row.primary = s.primary
        /\ row.originals = s.originals /\ row.primaries = s.primaries
        /\ row.edges = Edges(s.components) /\ declared[d] = s.components
    BY <2>1 DEF Accepts
  <2>3. CASE ~row.synchronized
    <3>1. s.components = {}
      BY <2>1, <2>3 DEF Accepts, ClaimsNothing
    <3>2. ~Aligned(f)
      BY <2>3 DEF Aligned
    <3> QED
      BY <2>2, <3>1, <3>2 DEF OriginalSentences
  <2>4. CASE row.synchronized
    <3>1. Synchronizes(s) /\ ValidComponents(s)
      BY <2>1, <2>4 DEF Accepts, Synchronizes
    <3>2. ComponentsProven(row)
      BY <2>2, <3>1, StoredIsProven
    <3>3. RangesComplete(row.original, row.originals) /\ RangesComplete(row.primary, row.primaries)
      BY <2>2, <3>1 DEF Synchronizes, Normalised, RangesComplete
    <3>4. row.original = row.primary => \A e \in row.edges : e.original = e.primary
      <4> SUFFICES ASSUME row.original = row.primary, NEW e \in row.edges
                   PROVE  e.original = e.primary
        OBVIOUS
      <4>1. Monolingual(s)
        BY <2>2 DEF Monolingual
      <4>2. PICK c \in s.components : e.original \in c.originals /\ e.primary \in c.primaries
        BY <2>2, EdgeOfComponent
      <4> QED
        BY <3>1, <4>1, <4>2, OneSentence
    <3>5. Aligned(f)
      BY <1>1, <1>3, <2>4, <3>2, <3>3, <3>4 DEF Aligned
    <3>6. quoted \subseteq DOMAIN s.primaries
      BY <2>2 DEF Quoted
    <3>7. ASSUME NEW x
          PROVE  (\E p \in quoted : x \in Originals(row.edges, p)) <=>
                    \E c \in s.components : c.primaries \cap quoted # {} /\ x \in c.originals
      <4>1. ASSUME NEW p \in quoted, x \in Originals(row.edges, p)
            PROVE  \E c \in s.components : c.primaries \cap quoted # {} /\ x \in c.originals
        <5>1. PICK e \in row.edges : e.primary = p /\ e.original = x
          BY <4>1 DEF Originals
        <5>2. PICK c \in s.components : e.original \in c.originals /\ e.primary \in c.primaries
          BY <2>2, <5>1, EdgeOfComponent
        <5> QED
          BY <4>1, <5>1, <5>2
      <4>2. ASSUME NEW c \in s.components, c.primaries \cap quoted # {}, x \in c.originals
            PROVE  \E p \in quoted : x \in Originals(row.edges, p)
        <5>1. PICK p \in quoted : p \in c.primaries
          BY <4>2
        <5>2. Originals(row.edges, p) = c.originals
          BY <2>2, <3>1, <4>2, <5>1, Counterparts
        <5> QED
          BY <4>2, <5>1, <5>2
      <4> QED
        BY <4>1, <4>2
    <3>8. OriginalSentences(f) = UNION {Originals(row.edges, p) : p \in quoted}
      BY <3>5 DEF OriginalSentences
    <3> QED
      BY <2>2, <3>7, <3>8
  <2> QED
    BY <2>3, <2>4
<1> QED
  BY <1>2, <1>3

\* A reader is shown what the author of the quoted document declared, no more
\* and no less, for any texts and alignments.
THEOREM OriginalsAlwaysDeclared == LineageSpec => []OriginalsAreDeclared
<1>1. AcceptedInv => OriginalsAreDeclared
  BY ShownOriginals DEF OriginalsAreDeclared
<1> QED
  BY <1>1, AcceptedInvariant, PTL

\* Whoever quotes a visible character of a synchronized document is shown an
\* original: the writer's checks imply the reader's.
LEMMA VisibleIsShown ==
    ASSUME TypeInv, AcceptedInv, NEW f \in fragments,
           documents[f.document].synchronized,
           NEW k \in DOMAIN Blank[documents[f.document].primary.text],
           f.anchor.from < k, k <= f.anchor.to,
           ~Blank[documents[f.document].primary.text][k]
    PROVE  OriginalSentences(f) # {}
<1> DEFINE d == f.document
           row == documents[d]
<1>1. d \in Document /\ HasRoles(d)
  BY DEF AcceptedInv
<1>2. PICK s \in Submission : Accepts(s, d)
  BY <1>1 DEF AcceptedInv
<1>3. Synchronizes(s) /\ ValidComponents(s) /\ declared[d] = s.components
      /\ row.primary = s.primary /\ row.primaries = s.primaries
  BY <1>2 DEF Accepts, Synchronizes
<1>4. CoverText(s.primary.text, s.primaries)
  BY <1>3 DEF Synchronizes, Normalised
<1>5. PICK i \in DOMAIN s.primaries : s.primaries[i].from < k /\ k <= s.primaries[i].to
  BY <1>3, <1>4 DEF CoverText
<1>6. i \in Quoted(f, row.primaries)
  <2>1. s.primaries[i].from \in Nat /\ s.primaries[i].to \in Nat
    <3>1. s.primaries \in Seq(Offsets)
      BY SubmissionFields
    <3>2. s.primaries[i] \in Offsets
      BY <1>5, <3>1
    <3> QED
      BY <3>2 DEF Offsets
  <2>2. f.anchor.from \in Nat /\ f.anchor.to \in Nat
    BY DEF TypeInv, LineageTypeOK, Fragment, Offsets
  <2>3. k \in Nat
    <3>1. s.primary.text \in Text
      BY SubmissionFields DEF Variant
    <3>2. Blank[s.primary.text] \in Seq(BOOLEAN)
      BY <3>1, TextAssumption
    <3> QED
      BY <1>3, <3>2
  <2>4. s.primaries[i].from < f.anchor.to /\ f.anchor.from < s.primaries[i].to
    BY <1>5, <2>1, <2>2, <2>3
  <2> QED
    BY <1>3, <2>4 DEF Quoted
<1>7. PICK c \in s.components : i \in c.primaries
  BY <1>3 DEF ValidComponents
<1>8. PICK o : o \in c.originals
  BY <1>3 DEF ValidComponents
<1>9. o \in OriginalSentences(f)
  BY <1>3, <1>6, <1>7, <1>8, ShownOriginals
<1> QED
  BY <1>9

\* The same, of every reachable state.
THEOREM SynchronizedAlwaysShown == LineageSpec => []SynchronizedIsShown
<1>1. TypeInv /\ AcceptedInv => SynchronizedIsShown
  BY VisibleIsShown DEF SynchronizedIsShown
<1> QED
  BY <1>1, AcceptedInvariant, PTL

(***************************************************************************)
(* Importing packages of evidence.                                         *)
(***************************************************************************)

-----------------------------------------------------------------------------
(* Rows and their identities.                                              *)

LEMMA LaneIdentity ==
    ASSUME NEW x, x.section = "LANE"
    PROVE  Identity(x) = x.id
  BY DEF Identity

LEMMA NamedIdentity ==
    ASSUME NEW x, x.section \in {"ASSESSMENT", "DOCUMENT", "FACT"}
    PROVE  Identity(x) = x.id
  BY DEF Identity

LEMMA LaneFields ==
    ASSUME NEW e, NEW s
    PROVE  /\ Lane(e, s).section = "LANE" /\ Lane(e, s).id = e /\ Lane(e, s).status = s
           /\ Identity(Lane(e, s)) = e
<1>1. Lane(e, s).section = "LANE" /\ Lane(e, s).id = e /\ Lane(e, s).status = s
  BY DEF Lane
<1> QED
  BY <1>1, LaneIdentity

\* A lane has one status.
LEMMA OneStatus ==
    ASSUME Distinct(rows), NEW e, NEW s, Lane(e, s) \in rows
    PROVE  /\ LaneStatus(rows, e) = {s}
           /\ \A t : Lane(e, t) \in rows => t = s
<1>1. ASSUME NEW y \in Of(rows, "LANE"), y.id = e
      PROVE  y = Lane(e, s)
  <2>1. y \in rows /\ y.section = "LANE"
    BY <1>1 DEF Of
  <2>2. Identity(y) = e
    BY <1>1, <2>1, LaneIdentity
  <2> QED
    BY <2>1, <2>2, LaneFields DEF Distinct
<1>2. Lane(e, s) \in {y \in Of(rows, "LANE") : y.id = e}
  BY LaneFields DEF Of
<1>3. {y \in Of(rows, "LANE") : y.id = e} = {Lane(e, s)}
  BY <1>1, <1>2
<1>4. LaneStatus(rows, e) = {s}
  BY <1>3, LaneFields DEF LaneStatus
<1>5. ASSUME NEW t, Lane(e, t) \in rows
      PROVE  t = s
  <2>1. Lane(e, t) \in Of(rows, "LANE") /\ Lane(e, t).id = e
    BY <1>5, LaneFields DEF Of
  <2>2. Lane(e, t) = Lane(e, s)
    BY <1>1, <2>1
  <2> QED
    BY <2>2, LaneFields
<1> QED
  BY <1>4, <1>5

-----------------------------------------------------------------------------
(* What a step does to the rows.                                           *)

\* A commit, once its outcome is known.
Commits(q) ==
    /\ Valid(q.rows) /\ LaneSelected(q) /\ NoConflict(q) /\ Clean(q)
    /\ rows' = rows \cup q.rows
    /\ receipts' = receipts \cup {[request |-> q, status |-> "COMMITTED", created |-> Created(q)]}

\* What is previewed is valid, and what is refused has a status.
AttemptInv ==
    \A i \in Importer : attempt[i] # Absent =>
       /\ attempt[i].request \in Request
       /\ attempt[i].step = "previewed" => Valid(attempt[i].request.rows)
       /\ attempt[i].step = "refused" => attempt[i].status \in {"REJECTED", "FAILED"}

EvidenceTypeInv == EvidenceTypeOK /\ AttemptInv

Recorded ==
    /\ rows' = rows
    /\ \E q \in Request, s \in {"REJECTED", "FAILED"} :
          receipts' = receipts \cup {[request |-> q, status |-> s, created |-> {}]}

LaneStep(e) == CreateExperiment(e) \/ FreezeExperiment(e) \/ ArchiveExperiment(e)

EvidenceStepKind ==
    \/ \E q \in Request : Commits(q)
    \/ rows' = rows /\ receipts' = receipts
    \/ Recorded
    \/ \E e \in Experiment : LaneStep(e)
    \/ \E a \in PlayerRow : Assess(a)

LEMMA CommitKinds ==
    ASSUME EvidenceTypeInv, NEW i \in Importer, Commit(i)
    PROVE  \/ \E q \in Request : Commits(q) /\ attempt' = [attempt EXCEPT ![i] = Absent]
           \/ /\ UNCHANGED <<rows, receipts>>
              /\ \E o \in {"REJECTED", "FAILED"} :
                    attempt' = [attempt EXCEPT ![i].step = "refused", ![i].status = o]
<1> DEFINE q == attempt[i].request
<1>1. q \in Request /\ Valid(q.rows)
  BY DEF EvidenceTypeInv, AttemptInv, Commit
<1>2. PICK o \in Outcomes(q, attempt[i].plan) :
          IF o = "COMMITTED"
          THEN /\ rows' = rows \cup q.rows
               /\ receipts' = receipts \cup {[request |-> q, status |-> o, created |-> Created(q)]}
               /\ attempt' = [attempt EXCEPT ![i] = Absent]
          ELSE /\ attempt' = [attempt EXCEPT ![i].step = "refused", ![i].status = o]
               /\ UNCHANGED <<rows, receipts>>
  BY DEF Commit
<1>3. CASE o = "COMMITTED"
  <2>1. LaneSelected(q) /\ NoConflict(q) /\ Clean(q)
    BY <1>2, <1>3 DEF Outcomes
  <2>2. Commits(q)
    BY <1>1, <1>2, <1>3, <2>1 DEF Commits
  <2> QED
    BY <1>1, <1>2, <1>3, <2>2
<1>4. CASE o # "COMMITTED"
  <2>1. o \in {"REJECTED", "FAILED"}
    BY <1>2, <1>4 DEF Outcomes
  <2> QED
    BY <1>2, <1>4, <2>1
<1> QED
  BY <1>3, <1>4

LEMMA EvidenceStepKinds ==
    ASSUME EvidenceTypeInv, [EvidenceNext]_evidenceVars
    PROVE  EvidenceStepKind
<1>1. ASSUME NEW i \in Importer, NEW q \in Request, Preview(i, q)
      PROVE  EvidenceStepKind
  BY <1>1 DEF Preview, EvidenceStepKind
<1>2. ASSUME NEW i \in Importer, Commit(i)
      PROVE  EvidenceStepKind
  BY <1>2, CommitKinds DEF EvidenceStepKind
<1>3. ASSUME NEW i \in Importer, RecordRefusal(i)
      PROVE  EvidenceStepKind
  <2>1. attempt[i].request \in Request /\ attempt[i].status \in {"REJECTED", "FAILED"}
    BY <1>3 DEF RecordRefusal, EvidenceTypeInv, AttemptInv
  <2>2. Recorded
    BY <1>3, <2>1 DEF RecordRefusal, Recorded
  <2> QED
    BY <2>2 DEF EvidenceStepKind
<1>4. ASSUME NEW i \in Importer, Crash(i)
      PROVE  EvidenceStepKind
  BY <1>4 DEF Crash, EvidenceStepKind
<1>5. ASSUME NEW e \in Experiment, LaneStep(e)
      PROVE  EvidenceStepKind
  BY <1>5 DEF EvidenceStepKind
<1>6. ASSUME NEW a \in PlayerRow, Assess(a)
      PROVE  EvidenceStepKind
  BY <1>6 DEF EvidenceStepKind
<1>7. CASE UNCHANGED evidenceVars
  BY <1>7 DEF evidenceVars, EvidenceStepKind
<1> QED
  BY <1>1, <1>2, <1>3, <1>4, <1>5, <1>6, <1>7 DEF EvidenceNext, LaneStep

\* A lane step touches no other row, and loses no lane.
LEMMA LaneSteps ==
    ASSUME NEW e, LaneStep(e)
    PROVE  /\ \E s \in {"DRAFT", "FROZEN", "ARCHIVED"} :
                 /\ Lane(e, s) \in rows'
                 /\ \/ /\ LaneStatus(rows, e) = {}
                       /\ rows' = rows \cup {Lane(e, s)}
                    \/ \E r \in {"DRAFT", "FROZEN"} :
                          /\ Lane(e, r) \in rows
                          /\ rows' = (rows \ {Lane(e, r)}) \cup {Lane(e, s)}
           /\ receipts' = receipts /\ attempt' = attempt
  BY DEF LaneStep, CreateExperiment, FreezeExperiment, ArchiveExperiment, Move

-----------------------------------------------------------------------------
(* Types.                                                                  *)

LEMMA RequestFields ==
    ASSUME NEW q \in Request
    PROVE  q.rows \subseteq StoredRow /\ q.lane \in Experiment \cup {Absent}
<1>1. q \in RequestType
  BY ImportAssumption
<1> QED
  BY <1>1 DEF RequestType

LEMMA LaneTyped ==
    ASSUME NEW e \in Experiment, NEW s \in {"DRAFT", "FROZEN", "ARCHIVED"}
    PROVE  Lane(e, s) \in StoredRow
<1>1. Lane(e, s) \in LaneRow
  BY DEF Lane, LaneRow
<1> QED
  BY <1>1 DEF StoredRow

LEMMA EvidenceTypeInitially == EvidenceInit => EvidenceTypeInv
  BY DEF EvidenceInit, EvidenceTypeInv, EvidenceTypeOK, AttemptInv

LEMMA RowsTyped ==
    ASSUME EvidenceTypeInv, [EvidenceNext]_evidenceVars
    PROVE  rows' \subseteq StoredRow /\ receipts' \subseteq ImportRun
<1>1. rows \subseteq StoredRow /\ receipts \subseteq ImportRun
  BY DEF EvidenceTypeInv, EvidenceTypeOK
<1>2. ASSUME NEW q \in Request, Commits(q)
      PROVE  rows' \subseteq StoredRow /\ receipts' \subseteq ImportRun
  <2>1. Created(q) \subseteq StoredRow
    BY RequestFields DEF Created
  <2>2. [request |-> q, status |-> "COMMITTED", created |-> Created(q)] \in ImportRun
    BY <2>1 DEF ImportRun
  <2> QED
    BY <1>1, <1>2, <2>2, RequestFields DEF Commits
<1>3. CASE Recorded
  BY <1>1, <1>3 DEF Recorded, ImportRun
<1>4. ASSUME NEW e \in Experiment, LaneStep(e)
      PROVE  rows' \subseteq StoredRow /\ receipts' \subseteq ImportRun
  BY <1>1, <1>4, LaneSteps, LaneTyped
<1>5. ASSUME NEW a \in PlayerRow, Assess(a)
      PROVE  rows' \subseteq StoredRow /\ receipts' \subseteq ImportRun
  <2>1. a \in StoredRow
    BY ImportAssumption DEF StoredRow
  <2> QED
    BY <1>1, <1>5, <2>1 DEF Assess
<1> QED
  BY <1>1, <1>2, <1>3, <1>4, <1>5, EvidenceStepKinds DEF EvidenceStepKind

\* One attempt changes at a time.
LEMMA AttemptStep ==
    ASSUME EvidenceTypeInv, NEW i \in Importer, NEW v \in Attempt,
           attempt' = [attempt EXCEPT ![i] = v] \/ attempt' = [attempt EXCEPT ![i] = Absent],
           v.step = "previewed" => Valid(v.request.rows),
           v.step = "refused" => v.status \in {"REJECTED", "FAILED"}
    PROVE  attempt' \in [Importer -> Attempt \cup {Absent}] /\ AttemptInv'
<1>1. attempt \in [Importer -> Attempt \cup {Absent}]
  BY DEF EvidenceTypeInv, EvidenceTypeOK
<1>2. v.request \in Request
  BY DEF Attempt
<1>3. ASSUME NEW j \in Importer, attempt'[j] # Absent
      PROVE  /\ attempt'[j].request \in Request
             /\ attempt'[j].step = "previewed" => Valid(attempt'[j].request.rows)
             /\ attempt'[j].step = "refused" => attempt'[j].status \in {"REJECTED", "FAILED"}
  <2>1. CASE attempt'[j] = v
    BY <1>2, <2>1
  <2>2. CASE attempt'[j] = attempt[j]
    BY <1>3, <2>2 DEF EvidenceTypeInv, AttemptInv
  <2> QED
    BY <1>1, <1>3, <2>1, <2>2
<1>4. AttemptInv'
  BY <1>3 DEF AttemptInv
<1> QED
  BY <1>1, <1>4

LEMMA EvidenceTypeStep ==
    ASSUME EvidenceTypeInv, [EvidenceNext]_evidenceVars
    PROVE  EvidenceTypeInv'
<1>1. SUFFICES attempt' \in [Importer -> Attempt \cup {Absent}] /\ AttemptInv'
  BY RowsTyped DEF EvidenceTypeInv, EvidenceTypeOK
<1>2. attempt \in [Importer -> Attempt \cup {Absent}]
  BY DEF EvidenceTypeInv, EvidenceTypeOK
<1>3. CASE attempt' = attempt
  BY <1>2, <1>3 DEF EvidenceTypeInv, AttemptInv
<1>4. ASSUME NEW i \in Importer, NEW q \in Request, Preview(i, q)
      PROVE  attempt' \in [Importer -> Attempt \cup {Absent}] /\ AttemptInv'
  <2>1. Created(q) \subseteq StoredRow
    BY RequestFields DEF Created
  <2>2. [request |-> q, step |-> "previewed", plan |-> Created(q), status |-> Absent] \in Attempt
    BY <2>1 DEF Attempt
  <2>3. [request |-> q, step |-> "refused", plan |-> {}, status |-> "REJECTED"] \in Attempt
    BY DEF Attempt
  <2> QED
    BY <1>4, <2>2, <2>3, AttemptStep DEF Preview
<1>5. ASSUME NEW i \in Importer, Commit(i)
      PROVE  attempt' \in [Importer -> Attempt \cup {Absent}] /\ AttemptInv'
  <2>1. attempt[i] \in Attempt /\ attempt[i].step = "previewed"
    BY <1>2, <1>5 DEF Commit
  <2>2. CASE attempt' = [attempt EXCEPT ![i] = Absent]
    <3>1. attempt[i].step = "previewed" => Valid(attempt[i].request.rows)
      BY <2>1, <1>5 DEF Commit, EvidenceTypeInv, AttemptInv
    <3> QED
      BY <2>1, <2>2, <3>1, AttemptStep
  <2>3. ASSUME NEW o \in {"REJECTED", "FAILED"},
               attempt' = [attempt EXCEPT ![i].step = "refused", ![i].status = o]
        PROVE  attempt' \in [Importer -> Attempt \cup {Absent}] /\ AttemptInv'
    <3> DEFINE v == [attempt[i] EXCEPT !.step = "refused", !.status = o]
    <3>1. v \in Attempt /\ v.step = "refused" /\ v.status = o
      BY <2>1 DEF Attempt
    <3>2. attempt' = [attempt EXCEPT ![i] = v]
      BY <1>2, <2>3
    <3> QED
      BY <3>1, <3>2, AttemptStep
  <2> QED
    BY <1>5, <2>2, <2>3, CommitKinds
<1>6. ASSUME NEW i \in Importer, RecordRefusal(i) \/ Crash(i)
      PROVE  attempt' \in [Importer -> Attempt \cup {Absent}] /\ AttemptInv'
  <2>1. attempt[i] \in Attempt /\ attempt' = [attempt EXCEPT ![i] = Absent]
    BY <1>2, <1>6 DEF RecordRefusal, Crash
  <2>2. /\ attempt[i].step = "previewed" => Valid(attempt[i].request.rows)
        /\ attempt[i].step = "refused" => attempt[i].status \in {"REJECTED", "FAILED"}
    BY <1>6 DEF RecordRefusal, Crash, EvidenceTypeInv, AttemptInv
  <2> QED
    BY <2>1, <2>2, AttemptStep
<1>7. ASSUME NEW e \in Experiment, LaneStep(e)
      PROVE  attempt' = attempt
  BY <1>7, LaneSteps
<1>8. ASSUME NEW a \in PlayerRow, Assess(a)
      PROVE  attempt' = attempt
  BY <1>8 DEF Assess
<1> QED
  BY <1>3, <1>4, <1>5, <1>6, <1>7, <1>8 DEF EvidenceNext, LaneStep, evidenceVars

\* The rows, receipts and attempts of the importers have their types.
THEOREM EvidenceTypes == EvidenceSpec => []EvidenceTypeOK
<1>1. EvidenceTypeInv => EvidenceTypeOK
  BY DEF EvidenceTypeInv
<1>2. EvidenceTypeInv /\ [EvidenceNext]_evidenceVars => EvidenceTypeInv'
  BY EvidenceTypeStep
<1> QED
  BY <1>1, <1>2, EvidenceTypeInitially, PTL DEF EvidenceSpec

-----------------------------------------------------------------------------
(* No two rows are one.                                                    *)

LEMMA CreatedIsNew ==
    ASSUME NEW q, NoConflict(q), NEW x \in q.rows, x \notin rows
    PROVE  x \in Created(q) /\ Existing(x) = {}
<1>1. x \in Created(q)
  BY DEF Created, Reused
<1> QED
  BY <1>1 DEF NoConflict

LEMMA CommitKeepsDistinct ==
    ASSUME Distinct(rows), NEW q, Commits(q)
    PROVE  Distinct(rows')
<1>1. Distinct(q.rows) /\ NoConflict(q) /\ rows' = rows \cup q.rows
  BY DEF Commits, Valid
<1>2. ASSUME NEW x \in rows, NEW y \in q.rows, y \notin rows,
             x.section = y.section, Identity(x) = Identity(y)
      PROVE  FALSE
  <2>1. Existing(y) = {}
    BY <1>1, <1>2, CreatedIsNew
  <2>2. x \in Existing(y)
    BY <1>2 DEF Existing, Of
  <2> QED
    BY <2>1, <2>2
<1>3. ASSUME NEW x \in rows', NEW y \in rows', x.section = y.section, Identity(x) = Identity(y)
      PROVE  x = y
  <2>1. CASE x \in rows /\ y \in rows
    BY <1>3, <2>1 DEF Distinct
  <2>2. CASE x \in q.rows /\ y \in q.rows
    BY <1>1, <1>3, <2>2 DEF Distinct
  <2>3. CASE x \in rows /\ y \in q.rows /\ y \notin rows
    BY <1>2, <1>3, <2>3
  <2>4. CASE y \in rows /\ x \in q.rows /\ x \notin rows
    BY <1>2, <1>3, <2>4
  <2> QED
    BY <1>1, <2>1, <2>2, <2>3, <2>4
<1> QED
  BY <1>3 DEF Distinct

LEMMA LaneStepKeepsDistinct ==
    ASSUME Distinct(rows), NEW e, LaneStep(e)
    PROVE  Distinct(rows')
<1>1. PICK s : \/ /\ LaneStatus(rows, e) = {}
                  /\ rows' = rows \cup {Lane(e, s)}
               \/ \E r \in {"DRAFT", "FROZEN"} :
                     /\ Lane(e, r) \in rows
                     /\ rows' = (rows \ {Lane(e, r)}) \cup {Lane(e, s)}
  BY LaneSteps
<1>2. ASSUME NEW x \in rows', x # Lane(e, s), x.section = "LANE", Identity(x) = e
      PROVE  FALSE
  <2>1. x \in rows
    BY <1>1, <1>2
  <2>2. x.id = e
    BY <1>2, LaneIdentity
  <2>3. x.status \in LaneStatus(rows, e)
    BY <1>2, <2>1, <2>2 DEF LaneStatus, Of
  <2>4. PICK r : Lane(e, r) \in rows /\ rows' = (rows \ {Lane(e, r)}) \cup {Lane(e, s)}
    BY <1>1, <2>3
  <2>5. x = Lane(e, r)
    BY <1>2, <2>1, <2>4, LaneFields DEF Distinct
  <2> QED
    BY <1>2, <2>4, <2>5
<1>3. ASSUME NEW x \in rows', NEW y \in rows', x.section = y.section, Identity(x) = Identity(y)
      PROVE  x = y
  <2>1. CASE x = Lane(e, s)
    BY <1>2, <1>3, <2>1, LaneFields
  <2>2. CASE y = Lane(e, s)
    BY <1>2, <1>3, <2>2, LaneFields
  <2>3. CASE x # Lane(e, s) /\ y # Lane(e, s)
    BY <1>1, <1>3, <2>3 DEF Distinct
  <2> QED
    BY <2>1, <2>2, <2>3
<1> QED
  BY <1>3 DEF Distinct

LEMMA AssessKeepsDistinct ==
    ASSUME Distinct(rows), NEW a, Assess(a)
    PROVE  Distinct(rows')
<1>1. Existing(a) = {} /\ rows' = rows \cup {a}
  BY DEF Assess
<1>2. ASSUME NEW x \in rows, x.section = a.section, Identity(x) = Identity(a)
      PROVE  FALSE
  BY <1>1, <1>2 DEF Existing, Of
<1> QED
  BY <1>1, <1>2 DEF Distinct

LEMMA DistinctStep ==
    ASSUME EvidenceTypeInv, Distinct(rows), [EvidenceNext]_evidenceVars
    PROVE  Distinct(rows')
<1>1. CASE rows' = rows
  BY <1>1
<1> QED
  BY <1>1, EvidenceStepKinds, CommitKeepsDistinct, LaneStepKeepsDistinct, AssessKeepsDistinct
  DEF EvidenceStepKind, Recorded

IdentityInv == EvidenceTypeInv /\ Distinct(rows)

LEMMA IdentityInvariant == EvidenceSpec => []IdentityInv
<1>1. EvidenceInit => IdentityInv
  BY EvidenceTypeInitially DEF EvidenceInit, IdentityInv, Distinct
<1>2. IdentityInv /\ [EvidenceNext]_evidenceVars => IdentityInv'
  <2> SUFFICES ASSUME IdentityInv, [EvidenceNext]_evidenceVars
               PROVE  IdentityInv'
    OBVIOUS
  <2>1. EvidenceTypeInv' /\ Distinct(rows')
    BY EvidenceTypeStep, DistinctStep DEF IdentityInv
  <2>2. Distinct(rows)'
    BY <2>1 DEF Distinct
  <2> QED
    BY <2>1, <2>2 DEF IdentityInv
<1> QED
  BY <1>1, <1>2, PTL DEF EvidenceSpec

-----------------------------------------------------------------------------
(* Frozen lanes.                                                           *)

\* What a lane shows does not depend on the rows of lanes.
LEMMA ShownOfOthers ==
    ASSUME NEW R, NEW S, NEW e,
           {x \in R : x.section # "LANE"} = {x \in S : x.section # "LANE"}
    PROVE  Shown(R, e) = Shown(S, e)
<1>1. ASSUME NEW s \in {"ASSESSMENT", "FACT"}
      PROVE  Of(R, s) = Of(S, s)
  <2>1. \A x : x \in {z \in R : z.section # "LANE"} <=> x \in {z \in S : z.section # "LANE"}
    OBVIOUS
  <2> QED
    BY <2>1 DEF Of
<1>2. ASSUME NEW x, x.section \in {"ASSESSMENT", "FACT", "LINK", "EVIDENCE"}
      PROVE  x \in R <=> x \in S
  <2>1. x \in {z \in R : z.section # "LANE"} <=> x \in {z \in S : z.section # "LANE"}
    OBVIOUS
  <2> QED
    BY <1>2, <2>1
<1>3. Of(R, "ASSESSMENT") = Of(S, "ASSESSMENT") /\ Of(R, "FACT") = Of(S, "FACT")
  BY <1>1
<1>4. ASSUME NEW x
      PROVE  x \in Shown(R, e) <=> x \in Shown(S, e)
  BY <1>2, <1>3 DEF Shown
<1> QED
  BY <1>4

\* A commit brings nothing of a frozen lane, unless all it brings is there.
LEMMA NothingOfFrozen ==
    ASSUME Distinct(rows), NEW e \in Experiment, Lane(e, "FROZEN") \in rows,
           NEW q, Commits(q), ~(q.rows \subseteq rows),
           NEW a \in q.rows, a.section \in {"ASSESSMENT", "FACT"}
    PROVE  a.lane # e
<1> SUFFICES ASSUME a.lane = e
             PROVE  FALSE
  OBVIOUS
<1>1. /\ Closed(q.rows) /\ LaneSelected(q) /\ NoConflict(q)
      /\ Absent # e
  BY ImportAssumption DEF Commits, Valid
<1>2. e \in Ids(q.rows, "LANE")
  BY <1>1 DEF Closed, Of
<1>3. PICK y \in q.rows : y.section = "LANE" /\ y.id = e
  BY <1>2 DEF Ids, Of
<1>4. CASE q.lane = Absent
  <2>1. y \in Created(q)
    BY <1>3, <1>4 DEF Created, Reused
  <2>2. Existing(y) = {}
    BY <1>1, <2>1 DEF NoConflict
  <2>3. Lane(e, "FROZEN") \in Existing(y)
    BY <1>3, LaneFields, LaneIdentity DEF Existing, Of
  <2> QED
    BY <2>2, <2>3
<1>5. CASE q.lane # Absent
  <2>1. q.lane = e
    BY <1>1, <1>2, <1>5 DEF LaneSelected
  <2>2. \A x \in q.rows : Existing(x) # {}
    BY <1>1, <1>5, <2>1, OneStatus DEF LaneSelected
  <2>3. PICK x \in q.rows : x \notin rows
    OBVIOUS
  <2> QED
    BY <1>1, <2>2, <2>3, CreatedIsNew
<1> QED
  BY <1>4, <1>5

LEMMA CommitKeepsFrozen ==
    ASSUME Distinct(rows), NEW e \in Experiment, Lane(e, "FROZEN") \in rows,
           NEW q, Commits(q)
    PROVE  Shown(rows', e) = Shown(rows, e)
<1>1. Distinct(rows') /\ Closed(q.rows) /\ rows' = rows \cup q.rows
  BY CommitKeepsDistinct DEF Commits, Valid
<1>2. CASE q.rows \subseteq rows
  <2>1. rows' = rows
    BY <1>1, <1>2
  <2> QED
    BY <2>1
<1>3. CASE ~(q.rows \subseteq rows)
  <2>1. ASSUME NEW a \in rows', a.section \in {"ASSESSMENT", "FACT"}, a.lane = e
        PROVE  a \in rows /\ a \notin q.rows
    BY <1>1, <1>3, <2>1, NothingOfFrozen
  <2>2. ASSUME NEW x \in q.rows, NEW a \in rows', x.section = "LINK",
               a.section = "ASSESSMENT", a.lane = e, x.assessment = a.id
        PROVE  FALSE
    <3>1. PICK b \in q.rows : b.section = "ASSESSMENT" /\ b.id = x.assessment
      BY <1>1, <2>2 DEF Closed, Ids, Of
    <3>2. a = b
      BY <1>1, <2>2, <3>1, NamedIdentity DEF Distinct
    <3> QED
      BY <2>1, <2>2, <3>1, <3>2
  <2>3. ASSUME NEW x \in q.rows, NEW a \in rows', x.section = "EVIDENCE",
               a.section = "FACT", a.lane = e, x.fact = a.id
        PROVE  FALSE
    <3>1. PICK b \in q.rows : b.section = "FACT" /\ b.id = x.fact
      BY <1>1, <2>3 DEF Closed, Ids, Of
    <3>2. a = b
      BY <1>1, <2>3, <3>1, NamedIdentity DEF Distinct
    <3> QED
      BY <2>1, <2>3, <3>1, <3>2
  <2>4. ASSUME NEW x \in Shown(rows', e)
        PROVE  x \in Shown(rows, e)
    <3>1. x \in rows'
      BY <2>4 DEF Shown
    <3>2. CASE x.section \in {"ASSESSMENT", "FACT"} /\ x.lane = e
      BY <2>1, <3>1, <3>2 DEF Shown
    <3>3. CASE x.section = "LINK"
      <4>1. PICK a \in rows' : a.section = "ASSESSMENT" /\ a.lane = e /\ x.assessment = a.id
        BY <2>4, <3>3 DEF Shown, Of
      <4>2. a \in rows /\ x \in rows
        BY <1>1, <2>1, <2>2, <3>1, <3>3, <4>1
      <4> QED
        BY <3>3, <4>1, <4>2 DEF Shown, Of
    <3>4. CASE x.section = "EVIDENCE"
      <4>1. PICK a \in rows' : a.section = "FACT" /\ a.lane = e /\ x.fact = a.id
        BY <2>4, <3>4 DEF Shown, Of
      <4>2. a \in rows /\ x \in rows
        BY <1>1, <2>1, <2>3, <3>1, <3>4, <4>1
      <4> QED
        BY <3>4, <4>1, <4>2 DEF Shown, Of
    <3> QED
      BY <2>4, <3>2, <3>3, <3>4 DEF Shown
  <2>5. ASSUME NEW x \in Shown(rows, e)
        PROVE  x \in Shown(rows', e)
    BY <1>1, <2>5 DEF Shown, Of
  <2> QED
    BY <2>4, <2>5
<1> QED
  BY <1>2, <1>3

LEMMA LaneStepKeepsFrozen ==
    ASSUME NEW e, NEW d, LaneStep(d)
    PROVE  Shown(rows', e) = Shown(rows, e)
<1>1. PICK s : \/ rows' = rows \cup {Lane(d, s)}
               \/ \E r \in {"DRAFT", "FROZEN"} : rows' = (rows \ {Lane(d, r)}) \cup {Lane(d, s)}
  BY LaneSteps
<1>2. {x \in rows' : x.section # "LANE"} = {x \in rows : x.section # "LANE"}
  BY <1>1, LaneFields
<1> QED
  BY <1>2, ShownOfOthers

LEMMA AssessKeepsFrozen ==
    ASSUME Distinct(rows), NEW e \in Experiment, Lane(e, "FROZEN") \in rows,
           NEW a \in PlayerRow, Assess(a)
    PROVE  Shown(rows', e) = Shown(rows, e)
<1>1. a.section = "ASSESSMENT"
  BY ImportAssumption DEF AssessmentRow
<1>2. rows' = rows \cup {a} /\ Lane(a.lane, "DRAFT") \in rows
  BY DEF Assess
<1>3. a.lane # e
  BY <1>2, OneStatus
<1>4. ASSUME NEW x
      PROVE  x \in Shown(rows', e) <=> x \in Shown(rows, e)
  BY <1>1, <1>2, <1>3 DEF Shown, Of
<1> QED
  BY <1>4

\* As long as an Experiment is FROZEN no importer and no Player adds anything to
\* its lane, whatever was previewed before it was frozen.
THEOREM FrozenLanesStayClosed == EvidenceSpec => FrozenLanesClosed
<1>1. ASSUME IdentityInv, [EvidenceNext]_evidenceVars
      PROVE  [\A e \in Experiment :
                Lane(e, "FROZEN") \in rows => Shown(rows', e) = Shown(rows, e)]_evidenceVars
  <2>1. ASSUME NEW e \in Experiment, Lane(e, "FROZEN") \in rows
        PROVE  Shown(rows', e) = Shown(rows, e)
    <3>1. EvidenceTypeInv /\ Distinct(rows)
      BY <1>1 DEF IdentityInv
    <3>2. CASE rows' = rows
      BY <3>2
    <3> QED
      BY <1>1, <2>1, <3>1, <3>2, EvidenceStepKinds, CommitKeepsFrozen, LaneStepKeepsFrozen,
         AssessKeepsFrozen DEF EvidenceStepKind, Recorded
  <2> QED
    BY <2>1
<1> QED
  BY <1>1, IdentityInvariant, PTL DEF EvidenceSpec, FrozenLanesClosed

-----------------------------------------------------------------------------
(* Links.                                                                  *)

\* No new link hides that its evidence is from after the cutoff.
THEOREM LinksAlwaysHonestWhenMade == EvidenceSpec => LinksAreHonestWhenMade
<1>1. ASSUME EvidenceTypeInv, [EvidenceNext]_evidenceVars
      PROVE  [\A l \in Of(rows', "LINK") \ rows : CutoffKept(rows', l)]_evidenceVars
  <2>1. ASSUME NEW l \in Of(rows', "LINK"), l \notin rows
        PROVE  CutoffKept(rows', l)
    <3>1. l \in rows' /\ l.section = "LINK"
      BY <2>1 DEF Of
    <3>2. ASSUME NEW q \in Request, Commits(q)
          PROVE  CutoffKept(rows', l)
      <4>1. /\ NoConflict(q) /\ Clean(q) /\ l \in q.rows
            /\ rows' = rows \cup q.rows
        BY <2>1, <3>1, <3>2 DEF Commits
      <4>2. l \in Of(Created(q), "LINK")
        BY <2>1, <3>1, <4>1, CreatedIsNew DEF Of
      <4>3. CutoffKept(rows \cup q.rows, l)
        BY <4>1, <4>2 DEF Clean
      <4> QED
        BY <4>1, <4>3
    <3>3. ASSUME NEW e \in Experiment, LaneStep(e)
          PROVE  FALSE
      BY <2>1, <3>1, <3>3, LaneSteps, LaneFields
    <3>4. ASSUME NEW a \in PlayerRow, Assess(a)
          PROVE  FALSE
      <4>1. a.section = "ASSESSMENT"
        BY ImportAssumption DEF AssessmentRow
      <4> QED
        BY <2>1, <3>1, <3>4, <4>1 DEF Assess
    <3>5. rows' # rows
      BY <2>1, <3>1
    <3> QED
      BY <1>1, <3>2, <3>3, <3>4, <3>5, EvidenceStepKinds DEF EvidenceStepKind, Recorded
  <2> QED
    BY <2>1
<1>2. EvidenceSpec => []EvidenceTypeInv
  <2>1. EvidenceTypeInv /\ [EvidenceNext]_evidenceVars => EvidenceTypeInv'
    BY EvidenceTypeStep
  <2> QED
    BY <2>1, EvidenceTypeInitially, PTL DEF EvidenceSpec
<1> QED
  BY <1>1, <1>2, PTL DEF EvidenceSpec, LinksAreHonestWhenMade

-----------------------------------------------------------------------------
(* Where the rows come from.                                               *)

\* No step loses a row, but for the status of a lane.
LEMMA RowsKept ==
    ASSUME EvidenceTypeInv, [EvidenceNext]_evidenceVars, NEW x \in rows
    PROVE  /\ x.section # "LANE" => x \in rows'
           /\ \E y \in rows' : y.section = x.section /\ Identity(y) = Identity(x)
<1>1. CASE rows \subseteq rows'
  BY <1>1
<1>2. ASSUME NEW e \in Experiment, LaneStep(e)
      PROVE  /\ x.section # "LANE" => x \in rows'
             /\ \E y \in rows' : y.section = x.section /\ Identity(y) = Identity(x)
  <2>1. PICK s : /\ Lane(e, s) \in rows'
                 /\ \/ rows' = rows \cup {Lane(e, s)}
                    \/ \E r \in {"DRAFT", "FROZEN"} :
                          rows' = (rows \ {Lane(e, r)}) \cup {Lane(e, s)}
    BY <1>2, LaneSteps
  <2>2. CASE x \in rows'
    BY <2>2
  <2>3. CASE x \notin rows'
    <3>1. PICK r : x = Lane(e, r)
      BY <2>1, <2>3
    <3> QED
      BY <2>1, <3>1, LaneFields
  <2> QED
    BY <2>2, <2>3
<1>3. ASSUME NEW q \in Request, Commits(q)
      PROVE  rows \subseteq rows'
  BY <1>3 DEF Commits
<1>4. ASSUME NEW a \in PlayerRow, Assess(a)
      PROVE  rows \subseteq rows'
  BY <1>4 DEF Assess
<1>5. CASE rows' = rows
  BY <1>1, <1>5
<1> QED
  BY <1>1, <1>2, <1>3, <1>4, <1>5, EvidenceStepKinds DEF EvidenceStepKind, Recorded

\* No two commits created the same row, and what a commit brought is there.
OriginInv ==
    /\ RowsHaveOneOrigin
    /\ \A r \in Committed : r.created \subseteq r.request.rows

\* A commit is a new receipt, any other step has none.
LEMMA CommittedOfStep ==
    ASSUME EvidenceTypeInv, [EvidenceNext]_evidenceVars
    PROVE  \/ Committed' = Committed
           \/ \E q \in Request :
                 /\ Commits(q)
                 /\ Committed' = Committed \cup
                       {[request |-> q, status |-> "COMMITTED", created |-> Created(q)]}
<1>1. CASE receipts' = receipts
  BY <1>1 DEF Committed
<1>2. CASE Recorded
  BY <1>2 DEF Recorded, Committed
<1>3. ASSUME NEW q \in Request, Commits(q)
      PROVE  Committed' = Committed \cup
                {[request |-> q, status |-> "COMMITTED", created |-> Created(q)]}
  BY <1>3 DEF Commits, Committed
<1>4. ASSUME NEW e \in Experiment, LaneStep(e)
      PROVE  receipts' = receipts
  BY <1>4, LaneSteps
<1>5. ASSUME NEW a \in PlayerRow, Assess(a)
      PROVE  receipts' = receipts
  BY <1>5 DEF Assess
<1> QED
  BY <1>1, <1>2, <1>3, <1>4, <1>5, EvidenceStepKinds DEF EvidenceStepKind

LEMMA OriginStep ==
    ASSUME EvidenceTypeInv, OriginInv, [EvidenceNext]_evidenceVars
    PROVE  OriginInv'
<1>1. Distinct(rows)'
  <2>1. Distinct(rows)
    BY DEF OriginInv, RowsHaveOneOrigin
  <2>2. Distinct(rows')
    BY <2>1, DistinctStep
  <2> QED
    BY <2>2 DEF Distinct
<1>2. Committed \subseteq Committed'
  BY CommittedOfStep
<1>3. ASSUME NEW r \in Committed', r \notin Committed
      PROVE  \E q \in Request :
                /\ Commits(q) /\ r.request = q /\ r.created = Created(q)
                /\ \A c \in Committed' : c \in Committed \/ c = r
  BY <1>3, CommittedOfStep
<1>4. ASSUME NEW x \in rows', x.section # "LANE"
      PROVE  x \in PlayerRow \/ \E r \in Committed' : x \in r.created
  <2>1. CASE x \in rows
    BY <1>2, <1>4, <2>1 DEF OriginInv, RowsHaveOneOrigin
  <2>2. CASE x \notin rows
    <3>1. ASSUME NEW q \in Request, Commits(q)
          PROVE  \E r \in Committed' : x \in r.created
      <4>1. x \in Created(q)
        BY <1>4, <2>2, <3>1, CreatedIsNew DEF Commits
      <4>2. [request |-> q, status |-> "COMMITTED", created |-> Created(q)] \in Committed'
        BY <3>1 DEF Commits, Committed
      <4> QED
        BY <4>1, <4>2
    <3>2. ASSUME NEW e \in Experiment, LaneStep(e)
          PROVE  FALSE
      BY <1>4, <2>2, <3>2, LaneSteps, LaneFields
    <3>3. ASSUME NEW a \in PlayerRow, Assess(a)
          PROVE  x \in PlayerRow
      BY <1>4, <2>2, <3>3 DEF Assess
    <3> QED
      BY <1>4, <2>2, <3>1, <3>2, <3>3, EvidenceStepKinds DEF EvidenceStepKind, Recorded
  <2> QED
    BY <2>1, <2>2
<1>5. ASSUME NEW r \in Committed, NEW x \in r.request.rows
      PROVE  \E y \in rows' : y.section = x.section /\ Identity(y) = Identity(x)
  <2>1. PICK y \in rows : y.section = x.section /\ Identity(y) = Identity(x)
    BY <1>5 DEF OriginInv, RowsHaveOneOrigin, Existing, Of
  <2> QED
    BY <2>1, RowsKept
<1>6. ASSUME NEW r \in Committed', NEW x \in r.request.rows
      PROVE  Existing(x)' # {}
  <2>1. \E y \in rows' : y.section = x.section /\ Identity(y) = Identity(x)
    BY <1>3, <1>5, <1>6 DEF Commits
  <2> QED
    BY <2>1 DEF Existing, Of
<1>7. ASSUME NEW r \in Committed'
      PROVE  r.created \subseteq r.request.rows
  BY <1>3, <1>7 DEF OriginInv, Created
<1>8. ASSUME NEW r \in Committed, NEW s \in Committed', s \notin Committed
      PROVE  r.created \cap s.created = {}
  <2>1. PICK q \in Request : Commits(q) /\ s.created = Created(q)
    BY <1>3, <1>8
  <2>2. ASSUME NEW x \in r.created, x \in Created(q)
        PROVE  FALSE
    <3>1. Existing(x) = {}
      BY <2>1, <2>2 DEF Commits, NoConflict
    <3>2. Existing(x) # {}
      BY <2>2 DEF OriginInv, RowsHaveOneOrigin
    <3> QED
      BY <3>1, <3>2
  <2> QED
    BY <2>1, <2>2
<1>9. ASSUME NEW r \in Committed', NEW s \in Committed', r # s
      PROVE  r.created \cap s.created = {}
  <2>1. CASE r \in Committed /\ s \in Committed
    BY <1>9, <2>1 DEF OriginInv, RowsHaveOneOrigin
  <2>2. CASE r \in Committed /\ s \notin Committed
    BY <1>8, <2>2
  <2>3. CASE r \notin Committed /\ s \in Committed
    BY <1>8, <2>3
  <2>4. r \in Committed \/ s \in Committed
    BY <1>3, <1>9
  <2> QED
    BY <2>1, <2>2, <2>3, <2>4
<1> QED
  BY <1>1, <1>4, <1>6, <1>7, <1>9 DEF OriginInv, RowsHaveOneOrigin

\* Every row but a lane was entered by the Player or created by exactly one
\* committed import, and no attempt leaves part of a package behind.
THEOREM RowsAlwaysHaveOneOrigin == EvidenceSpec => []RowsHaveOneOrigin
<1>1. EvidenceInit => EvidenceTypeInv /\ OriginInv
  BY EvidenceTypeInitially DEF EvidenceInit, OriginInv, RowsHaveOneOrigin, Committed, Distinct
<1>2. EvidenceTypeInv /\ OriginInv /\ [EvidenceNext]_evidenceVars =>
         (EvidenceTypeInv /\ OriginInv)'
  BY EvidenceTypeStep, OriginStep
<1>3. OriginInv => RowsHaveOneOrigin
  BY DEF OriginInv
<1> QED
  BY <1>1, <1>2, <1>3, PTL DEF EvidenceSpec

-----------------------------------------------------------------------------
(* What is confirmed.                                                      *)

LEMMA QuotedKept ==
    ASSUME EvidenceTypeInv, [EvidenceNext]_evidenceVars, NEW f, QuotedExactly(f)
    PROVE  QuotedExactly(f)'
<1>1. PICK v \in rows, d \in rows :
          /\ v.section = "EVIDENCE" /\ d.section = "DOCUMENT"
          /\ v.fact = f /\ v.document = d.id /\ d.exact
  BY DEF QuotedExactly, Of
<1>2. v \in rows' /\ d \in rows'
  BY <1>1, RowsKept
<1> QED
  BY <1>1, <1>2 DEF QuotedExactly, Of

LEMMA QuotedInPackage ==
    ASSUME NEW q, Commits(q), NEW f, Backed(q.rows, f)
    PROVE  QuotedExactly(f)'
<1>1. q.rows \subseteq rows'
  BY DEF Commits
<1> QED
  BY <1>1 DEF Backed, Cited, Of, QuotedExactly

LEMMA ConfirmedStep ==
    ASSUME EvidenceTypeInv, ConfirmedIsBacked, [EvidenceNext]_evidenceVars
    PROVE  ConfirmedIsBacked'
<1>1. ASSUME NEW x \in rows', x \notin rows, x.section \in {"FACT", "ASSESSMENT"}, x.confirmed
      PROVE  \E q \in Request : Commits(q) /\ x \in q.rows
  <2>1. ASSUME NEW e \in Experiment, LaneStep(e)
        PROVE  FALSE
    BY <1>1, <2>1, LaneSteps, LaneFields
  <2>2. ASSUME NEW a \in PlayerRow, Assess(a)
        PROVE  FALSE
    BY <1>1, <2>2, ImportAssumption DEF Assess
  <2> QED
    BY <1>1, <2>1, <2>2, EvidenceStepKinds DEF EvidenceStepKind, Recorded, Commits
<1>2. ASSUME NEW f \in rows', f.section = "FACT", f.confirmed
      PROVE  QuotedExactly(f.id)'
  <2>1. CASE f \in rows
    <3>1. QuotedExactly(f.id)
      BY <1>2, <2>1 DEF ConfirmedIsBacked, Of
    <3> QED
      BY <3>1, QuotedKept
  <2>2. CASE f \notin rows
    <3>1. PICK q \in Request : Commits(q) /\ f \in q.rows
      BY <1>1, <1>2, <2>2
    <3>2. Backed(q.rows, f.id)
      BY <1>2, <3>1 DEF Commits, Valid, ChainsComplete, Of
    <3> QED
      BY <3>1, <3>2, QuotedInPackage
  <2> QED
    BY <2>1, <2>2
<1>3. ASSUME NEW a \in rows', a.section = "ASSESSMENT", a.confirmed
      PROVE  \E l \in rows' : /\ l.section = "LINK" /\ l.assessment = a.id /\ l.support
                              /\ QuotedExactly(l.fact)'
  <2>1. CASE a \in rows
    <3>1. PICK l \in rows : /\ l.section = "LINK" /\ l.assessment = a.id /\ l.support
                            /\ QuotedExactly(l.fact)
      BY <1>3, <2>1 DEF ConfirmedIsBacked, Of
    <3>2. l \in rows' /\ QuotedExactly(l.fact)'
      BY <3>1, RowsKept, QuotedKept
    <3> QED
      BY <3>1, <3>2
  <2>2. CASE a \notin rows
    <3>1. PICK q \in Request : Commits(q) /\ a \in q.rows
      BY <1>1, <1>3, <2>2
    <3>2. PICK l \in q.rows : /\ l.section = "LINK" /\ l.assessment = a.id /\ l.support
                              /\ Backed(q.rows, l.fact)
      BY <1>3, <3>1 DEF Commits, Valid, ChainsComplete, Of
    <3>3. l \in rows' /\ QuotedExactly(l.fact)'
      BY <3>1, <3>2, QuotedInPackage DEF Commits
    <3> QED
      BY <3>2, <3>3
  <2> QED
    BY <2>1, <2>2
<1> QED
  BY <1>2, <1>3 DEF ConfirmedIsBacked, Of

\* Whatever is CONFIRMED rests on the exact text of a stored document.
THEOREM ConfirmedAlwaysBacked == EvidenceSpec => []ConfirmedIsBacked
<1>1. EvidenceInit => EvidenceTypeInv /\ ConfirmedIsBacked
  BY EvidenceTypeInitially DEF EvidenceInit, ConfirmedIsBacked, Of
<1>2. EvidenceTypeInv /\ ConfirmedIsBacked /\ [EvidenceNext]_evidenceVars =>
         (EvidenceTypeInv /\ ConfirmedIsBacked)'
  BY EvidenceTypeStep, ConfirmedStep
<1> QED
  BY <1>1, <1>2, PTL DEF EvidenceSpec

-----------------------------------------------------------------------------
(* The originals of trees and of readers are the same rows: what a reader of *)
(* a fragment is shown is of the one original of its tree.                   *)
THEOREM OriginalsAlwaysHold == LineageSpec => []OriginalsHold
<1>1. OneOriginalPerTree /\ OriginalsAreDeclared => OriginalsHold
  BY DEF OriginalsHold
<1> QED
  BY <1>1, OneOriginalAlways, OriginalsAlwaysDeclared, PTL
(***************************************************************************)
(* Moving the schema and deleting rows.                                    *)
(***************************************************************************)

-----------------------------------------------------------------------------
(* What a delete reaches without asking.  No captured record follows what it *)
(* refers to, so that none is ever collected for another one.                *)
Captured == AppendOnly \ {"Source", "Document"}

LEMMA CapturedHold == \A t \in Captured : \A r \in Declared[t] : r.policy # "CASCADE"
<1> USE DEF Reference, Follows, MayFollow, Holds, MayHold, MayForget, InProject, Owned, Kept
<1>1. \A t \in {"TerminologyEntry", "LegacyTermMapping", "HelpTopic", "UIHelpBinding",
                "ChatMessage", "ChatCitation"} :
         \A r \in Declared[t] : r.policy # "CASCADE"
  BY DEF Declared, TerminologyEntryTable, LegacyTermMappingTable, HelpTopicTable,
         UIHelpBindingTable, ChatMessageTable, ChatCitationTable
<1>2. \A t \in {"DocumentVersion", "DocumentContent", "DocumentContentVariant",
                "DocumentContentRoleBinding", "DocumentSentence"} :
         \A r \in Declared[t] : r.policy # "CASCADE"
  BY DEF Declared, DocumentVersionTable, DocumentContentTable, DocumentContentVariantTable,
         DocumentContentRoleBindingTable, DocumentSentenceTable
<1>3. \A t \in {"SentenceAlignmentSet", "SentenceAlignmentEdge", "TranslationProvenance",
                "TextFragment", "FactCategory", "Fact"} :
         \A r \in Declared[t] : r.policy # "CASCADE"
  BY DEF Declared, SentenceAlignmentSetTable, SentenceAlignmentEdgeTable,
         TranslationProvenanceTable, TextFragmentTable, FactCategoryTable, FactTable
<1>4. \A t \in {"FactCategoryAssignment", "FactEvidence", "AssessmentEvidence",
                "ParameterValueEvidence", "PowerComponentEvidence"} :
         \A r \in Declared[t] : r.policy # "CASCADE"
  BY DEF Declared, FactCategoryAssignmentTable, FactEvidenceTable, AssessmentEvidenceTable,
         ParameterValueEvidenceTable, PowerComponentEvidenceTable
<1>5. \A t \in {"ImportRun", "LegacyCompatibilityReceipt", "AuditEvent"} :
         \A r \in Declared[t] : r.policy # "CASCADE"
  BY DEF Declared, ImportRunTable, LegacyCompatibilityReceiptTable, AuditEventTable
<1> QED
  BY <1>1, <1>2, <1>3, <1>4, <1>5 DEF Captured, AppendOnly

LEMMA SpreadAlone ==
    ASSUME NEW rs, NEW gone, NEW t \in Captured, t \in Spread(Declared, rs, gone)
    PROVE  t \in gone
  BY CapturedHold DEF Spread, Points

LEMMA CollectedAlone ==
    ASSUME NEW rs, NEW start, NEW t \in Captured, t \in Collected(Declared, rs, start)
    PROVE  t \in start
  BY SpreadAlone DEF Collected

LEMMA DeleteKeeps ==
    ASSUME NEW u, NEW t \in DOMAIN database \ DOMAIN database', t \in Captured,
           DeleteRow(u) \/ DeleteSet(u)
    PROVE  FALSE
<1>1. ~SetRefuses(database, u) /\ Delete(u)
  BY DEF DeleteRow, DeleteSet, RowRefuses
<1>2. DOMAIN database' = DOMAIN database \ Collected(Declared, database, {u})
  BY <1>1 DEF Delete, Without
<1>3. t = u
  BY <1>2, CollectedAlone
<1> QED
  BY <1>1, <1>3 DEF SetRefuses, CapturedRefuses, Captured

-----------------------------------------------------------------------------
(* The way back from workspaces.  The tables of the first migration refer to *)
(* each other and, if they were rehoused, to their workspace; once that is   *)
(* cleared no delete of what came with the workspaces reaches them.          *)
First == DOMAIN Initial

LEMMA FirstTables == First = InitialValueTables \cup InitialLogTables \cup InitialScenarioTables
  BY DEF First, Initial, InitialTables, Altered

LEMMA AlteredReferences ==
    ASSUME NEW schema, NEW new, NEW changes, NEW t \in DOMAIN schema \cup new,
           NEW r \in Altered(schema, new, changes)[t]
    PROVE  \/ t \in DOMAIN schema /\ r \in schema[t]
           \/ \E c \in changes : c[1] = t /\ c[2] = r
  BY DEF Altered

LEMMA InitialReferencesStay ==
    ASSUME NEW t \in First, NEW r \in Initial[t] PROVE r.to \in First
<1> DEFINE changes ==
       InitialValueReferences \cup InitialLogReferences \cup InitialScenarioReferences
<1>1. \A c \in InitialValueReferences : c[2].to \in First
  BY FirstTables DEF InitialValueReferences, Each, InProject, Follows, Holds, Reference,
                     InitialValueTables, InitialScenarioTables
<1>2. \A c \in InitialLogReferences : c[2].to \in First
  BY FirstTables DEF InitialLogReferences, Each, InProject, Follows, Holds, MayFollow,
                     MayForget, Reference, InitialValueTables, InitialLogTables
<1>3. \A c \in InitialScenarioReferences : c[2].to \in First
  BY FirstTables DEF InitialScenarioReferences, Each, InProject, Follows, Holds, Reference,
                     InitialValueTables, InitialScenarioTables
<1>4. \E c \in changes : c[1] = t /\ c[2] = r
  BY AlteredReferences, FirstTables DEF Initial, InitialTables, InitialReferences
<1> QED
  BY <1>1, <1>2, <1>3, <1>4

LEMMA CascadesOut ==
    ASSUME NEW t \in First, NEW r \in Foundation[t], r.policy = "CASCADE"
    PROVE  r.to \in First \/ (t \in Rehoused /\ r.field = "workspace")
<1> USE DEF Each, Follows, MayFollow, Holds, MayHold, InProject, Owned, Reference
<1>1. \A c \in ActorReferences : c[2].policy = "CASCADE" => c[1] \notin First
  BY FirstTables DEF ActorReferences, InitialValueTables, InitialLogTables,
                     InitialScenarioTables
<1>2. \A c \in PowerReferences : c[2].policy = "CASCADE" => c[1] \notin First
  BY FirstTables DEF PowerReferences, InitialValueTables, InitialLogTables,
                     InitialScenarioTables
<1>3. \A c \in WorkspaceReferences : c[1] \in First => c[1] \in Rehoused /\ c[2].field = "workspace"
  <2>1. (ActorTables \cup TalkTables \cup FactTables \cup PowerTables) \cap First = {}
    BY FirstTables DEF ActorTables, TalkTables, FactTables, PowerTables, InitialValueTables,
                       InitialLogTables, InitialScenarioTables
  <2> QED
    BY <2>1 DEF WorkspaceReferences
<1>4. \A c \in SourceReferences : c[2].policy # "CASCADE"
  BY DEF SourceReferences
<1>5. \/ t \in DOMAIN Initial /\ r \in Initial[t]
      \/ \E c \in ActorReferences \cup PowerReferences \cup WorkspaceReferences
                    \cup SourceReferences : c[1] = t /\ c[2] = r
  BY AlteredReferences DEF Foundation, FoundationReferences, First
<1> QED
  BY <1>1, <1>2, <1>3, <1>4, <1>5, InitialReferencesStay

Homed(rs) == \A t \in Rehoused : t \in DOMAIN rs => "workspace" \notin rs[t]

LEMMA SpreadOutside ==
    ASSUME NEW rs, Homed(rs), NEW gone, gone \cap First = {}
    PROVE  Spread(Foundation, rs, gone) \cap First = {}
  BY CascadesOut DEF Spread, Points, Homed

LEMMA DeletedOutside ==
    ASSUME NEW rs, Homed(rs), NEW u, u \notin First
    PROVE  /\ Homed(Deleted(rs, u))
           /\ DOMAIN rs \cap First \subseteq DOMAIN Deleted(rs, u)
<1>1. Collected(Foundation, rs, {u}) \cap First = {}
  BY SpreadOutside DEF Collected
<1> QED
  BY <1>1 DEF Deleted, Without, Homed

LEMMA OutKeeps ==
    ASSUME NEW rs PROVE DOMAIN rs \cap First \subseteq DOMAIN OutOfWorkspaces(rs).rows
<1> DEFINE r0 == Cleared(rs, Rehoused, {"workspace"})
           r1 == Deleted(r0, "LegacyCompatibilityReceipt")
           r2 == Deleted(r1, "Experiment")
           r3 == Deleted(r2, "ExpertProfile")
           r4 == Deleted(r3, "ProjectPublication")
           r5 == Deleted(r4, "ProjectWorkspace")
           r6 == Deleted(r5, "ProjectDefinitionVersion")
<1>1. {"LegacyCompatibilityReceipt", "Experiment", "ExpertProfile", "ProjectPublication",
       "ProjectWorkspace", "ProjectDefinitionVersion"} \cap First = {}
  BY FirstTables DEF InitialValueTables, InitialLogTables, InitialScenarioTables
<1>2. OutOfWorkspaces(rs).rows = r6
  BY DEF OutOfWorkspaces
<1>3. Homed(r0) /\ DOMAIN r0 = DOMAIN rs
  BY DEF Homed, Cleared
<1> HIDE DEF r0, r1, r2, r3, r4, r5, r6
<1>4. Homed(r1) /\ DOMAIN r0 \cap First \subseteq DOMAIN r1
  BY <1>1, <1>3, DeletedOutside DEF r1
<1>5. Homed(r2) /\ DOMAIN r1 \cap First \subseteq DOMAIN r2
  BY <1>1, <1>4, DeletedOutside DEF r2
<1>6. Homed(r3) /\ DOMAIN r2 \cap First \subseteq DOMAIN r3
  BY <1>1, <1>5, DeletedOutside DEF r3
<1>7. Homed(r4) /\ DOMAIN r3 \cap First \subseteq DOMAIN r4
  BY <1>1, <1>6, DeletedOutside DEF r4
<1>8. Homed(r5) /\ DOMAIN r4 \cap First \subseteq DOMAIN r5
  BY <1>1, <1>7, DeletedOutside DEF r5
<1>9. DOMAIN r5 \cap First \subseteq DOMAIN r6
  BY <1>1, <1>8, DeletedOutside DEF r6
<1> QED
  BY <1>2, <1>3, <1>4, <1>5, <1>6, <1>7, <1>8, <1>9

LEMMA BackwardKeeps ==
    ASSUME NEW rs, NEW n \in 2..22, NEW t \in DOMAIN rs, t \in DOMAIN SchemaAt[n - 1]
    PROVE  t \in DOMAIN Backward(rs, n)
<1>1. CASE n = 2
  <2>1. SchemaAt[n - 1] = Initial
    BY <1>1 DEF SchemaAt
  <2>2. Backward(rs, n) = Dropped(OutOfWorkspaces(rs).rows, n - 1)
    BY <1>1 DEF Backward
  <2>3. t \in DOMAIN OutOfWorkspaces(rs).rows
    BY <2>1, OutKeeps DEF First
  <2> QED
    BY <2>2, <2>3 DEF Dropped
<1>2. CASE n = 17
  <2>1. Backward(rs, n) = Dropped(WithoutVariants(rs), n - 1)
    BY <1>2 DEF Backward
  <2>2. DOMAIN WithoutVariants(rs) = DOMAIN rs
    BY DEF WithoutVariants, Cleared
  <2> QED
    BY <2>1, <2>2 DEF Dropped
<1>3. CASE n = 16
  <2>1. Backward(rs, n) = Dropped(WithoutLanguage(rs), n - 1)
    BY <1>3 DEF Backward
  <2>2. DOMAIN WithoutLanguage(rs) = DOMAIN rs
    BY DEF WithoutLanguage, Cleared
  <2> QED
    BY <2>1, <2>2 DEF Dropped
<1>4. CASE n \notin {2, 16, 17}
  <2>1. Backward(rs, n) = Dropped(rs, n - 1)
    BY <1>4 DEF Backward
  <2> QED
    BY <2>1 DEF Dropped
<1> QED
  BY <1>1, <1>2, <1>3, <1>4

LEMMA MarkedDomain == ASSUME NEW rs, NEW T, NEW M PROVE DOMAIN Marked(rs, T, M) = DOMAIN rs
  BY DEF Marked
LEMMA ClearedDomain == ASSUME NEW rs, NEW T, NEW M PROVE DOMAIN Cleared(rs, T, M) = DOMAIN rs
  BY DEF Cleared
LEMMA FilledDomain ==
    ASSUME NEW rs, NEW n, NEW new PROVE DOMAIN rs \subseteq DOMAIN Filled(rs, n, new)
  BY DEF Filled

LEMMA ForwardKeeps == ASSUME NEW rs, NEW n PROVE DOMAIN rs \subseteq DOMAIN Forward(rs, n)
<1> USE MarkedDomain, ClearedDomain, FilledDomain
<1>1. CASE n = 2
  <2>1. DOMAIN rs \subseteq DOMAIN IntoWorkspaces(rs)
    <3>1. \E new : IntoWorkspaces(rs) \in {Filled(Marked(rs, Rehoused, {"workspace"}), 2, new), rs}
      BY Zenon DEF IntoWorkspaces
    <3>2. PICK new : IntoWorkspaces(rs) \in {Filled(Marked(rs, Rehoused, {"workspace"}), 2, new), rs}
      BY <3>1, Zenon
    <3>3. DOMAIN Marked(rs, Rehoused, {"workspace"}) = DOMAIN rs
      BY Zenon
    <3>4. DOMAIN Marked(rs, Rehoused, {"workspace"})
            \subseteq DOMAIN Filled(Marked(rs, Rehoused, {"workspace"}), 2, new)
      BY Zenon
    <3> QED
      BY <3>2, <3>3, <3>4, Zenon
  <2> QED
    BY <1>1, <2>1 DEF Forward
<1>2. CASE n = 6
  <2>1. DOMAIN Stamped(rs) = DOMAIN rs
    BY Zenon DEF Stamped
  <2> QED
    BY <1>2, <2>1 DEF Forward
<1>3. CASE n = 14
  <2>1. DOMAIN Scoped(rs) = DOMAIN rs
    <3> DEFINE a == Cleared(rs, {"AuditEvent"}, {"definition", "definition_version"})
               b == Marked(a, {"ImportRun"}, {"project", "definition_version"})
    <3>1. DOMAIN b = DOMAIN rs
      <4>1. DOMAIN a = DOMAIN rs
        BY ClearedDomain
      <4>2. DOMAIN b = DOMAIN a
        <5> HIDE DEF a
        <5> QED
          BY MarkedDomain
      <4> QED
        BY <4>1, <4>2, Zenon
    <3>2. \E x : Scoped(rs) = Marked(b, {"UIHelpBinding"}, x)
      BY Zenon DEF Scoped
    <3>3. PICK x : Scoped(rs) = Marked(b, {"UIHelpBinding"}, x)
      BY <3>2, Zenon
    <3> HIDE DEF b
    <3>4. DOMAIN Marked(b, {"UIHelpBinding"}, x) = DOMAIN b
      BY MarkedDomain
    <3> QED
      BY <3>1, <3>3, <3>4, Zenon
  <2> QED
    BY <1>3, <2>1 DEF Forward
<1>4. CASE n = 16
  <2>1. DOMAIN WithLanguage(rs) = DOMAIN rs
    BY Zenon DEF WithLanguage
  <2> QED
    BY <1>4, <2>1 DEF Forward
<1>5. CASE n = 17
  <2>1. DOMAIN rs \subseteq DOMAIN WithVariants(rs)
    <3> DEFINE p == {t \in DOMAIN rs : t = "TextFragment" /\ "exact" \in rs[t]}
               m == Marked(Marked(rs, {"Document"}, {"rooted"}), p, {"content_variant"})
               v == Only("DocumentContent" \in DOMAIN rs, "DocumentContentVariant",
                         {"document_content"})
    <3>1. WithVariants(rs) = Filled(m, 17, v)
      BY Zenon DEF WithVariants
    <3>2. DOMAIN m = DOMAIN rs
      <4> DEFINE d == Marked(rs, {"Document"}, {"rooted"})
      <4>1. DOMAIN d = DOMAIN rs
        BY MarkedDomain
      <4>2. DOMAIN Marked(d, p, {"content_variant"}) = DOMAIN d
        <5> HIDE DEF d, p
        <5> QED
          BY MarkedDomain
      <4> QED
        BY <4>1, <4>2, Zenon
    <3>3. DOMAIN m \subseteq DOMAIN Filled(m, 17, v)
      <4> HIDE DEF m, v
      <4> QED
        OBVIOUS
    <3> QED
      BY <3>1, <3>2, <3>3, Zenon
  <2> QED
    BY <1>5, <2>1 DEF Forward
<1>6. CASE n \notin {2, 6, 14, 16, 17}
  BY <1>6 DEF Forward
<1> QED
  BY <1>1, <1>2, <1>3, <1>4, <1>5, <1>6

-----------------------------------------------------------------------------
LEMMA LevelsKept == MigrationsSpec => [](level \in 1..22)
<1>1. MigrationsInit => level \in 1..22
  BY DEF MigrationsInit
<1>2. level \in 1..22 /\ [MigrationsNext]_migrationVars => (level \in 1..22)'
  <2> SUFFICES ASSUME level \in 1..22, [MigrationsNext]_migrationVars PROVE level' \in 1..22
    OBVIOUS
  <2>1. CASE Upgrade
    BY <2>1 DEF Upgrade
  <2>2. CASE Downgrade
    BY <2>2 DEF Downgrade
  <2>3. ASSUME NEW t, Write(t) \/ DeleteRow(t) \/ DeleteSet(t) PROVE level' = level
    BY <2>3, Zenon DEF Write, DeleteRow, DeleteSet, Delete
  <2>4. CASE UNCHANGED migrationVars
    BY <2>4 DEF migrationVars
  <2> QED
    BY <2>1, <2>2, <2>3, <2>4, Zenon DEF MigrationsNext
<1> QED
  BY <1>1, <1>2, PTL DEF MigrationsSpec

LEMMA StepKeepsHistory ==
    ASSUME level \in 1..22, [MigrationsNext]_migrationVars,
           NEW t \in DOMAIN database \ DOMAIN database'
    PROVE  IF level' = level THEN t \notin Captured ELSE t \notin DOMAIN SchemaAt[level']
<1>1. CASE Upgrade
  BY <1>1, ForwardKeeps DEF Upgrade
<1>2. CASE Downgrade
  <2>1. level \in 2..22 /\ level' = level - 1 /\ database' = Backward(database, level)
    BY <1>2 DEF Downgrade
  <2> QED
    BY <2>1, BackwardKeeps
<1>3. ASSUME NEW u, Write(u) PROVE FALSE
  BY <1>3 DEF Write, Filled
<1>4. ASSUME NEW u, DeleteRow(u) \/ DeleteSet(u)
      PROVE  t \notin Captured /\ level' = level
  <2>1. t \notin Captured
    BY <1>4, DeleteKeeps
  <2> QED
    BY <1>4, <2>1 DEF DeleteRow, DeleteSet, Delete
<1>5. CASE UNCHANGED migrationVars
  BY <1>5 DEF migrationVars
<1> QED
  BY <1>1, <1>2, <1>3, <1>4, <1>5 DEF MigrationsNext

(* For any database of the first migration and anything written on the last: *)
(* no delete of the program reaches a captured record, and no migration      *)
(* loses the rows of a table that outlives it.                               *)
THEOREM HistoryAlwaysStays == MigrationsSpec => HistoryStays
<1>1. level \in 1..22 /\ [MigrationsNext]_migrationVars =>
          [\A t \in DOMAIN database \ DOMAIN database' :
              IF level' = level THEN t \notin AppendOnly \ {"Source", "Document"}
                                ELSE t \notin DOMAIN SchemaAt[level']]_migrationVars
  BY StepKeepsHistory DEF Captured
<1> QED
  BY <1>1, LevelsKept, PTL DEF MigrationsSpec, HistoryStays

-----------------------------------------------------------------------------
(* The migrations arrive.  A reference that a migration makes is one that is *)
(* declared in the end, or one that a later migration replaces by one to the *)
(* same table (Told), so that a name stands for the same table in the schema *)
(* of every level.  That splits Shaped in two: Columned depends on the level *)
(* and not on other rows, Keyed on other rows and not on the level.  What    *)
(* the schemas do not check and the next migration relies on is OnTheWay;    *)
(* with it Arriving holds after every migration, every write and every one   *)
(* undone.                                                                   *)

\* What later migrations replace.
Rehousing == Rehoused \X {"workspace"}
Keeping ==
    (KeptTables \X {"workspace"})
      \cup ({"AuditEvent"} \X {"assessment_set", "parameter_value", "project"})
      \cup {<<"AssessmentEvidence", "assessment">>, <<"ChatCitation", "message">>,
            <<"ChatMessage", "conversation">>, <<"FactEvidence", "fact">>,
            <<"ParameterValueEvidence", "parameter_value">>,
            <<"PowerComponentEvidence", "component">>}
Scoping == {"AuditEvent", "UIHelpBinding", "ImportRun"} \X {"workspace"}

\* A reference that is declared, or whose name is declared with the same table.
Settled(t, r) == t \in DOMAIN Declared /\ r \in Declared[t]
Ends(t, f, to) == \E q : Settled(t, q) /\ q.field = f /\ q.to = to
Told(t, r, later) == Settled(t, r) \/ (<<t, r.field>> \in later /\ Ends(t, r.field, r.to))

LEMMA SettledEnds == ASSUME NEW t, NEW r, Settled(t, r) PROVE Ends(t, r.field, r.to)
  BY DEF Ends

LEMMA InitialTold ==
    \A c \in InitialReferences : Told(c[1], c[2], Rehousing \cup Keeping)
<1> USE DEF Reference, Follows, MayFollow, Holds, MayHold, MayForget, InProject, Owned, Kept, Each
<1>1. \A c \in InitialValueReferences : Told(c[1], c[2], Rehousing \cup Keeping)
  BY DEF Told, Settled, InitialValueReferences, Declared, AssessmentSetTable,
         ParameterDefinitionTable,
         ParticipantGroupTable, ParameterValueTable
<1>2. \A c \in InitialLogReferences : Told(c[1], c[2], Rehousing \cup Keeping)
  <2>1. \A c \in InitialLogReferences :
           c[1] # "AuditEvent" => Settled(c[1], c[2])
    BY DEF Settled, InitialLogReferences, Declared, EvidenceSourceTable, EvidenceLinkTable,
           CalculationStrategyDefinitionTable
  <2>2. \A c \in InitialLogReferences :
           c[1] = "AuditEvent" =>
             /\ <<c[1], c[2].field>> \in Keeping
             /\ \/ c[2].field = "project" /\ c[2].to = "Project"
                \/ c[2].field = "assessment_set" /\ c[2].to = "AssessmentSet"
                \/ c[2].field = "parameter_value" /\ c[2].to = "ParameterValue"
    BY DEF InitialLogReferences, Keeping
  <2>3. /\ Ends("AuditEvent", "project", "Project")
        /\ Ends("AuditEvent", "assessment_set", "AssessmentSet")
        /\ Ends("AuditEvent", "parameter_value", "ParameterValue")
    <3>1. /\ Settled("AuditEvent", Holds("project", "Project"))
          /\ Settled("AuditEvent", MayHold("assessment_set", "AssessmentSet"))
          /\ Settled("AuditEvent", MayHold("parameter_value", "ParameterValue"))
      BY DEF Settled, Declared, AuditEventTable
    <3> QED
      BY <3>1 DEF Ends
  <2> QED
    BY <2>1, <2>2, <2>3 DEF Told
<1>3. \A c \in InitialScenarioReferences : Told(c[1], c[2], Rehousing \cup Keeping)
  BY DEF Told, Settled, InitialScenarioReferences, InitialScenarioTables, Declared,
         ProjectLockTable, ProjectSchemaVersionTable,
         ScenarioTable, ScenarioOverrideTable, TensionPointTable, GroupTensionRelationTable,
         TimeSliceTable
<1> QED
  BY <1>1, <1>2, <1>3 DEF InitialReferences

LEMMA KeptHome ==
    \A t \in KeptTables :
        Ends(t, "workspace", "ProjectWorkspace")
<1> USE DEF Reference, Follows, MayFollow, Holds, MayHold, MayForget, InProject, Owned, Kept
<1>1. \A t \in KeptTables \ {"AuditEvent", "UIHelpBinding", "ImportRun"} :
         Settled(t, Kept)
  BY DEF KeptTables, Settled, Declared, AssessmentEvidenceTable, ChatCitationTable,
         ChatMessageTable, DocumentContentTable,
     DocumentVersionTable, FactTable, FactEvidenceTable, LegacyCompatibilityReceiptTable,
     LegacyTermMappingTable, ParameterValueEvidenceTable, PowerComponentEvidenceTable,
     TerminologyEntryTable, TextFragmentTable
<1>2. \A t \in {"AuditEvent", "UIHelpBinding", "ImportRun"} :
         Settled(t, MayHold("workspace", "ProjectWorkspace"))
  BY DEF Settled, Declared, AuditEventTable, UIHelpBindingTable, ImportRunTable
<1> QED
  BY <1>1, <1>2, SettledEnds

LEMMA FoundationTold ==
    \A c \in FoundationReferences : Told(c[1], c[2], Rehousing \cup Keeping)
<1> USE DEF Reference, Follows, MayFollow, Holds, MayHold, MayForget, InProject, Owned, Kept, Each
<1>1. \A c \in ActorReferences :
         \/ <<c[1], c[2].field>> \in Keeping
         \/ Settled(c[1], c[2])
  BY DEF ActorReferences, Keeping, Settled, Declared, ActorElementAssessmentTable,
         ParameterValueTable, ActorElementRoleTable,
     ActorRelationTable, DocumentVersionTable, DocumentContentTable, ChatCitationTable,
     ExperimentTable, FactTable, AssessmentEvidenceTable
<1>2. \A c \in ActorReferences : <<c[1], c[2].field>> \in Keeping =>
         \/ c[1] = "AssessmentEvidence" /\ c[2].field = "assessment" /\ c[2].to = "ActorElementAssessment"
         \/ c[1] = "ChatMessage" /\ c[2].field = "conversation" /\ c[2].to = "ChatConversation"
         \/ c[1] = "ChatCitation" /\ c[2].field = "message" /\ c[2].to = "ChatMessage"
         \/ c[1] = "FactEvidence" /\ c[2].field = "fact" /\ c[2].to = "Fact"
  BY DEF ActorReferences, Keeping
<1>3. /\ Ends("AssessmentEvidence", "assessment", "ActorElementAssessment")
      /\ Ends("ChatMessage", "conversation", "ChatConversation")
      /\ Ends("ChatCitation", "message", "ChatMessage")
      /\ Ends("FactEvidence", "fact", "Fact")
      /\ Ends("ParameterValueEvidence", "parameter_value", "ParameterValue")
      /\ Ends("PowerComponentEvidence", "component", "PowerComponent")
  <2>1. /\ Settled("AssessmentEvidence", Holds("assessment", "ActorElementAssessment"))
        /\ Settled("ChatMessage", Holds("conversation", "ChatConversation"))
        /\ Settled("ChatCitation", Holds("message", "ChatMessage"))
        /\ Settled("FactEvidence", Holds("fact", "Fact"))
        /\ Settled("ParameterValueEvidence", Holds("parameter_value", "ParameterValue"))
        /\ Settled("PowerComponentEvidence", Holds("component", "PowerComponent"))
    BY DEF Settled, Declared, AssessmentEvidenceTable, ChatMessageTable, ChatCitationTable,
           FactEvidenceTable, ParameterValueEvidenceTable, PowerComponentEvidenceTable
  <2> QED
    BY <2>1, SettledEnds
<1>4. \A c \in ActorReferences : Told(c[1], c[2], Rehousing \cup Keeping)
  BY <1>1, <1>2, <1>3 DEF Told
<1>5. \A c \in PowerReferences :
         \/ /\ <<c[1], c[2].field>> \in Keeping
            /\ \/ c[1] = "ParameterValueEvidence" /\ c[2].field = "parameter_value" /\ c[2].to = "ParameterValue"
               \/ c[1] = "PowerComponentEvidence" /\ c[2].field = "component" /\ c[2].to = "PowerComponent"
         \/ Settled(c[1], c[2])
  BY DEF PowerReferences, Keeping, Settled, Declared, PowerProfileTable, PowerComponentTable,
         ParameterValueEvidenceTable, PowerComponentEvidenceTable,
         ProjectDefinitionVersionTable,
         ProjectPublicationTable, ProjectWorkspaceTable
<1>6. \A c \in PowerReferences : Told(c[1], c[2], Rehousing \cup Keeping)
  BY <1>3, <1>5 DEF Told
<1>7. \A t \in (ActorTables \cup TalkTables \cup FactTables \cup PowerTables) \ (Homeless \cup KeptTables) :
         Settled(t, Owned)
  <2>1. \A t \in ActorTables : Settled(t, Owned)
    BY DEF ActorTables, Settled, Declared, ActorTable, ActorElementAssessmentTable,
           ActorElementRoleTable,
           ActorRelationTable, AnalyticalElementTable
  <2>2. \A t \in (TalkTables \cup FactTables \cup PowerTables) \ (Homeless \cup KeptTables) :
         Settled(t, Owned)
    BY DEF TalkTables, FactTables, PowerTables, Homeless, KeptTables, Settled, Declared,
           ChatConversationTable,
           DataGapTable, DocumentTable, ExperimentTable, ExpertProfileTable,
           PowerComponentTable,
           PowerProfileTable, SourceTable
  <2> QED
    BY <2>1, <2>2
<1>8. \A t \in Rehoused \ KeptTables : Settled(t, Owned)
  BY DEF Rehoused, KeptTables, Settled, Declared, AssessmentSetTable, ParameterValueTable,
         TimeSliceTable
<1>9. \A c \in WorkspaceReferences : Told(c[1], c[2], Rehousing \cup Keeping)
  <2>1. \A c \in WorkspaceReferences :
           \/ /\ c[1] \in (ActorTables \cup TalkTables \cup FactTables \cup PowerTables) \ Homeless
              /\ c[2] = Owned
           \/ /\ c[1] \in Rehoused
              /\ c[2] = MayFollow("workspace", "ProjectWorkspace")
    <3> HIDE DEF Owned, MayFollow
    <3> QED
      BY DEF WorkspaceReferences
  <2>2. \A t \in KeptTables : <<t, "workspace">> \in Keeping
    BY DEF Keeping
  <2>3. \A t \in Rehoused : <<t, "workspace">> \in Rehousing
    BY DEF Rehousing
  <2>4. /\ Owned.field = "workspace" /\ Owned.to = "ProjectWorkspace"
        /\ MayFollow("workspace", "ProjectWorkspace").field = "workspace"
        /\ MayFollow("workspace", "ProjectWorkspace").to = "ProjectWorkspace"
    OBVIOUS
  <2> HIDE DEF Reference, Follows, MayFollow, Holds, MayHold, MayForget, InProject, Owned, Kept, Each
  <2>5. \A t \in Rehoused \ KeptTables : Ends(t, "workspace", "ProjectWorkspace")
    BY <1>8, <2>4, SettledEnds
  <2> QED
    BY <1>7, <2>1, <2>2, <2>3, <2>4, <2>5, KeptHome DEF Told
<1>10. \A c \in SourceReferences : Settled(c[1], c[2])
  BY DEF SourceReferences, Settled, Declared, DocumentTable, TextFragmentTable,
         FactEvidenceTable,
         ChatCitationTable, UIHelpBindingTable
<1>11. \A c \in SourceReferences : Told(c[1], c[2], Rehousing \cup Keeping)
  BY <1>10 DEF Told
<1> QED
  BY <1>4, <1>6, <1>9, <1>11 DEF FoundationReferences

LEMMA RequiredTold == \A c \in RequiredReferences : Told(c[1], c[2], Keeping)
<1> USE DEF Reference, Follows, MayFollow, Holds, MayHold, MayForget, InProject, Owned, Kept, Each
<1>1. \A t \in Rehoused \ {"AuditEvent"} : Settled(t, Owned)
  BY DEF Rehoused, KeptTables, Settled, Declared, AssessmentSetTable, ParameterValueTable,
         TimeSliceTable
<1>2. "AuditEvent" \in KeptTables /\ <<"AuditEvent", "workspace">> \in Keeping
  BY DEF KeptTables, Keeping
<1>3. \A c \in RequiredReferences : c[1] \in Rehoused /\ c[2] = Owned
  <2> HIDE DEF Owned
  <2> QED
    BY DEF RequiredReferences
<1>4. Owned.field = "workspace" /\ Owned.to = "ProjectWorkspace"
  OBVIOUS
<1> HIDE DEF Reference, Follows, MayFollow, Holds, MayHold, MayForget, InProject, Owned, Kept, Each
<1> QED
  BY <1>1, <1>2, <1>3, <1>4, KeptHome DEF Told

LEMMA CompletedTold == \A c \in CompletedReferences : Told(c[1], c[2], Keeping)
<1> USE DEF Reference, Follows, MayFollow, Holds, MayHold, MayForget, InProject, Owned, Kept, Each
<1>1. \A t \in TermTables : t \in KeptTables /\ <<t, "workspace">> \in Keeping
  BY DEF KeptTables, Keeping, TermTables
<1>2. Settled("LegacyTermMapping", MayHold("terminology_entry", "TerminologyEntry"))
  BY DEF Settled, Declared, LegacyTermMappingTable
<1>3. \A c \in CompletedReferences :
         \/ c[1] \in TermTables /\ c[2] = Owned
         \/ c = <<"LegacyTermMapping", MayHold("terminology_entry", "TerminologyEntry")>>
  <2> HIDE DEF Owned, MayHold
  <2> QED
    BY DEF CompletedReferences
<1>4. Owned.field = "workspace" /\ Owned.to = "ProjectWorkspace"
  OBVIOUS
<1> HIDE DEF Reference, Follows, MayFollow, Holds, MayHold, MayForget, InProject, Owned, Kept, Each
<1> QED
  BY <1>1, <1>2, <1>3, <1>4, KeptHome DEF Told

LEMMA RestrictingTold == \A c \in RestrictingReferences : Told(c[1], c[2], Scoping)
<1> USE DEF Reference, Follows, MayFollow, Holds, MayHold, MayForget, InProject, Owned, Kept, Each
<1>1. \A t \in KeptTables \ {"AuditEvent", "UIHelpBinding", "ImportRun"} :
         Settled(t, Kept)
  BY DEF KeptTables, Settled, Declared, AssessmentEvidenceTable, ChatCitationTable,
         ChatMessageTable, DocumentContentTable,
     DocumentVersionTable, FactTable, FactEvidenceTable, LegacyCompatibilityReceiptTable,
     LegacyTermMappingTable, ParameterValueEvidenceTable, PowerComponentEvidenceTable,
     TerminologyEntryTable, TextFragmentTable
<1>2. \A t \in {"AuditEvent", "UIHelpBinding", "ImportRun"} :
        t \in KeptTables /\ <<t, "workspace">> \in Scoping
  BY DEF KeptTables, Scoping
<1>3. \A c \in RestrictingReferences :
         \/ c[1] \in KeptTables /\ c[2] = Kept
         \/ Settled(c[1], c[2])
  <2> HIDE DEF Kept, Holds, MayHold
  <2> QED
    BY DEF RestrictingReferences, Settled, Declared, AssessmentEvidenceTable,
           AuditEventTable, ChatCitationTable,
         ChatMessageTable, FactEvidenceTable, ParameterValueEvidenceTable,
         PowerComponentEvidenceTable
<1>4. Kept.field = "workspace" /\ Kept.to = "ProjectWorkspace"
  OBVIOUS
<1> HIDE DEF Reference, Follows, MayFollow, Holds, MayHold, MayForget, InProject, Owned, Kept, Each
<1> QED
  BY <1>1, <1>2, <1>3, <1>4, KeptHome DEF Told

LEMMA ReceiptedTold == \A c \in ReceiptedReferences : Told(c[1], c[2], Scoping)
  BY DEF Told, ReceiptedReferences, Settled, Declared, ImportRunTable, Each, MayHold, Holds,
         Reference

LEMMA StudioTold ==
    \A c \in StudioReferences : Told(c[1], c[2], {<<"ImportRun", "project">>})
<1> USE DEF Reference, Follows, MayFollow, Holds, MayHold, MayForget, InProject, Owned, Kept, Each
<1>1. \A c \in StudioReferences :
         \/ c = <<"ImportRun", MayHold("project", "Project")>>
         \/ Settled(c[1], c[2])
  BY DEF StudioReferences, Settled, Declared, AuditEventTable, UIHelpBindingTable,
         ImportRunTable, ProjectPublicationTable
<1>2. Ends("ImportRun", "project", "Project")
  <2>1. Settled("ImportRun", Holds("project", "Project"))
    BY DEF Settled, Declared, ImportRunTable
  <2> QED
    BY <2>1 DEF Ends
<1>3. MayHold("project", "Project").field = "project" /\ MayHold("project", "Project").to = "Project"
  OBVIOUS
<1> HIDE DEF Reference, Follows, MayFollow, Holds, MayHold, MayForget, InProject, Owned, Kept, Each
<1> QED
  BY <1>1, <1>2, <1>3 DEF Told

LEMMA BoundedTold == \A c \in BoundedReferences : Told(c[1], c[2], {})
  BY DEF Told, BoundedReferences, Settled, Declared, ImportRunTable, Each, MayHold, Holds,
         Reference

LEMMA MultilingualTold == \A c \in MultilingualReferences : Told(c[1], c[2], {})
<1> USE DEF Reference, Follows, MayFollow, Holds, MayHold, MayForget, InProject, Owned, Kept, Each
<1>1. \A t \in LineageTables \ {"FactCategory"} : Settled(t, Kept)
  BY DEF LineageTables, Settled, Declared, DocumentContentVariantTable,
         DocumentContentRoleBindingTable,
         DocumentSentenceTable, FactCategoryAssignmentTable, SentenceAlignmentSetTable,
         SentenceAlignmentEdgeTable, TranslationProvenanceTable
<1>2. \A c \in MultilingualReferences :
         \/ c[1] \in LineageTables \ {"FactCategory"} /\ c[2] = Kept
         \/ Settled(c[1], c[2])
  <2> HIDE DEF Kept, Holds, MayHold
  <2> QED
    BY DEF MultilingualReferences, Settled, Declared, DocumentContentVariantTable,
           DocumentContentRoleBindingTable,
         DocumentSentenceTable, FactCategoryAssignmentTable, SentenceAlignmentSetTable,
         SentenceAlignmentEdgeTable, TranslationProvenanceTable, TextFragmentTable,
         FactCategoryTable
<1> QED
  BY <1>1, <1>2 DEF Told

LEMMA ProjectedTold == \A c \in ProjectedReferences : Told(c[1], c[2], {})
  BY DEF Told, ProjectedReferences, Settled, Declared, ParameterDefinitionTable, Each,
         MayHold, Holds, Reference

Foretold(schema, later) == \A t \in DOMAIN schema : \A r \in schema[t] : Told(t, r, later)

LEMMA ForetoldStep ==
    ASSUME NEW schema, NEW later, Foretold(schema, later), NEW new, NEW changes, NEW next,
           \A c \in changes : Told(c[1], c[2], next),
           \A x \in later \ next : \E c \in changes : c[1] = x[1] /\ c[2].field = x[2]
    PROVE  Foretold(Altered(schema, new, changes), next)
<1> SUFFICES ASSUME NEW t \in DOMAIN schema \cup new, NEW r \in Altered(schema, new, changes)[t]
             PROVE  Told(t, r, next)
  BY DEF Foretold, Altered
<1>1. CASE \E c \in changes : c[1] = t /\ c[2] = r
  BY <1>1
<1>2. CASE /\ t \in DOMAIN schema /\ r \in schema[t]
           /\ \A c \in changes : ~(c[1] = t /\ c[2].field = r.field)
  <2>1. Told(t, r, later)
    BY <1>2 DEF Foretold
  <2>2. <<t, r.field>> \in later => <<t, r.field>> \in next
    BY <1>2
  <2> QED
    BY <2>1, <2>2 DEF Told
<1> QED
  BY <1>1, <1>2 DEF Altered

LEMMA AlteredTables ==
    ASSUME NEW schema, NEW new, NEW changes
    PROVE  DOMAIN Altered(schema, new, changes) = DOMAIN schema \cup new
  BY DEF Altered

LEMMA AlteredOnly ==
    ASSUME NEW schema, NEW changes
    PROVE  DOMAIN Altered(schema, {}, changes) = DOMAIN schema
<1>1. DOMAIN Altered(schema, {}, changes) = DOMAIN schema \cup {}
  BY AlteredTables
<1> QED
  BY <1>1

LEMMA SchemasForetold ==
    /\ Foretold(Initial, Rehousing \cup Keeping) /\ Foretold(Foundation, Rehousing \cup Keeping)
    /\ Foretold(Required, Keeping) /\ Foretold(Completed, Keeping)
    /\ Foretold(Restricting, Scoping) /\ Foretold(Receipted, Scoping)
    /\ Foretold(Studio, {<<"ImportRun", "project">>})
    /\ Foretold(Bounded, {}) /\ Foretold(Multilingual, {}) /\ Foretold(Projected, {})
<1>2. Foretold(Initial, Rehousing \cup Keeping)
  <2> DEFINE none == [t \in {} |-> {}]
             initial == Altered(none, InitialTables, InitialReferences)
  <2>1. ASSUME NEW t \in DOMAIN initial, NEW r \in initial[t]
        PROVE  Told(t, r, Rehousing \cup Keeping)
    <3>1. <<t, r>>[1] = t /\ <<t, r>>[2] = r /\ \E c \in InitialReferences : c[1] = t /\ c[2] = r
      BY <2>1 DEF Altered
    <3> QED
      BY <3>1, InitialTold
  <2> HIDE DEF initial
  <2>2. Foretold(initial, Rehousing \cup Keeping)
    BY <2>1 DEF Foretold
  <2> QED
    BY <2>2 DEF initial, Initial
<1>3. Foretold(Foundation, Rehousing \cup Keeping)
  BY <1>2, ForetoldStep, FoundationTold DEF Foundation
<1>4. Foretold(Required, Keeping)
  <2>1. \A x \in Rehousing : \E c \in RequiredReferences : c[1] = x[1] /\ c[2].field = x[2]
    <3>1. \A t \in Rehoused : <<t, Owned>> \in RequiredReferences
      BY DEF RequiredReferences, Each
    <3>2. Owned.field = "workspace"
      BY DEF Owned, Follows, Reference
    <3> QED
      BY <3>1, <3>2 DEF Rehousing
  <2> QED
    BY <1>3, <2>1, ForetoldStep, RequiredTold DEF Required
<1>5. Foretold(Completed, Keeping)
  BY <1>4, ForetoldStep, CompletedTold DEF Completed
<1>6. Foretold(Restricting, Scoping)
  <2> DEFINE Replaced(t, f) == \E c \in RestrictingReferences : c[1] = t /\ c[2].field = f
  <2>1. /\ \A t \in KeptTables : <<t, Kept>> \in RestrictingReferences
        /\ <<"AuditEvent", MayHold("assessment_set", "AssessmentSet")>> \in RestrictingReferences
        /\ <<"AuditEvent", MayHold("parameter_value", "ParameterValue")>>
              \in RestrictingReferences
        /\ <<"AuditEvent", Holds("project", "Project")>> \in RestrictingReferences
        /\ <<"AssessmentEvidence", Holds("assessment", "ActorElementAssessment")>>
              \in RestrictingReferences
        /\ <<"ChatCitation", Holds("message", "ChatMessage")>> \in RestrictingReferences
        /\ <<"ChatMessage", Holds("conversation", "ChatConversation")>> \in RestrictingReferences
        /\ <<"FactEvidence", Holds("fact", "Fact")>> \in RestrictingReferences
        /\ <<"ParameterValueEvidence", Holds("parameter_value", "ParameterValue")>>
              \in RestrictingReferences
        /\ <<"PowerComponentEvidence", Holds("component", "PowerComponent")>>
              \in RestrictingReferences
    BY DEF RestrictingReferences, Each
  <2>2. Kept.field = "workspace"
    BY DEF Kept, Holds, Reference
  <2>3. \A f, t : MayHold(f, t).field = f /\ Holds(f, t).field = f
    BY DEF Holds, MayHold, Reference
  <2>4. /\ \A t \in KeptTables : Replaced(t, "workspace")
        /\ \A f \in {"assessment_set", "parameter_value", "project"} : Replaced("AuditEvent", f)
        /\ Replaced("AssessmentEvidence", "assessment") /\ Replaced("ChatCitation", "message")
        /\ Replaced("ChatMessage", "conversation") /\ Replaced("FactEvidence", "fact")
        /\ Replaced("ParameterValueEvidence", "parameter_value")
        /\ Replaced("PowerComponentEvidence", "component")
    BY <2>1, <2>2, <2>3
  <2> HIDE DEF Replaced
  <2>5. \A x \in Keeping : Replaced(x[1], x[2])
    BY <2>4 DEF Keeping
  <2> QED
    BY <1>5, <2>5, ForetoldStep, RestrictingTold DEF Restricting, Replaced
<1>7. Foretold(Receipted, Scoping)
  BY <1>6, ForetoldStep, ReceiptedTold DEF Receipted
<1>8. Foretold(Studio, {<<"ImportRun", "project">>})
  <2>1. \A t \in {"AuditEvent", "UIHelpBinding", "ImportRun"} :
           <<t, MayHold("workspace", "ProjectWorkspace")>> \in StudioReferences
    BY DEF StudioReferences, Each
  <2>2. MayHold("workspace", "ProjectWorkspace").field = "workspace"
    BY DEF MayHold, Reference
  <2>3. \A x \in Scoping : \E c \in StudioReferences : c[1] = x[1] /\ c[2].field = x[2]
    BY <2>1, <2>2 DEF Scoping
  <2> QED
    BY <1>7, <2>3, ForetoldStep, StudioTold DEF Studio
<1>9. Foretold(Bounded, {})
  <2>1. /\ <<"ImportRun", Holds("project", "Project")>> \in BoundedReferences
        /\ Holds("project", "Project").field = "project"
    BY DEF BoundedReferences, Each, Holds, Reference
  <2> QED
    BY <1>8, <2>1, ForetoldStep, BoundedTold DEF Bounded
<1>10. Foretold(Multilingual, {})
  BY <1>9, ForetoldStep, MultilingualTold DEF Multilingual
<1>11. Foretold(Projected, {})
  BY <1>10, ForetoldStep, ProjectedTold DEF Projected
<1> QED
  BY <1>2, <1>3, <1>4, <1>5, <1>6, <1>7, <1>8, <1>9, <1>10, <1>11

LEMMA SchemaTables ==
    /\ DOMAIN Initial = InitialTables
    /\ DOMAIN Foundation = InitialTables \cup FoundationTables
    /\ DOMAIN Required = DOMAIN Foundation
    /\ DOMAIN Completed = DOMAIN Foundation \cup TermTables
    /\ DOMAIN Restricting = DOMAIN Completed /\ DOMAIN Receipted = DOMAIN Completed
    /\ DOMAIN Studio = DOMAIN Completed /\ DOMAIN Bounded = DOMAIN Completed
    /\ DOMAIN Multilingual = DOMAIN Completed \cup LineageTables
    /\ DOMAIN Projected = DOMAIN Multilingual
<1>1. DOMAIN Initial = InitialTables
  BY DEF Initial, Altered
<1>2. DOMAIN Foundation = InitialTables \cup FoundationTables
  BY <1>1, AlteredTables DEF Foundation
<1>3. DOMAIN Required = DOMAIN Foundation
  BY AlteredOnly DEF Required
<1>4. DOMAIN Completed = DOMAIN Foundation \cup TermTables
  BY <1>3, AlteredTables DEF Completed
<1>5. DOMAIN Restricting = DOMAIN Completed
  BY AlteredOnly DEF Restricting
<1>6. DOMAIN Receipted = DOMAIN Completed
  BY <1>5, AlteredOnly DEF Receipted
<1>7. DOMAIN Studio = DOMAIN Completed
  BY <1>6, AlteredOnly DEF Studio
<1>8. DOMAIN Bounded = DOMAIN Completed
  BY <1>7, AlteredOnly DEF Bounded
<1>9. DOMAIN Multilingual = DOMAIN Completed \cup LineageTables
  BY <1>8, AlteredTables DEF Multilingual
<1>10. DOMAIN Projected = DOMAIN Multilingual
  BY AlteredOnly DEF Projected
<1> QED
  BY <1>1, <1>2, <1>3, <1>4, <1>5, <1>6, <1>7, <1>8, <1>9, <1>10

LEMMA DeclaredTables ==
    DOMAIN Declared = InitialTables \cup FoundationTables \cup TermTables \cup LineageTables
  BY DEF Declared, InitialTables, InitialValueTables, InitialLogTables, InitialScenarioTables,
         FoundationTables, ActorTables, TalkTables, FactTables, PowerTables, TermTables,
         LineageTables

\* The names of references, none of which is the name of another mark.
FieldNames ==
    {"project", "workspace", "participant_group", "tension_point", "definition_version",
     "parameter_value", "source", "time_slice", "assessment_set", "base_assessment_set",
     "scenario", "parameter_definition", "initial_workspace", "target_experiment",
     "target_assessment_set", "source_actor", "target_actor", "actor", "element",
     "expert_profile", "experiment", "actor_element_assessment", "assessment", "profile",
     "document", "document_version", "document_content", "content_variant",
     "original_variant", "project_primary_variant", "alignment_set", "original_sentence",
     "project_primary_sentence", "source_document_version", "source_content_variant", "fact",
     "category", "fragment", "component", "terminology_entry", "help_topic", "conversation",
     "message"}

\* References of a table that are told apart by their names.
ToldApart(R) ==
    /\ \A q \in R : q.field \in FieldNames
    /\ \A q, r \in R : q.field = r.field => q = r

LEMMA DeclaredToldApart == \A t \in DOMAIN Declared : ToldApart(Declared[t])
<1> USE DEF Reference, Follows, MayFollow, Holds, MayHold, InProject, Owned, Kept, ToldApart,
        FieldNames
<1>1. /\ ToldApart(ProjectTable) /\ ToldApart(ProjectSchemaVersionTable)
      /\ ToldApart(ProjectLockTable) /\ ToldApart(TensionPointTable)
      /\ ToldApart(ParticipantGroupTable) /\ ToldApart(GroupTensionRelationTable)
      /\ ToldApart(ParameterDefinitionTable) /\ ToldApart(EvidenceSourceTable)
      /\ ToldApart(EvidenceLinkTable) /\ ToldApart(FactCategoryTable)
      /\ ToldApart(CalculationStrategyDefinitionTable) /\ ToldApart(ScenarioTable)
      /\ ToldApart(ScenarioOverrideTable)
  BY DEF ProjectTable, ProjectSchemaVersionTable, ProjectLockTable, TensionPointTable,
         ParticipantGroupTable, GroupTensionRelationTable, ParameterDefinitionTable,
         EvidenceSourceTable, EvidenceLinkTable, FactCategoryTable,
         CalculationStrategyDefinitionTable, ScenarioTable, ScenarioOverrideTable
<1>2. /\ ToldApart(ProjectDefinitionVersionTable) /\ ToldApart(ProjectPublicationTable)
      /\ ToldApart(ProjectWorkspaceTable) /\ ToldApart(ImportRunTable)
      /\ ToldApart(LegacyCompatibilityReceiptTable) /\ ToldApart(AuditEventTable)
      /\ ToldApart(TimeSliceTable) /\ ToldApart(ActorTable) /\ ToldApart(AnalyticalElementTable)
      /\ ToldApart(ActorRelationTable) /\ ToldApart(ActorElementRoleTable)
      /\ ToldApart(AssessmentSetTable) /\ ToldApart(ExpertProfileTable)
      /\ ToldApart(ExperimentTable) /\ ToldApart(ActorElementAssessmentTable)
      /\ ToldApart(ParameterValueTable) /\ ToldApart(PowerProfileTable)
      /\ ToldApart(PowerComponentTable) /\ ToldApart(DataGapTable)
  BY DEF ProjectDefinitionVersionTable, ProjectPublicationTable, ProjectWorkspaceTable,
         ImportRunTable, LegacyCompatibilityReceiptTable, AuditEventTable, TimeSliceTable,
         ActorTable, AnalyticalElementTable, ActorRelationTable, ActorElementRoleTable,
         AssessmentSetTable, ExpertProfileTable, ExperimentTable, ActorElementAssessmentTable,
         ParameterValueTable, PowerProfileTable, PowerComponentTable, DataGapTable
<1>3. /\ ToldApart(SourceTable) /\ ToldApart(DocumentTable) /\ ToldApart(DocumentVersionTable)
      /\ ToldApart(DocumentContentTable) /\ ToldApart(DocumentContentVariantTable)
      /\ ToldApart(DocumentContentRoleBindingTable) /\ ToldApart(DocumentSentenceTable)
      /\ ToldApart(SentenceAlignmentSetTable) /\ ToldApart(SentenceAlignmentEdgeTable)
      /\ ToldApart(TranslationProvenanceTable) /\ ToldApart(TextFragmentTable)
      /\ ToldApart(FactTable) /\ ToldApart(FactCategoryAssignmentTable)
      /\ ToldApart(FactEvidenceTable) /\ ToldApart(AssessmentEvidenceTable)
      /\ ToldApart(ParameterValueEvidenceTable) /\ ToldApart(PowerComponentEvidenceTable)
      /\ ToldApart(TerminologyEntryTable) /\ ToldApart(LegacyTermMappingTable)
      /\ ToldApart(HelpTopicTable) /\ ToldApart(UIHelpBindingTable)
      /\ ToldApart(ChatConversationTable) /\ ToldApart(ChatMessageTable)
      /\ ToldApart(ChatCitationTable)
  BY DEF SourceTable, DocumentTable, DocumentVersionTable, DocumentContentTable,
         DocumentContentVariantTable, DocumentContentRoleBindingTable, DocumentSentenceTable,
         SentenceAlignmentSetTable, SentenceAlignmentEdgeTable, TranslationProvenanceTable,
         TextFragmentTable, FactTable, FactCategoryAssignmentTable, FactEvidenceTable,
         AssessmentEvidenceTable, ParameterValueEvidenceTable, PowerComponentEvidenceTable,
         TerminologyEntryTable, LegacyTermMappingTable, HelpTopicTable, UIHelpBindingTable,
         ChatConversationTable, ChatMessageTable, ChatCitationTable
<1> HIDE DEF Reference, Follows, MayFollow, Holds, MayHold, InProject, Owned, Kept, ToldApart,
        FieldNames
<1> QED
  BY <1>1, <1>2, <1>3 DEF Declared

LEMMA NamesAreNoFlags == \A n \in 1..22 : FieldNames \cap FlagsAt(n) = {}
  BY DEF FieldNames, FlagsAt

LEMMA FlagsGrow == \A n \in 2..22 : FlagsAt(n - 1) \subseteq FlagsAt(n)
  BY DEF FlagsAt

LEMMA Levels ==
    /\ SchemaAt[1] = Initial /\ SchemaAt[2] = Foundation
    /\ SchemaAt[3] = Required /\ SchemaAt[4] = Required
    /\ \A n \in 5..8 : SchemaAt[n] = Completed
    /\ SchemaAt[9] = Restricting
    /\ \A n \in 10..12 : SchemaAt[n] = Receipted
    /\ SchemaAt[13] = Studio /\ SchemaAt[14] = Studio
    /\ SchemaAt[15] = Bounded /\ SchemaAt[16] = Bounded
    /\ SchemaAt[17] = Multilingual
    /\ \A n \in 18..22 : SchemaAt[n] = Projected
  BY DEF SchemaAt

\* Whatever the level, a name of a reference stands for the table that is declared.
LEMMA LevelsForetold ==
    ASSUME NEW n \in 1..22
    PROVE  /\ DOMAIN SchemaAt[n] \subseteq DOMAIN Declared
           /\ \A t \in DOMAIN SchemaAt[n] : \A r \in SchemaAt[n][t] :
                 \E q \in Declared[t] : q.field = r.field /\ q.to = r.to
<1>1. n = 1 \/ n = 2 \/ n \in 3..4 \/ n \in 5..8 \/ n = 9 \/ n \in 10..12 \/ n \in 13..14
        \/ n \in 15..16 \/ n = 17 \/ n \in 18..22
  OBVIOUS
<1>2. DOMAIN SchemaAt[n] \subseteq DOMAIN Declared
  BY <1>1, Levels, SchemaTables, DeclaredTables
<1>3. \E later : Foretold(SchemaAt[n], later)
  BY <1>1, Levels, SchemasForetold
<1>4. \A t, r, later : Told(t, r, later) =>
         \E q \in Declared[t] : q.field = r.field /\ q.to = r.to
  BY DEF Told, Ends, Settled
<1> QED
  BY <1>2, <1>3, <1>4 DEF Foretold

-----------------------------------------------------------------------------
\* Every row has what it needs and only what there are columns for, and what its
\* references name is there.
Columned(rs, n) ==
    /\ DOMAIN rs \subseteq DOMAIN SchemaAt[n]
    /\ \A t \in DOMAIN rs :
          /\ Needed(SchemaAt[n], t) \subseteq rs[t]
          /\ rs[t] \subseteq ColumnsAt(n, t)

Keyed(rs) ==
    \A t \in DOMAIN rs : \A q \in Declared[t] : q.field \in rs[t] => q.to \in DOMAIN rs

LEMMA ShapedIsKeyed ==
    ASSUME NEW n \in 1..22, NEW rs
    PROVE  Shaped(rs, n) <=> Columned(rs, n) /\ Keyed(rs)
<1>1. ASSUME Shaped(rs, n) PROVE Keyed(rs)
  <2> SUFFICES ASSUME NEW t \in DOMAIN rs, NEW q \in Declared[t], q.field \in rs[t]
               PROVE  q.to \in DOMAIN rs
    BY DEF Keyed
  <2>1. t \in DOMAIN SchemaAt[n] /\ t \in DOMAIN Declared
    BY <1>1, LevelsForetold DEF Shaped
  <2>2. q.field \notin FlagsAt(n)
    BY <2>1, DeclaredToldApart, NamesAreNoFlags DEF ToldApart
  <2>3. PICK r \in SchemaAt[n][t] : r.field = q.field
    BY <1>1, <2>2 DEF Shaped, ColumnsAt
  <2>4. r.to \in DOMAIN rs
    BY <1>1, <2>3 DEF Shaped
  <2>5. PICK p \in Declared[t] : p.field = r.field /\ p.to = r.to
    BY <2>1, LevelsForetold
  <2>6. p = q
    BY <2>1, <2>3, <2>5, DeclaredToldApart DEF ToldApart
  <2> QED
    BY <2>4, <2>5, <2>6
<1>2. ASSUME Columned(rs, n), Keyed(rs) PROVE Shaped(rs, n)
  <2>1. ASSUME NEW t \in DOMAIN rs, NEW r \in SchemaAt[n][t], r.field \in rs[t]
        PROVE  r.to \in DOMAIN rs
    <3>1. t \in DOMAIN SchemaAt[n]
      BY <1>2 DEF Columned
    <3> QED
      BY <1>2, <2>1, <3>1, LevelsForetold DEF Keyed
  <2> QED
    BY <1>2, <2>1 DEF Shaped, Columned
<1> QED
  BY <1>1, <1>2 DEF Shaped, Columned

-----------------------------------------------------------------------------
(* Every reference that is declared is one that a migration wrote.           *)

Written(t, q) ==
    \/ <<t, q>> \in InitialReferences \/ <<t, q>> \in FoundationReferences
    \/ <<t, q>> \in RequiredReferences \/ <<t, q>> \in CompletedReferences
    \/ <<t, q>> \in RestrictingReferences \/ <<t, q>> \in ReceiptedReferences
    \/ <<t, q>> \in StudioReferences \/ <<t, q>> \in BoundedReferences
    \/ <<t, q>> \in MultilingualReferences \/ <<t, q>> \in ProjectedReferences

AllWritten(t, R) == \A q \in R : Written(t, q)

LEMMA DeclaredWritten == \A t \in DOMAIN Declared : AllWritten(t, Declared[t])
<1>1. /\ AllWritten("Project", ProjectTable)
      /\ AllWritten("ProjectSchemaVersion", ProjectSchemaVersionTable)
      /\ AllWritten("ProjectLock", ProjectLockTable)
      /\ AllWritten("TensionPoint", TensionPointTable)
      /\ AllWritten("ParticipantGroup", ParticipantGroupTable)
      /\ AllWritten("GroupTensionRelation", GroupTensionRelationTable)
      /\ AllWritten("ParameterDefinition", ParameterDefinitionTable)
      /\ AllWritten("EvidenceSource", EvidenceSourceTable)
      /\ AllWritten("EvidenceLink", EvidenceLinkTable)
      /\ AllWritten("CalculationStrategyDefinition", CalculationStrategyDefinitionTable)
      /\ AllWritten("Scenario", ScenarioTable)
      /\ AllWritten("ScenarioOverride", ScenarioOverrideTable)
  BY DEF AllWritten, Written, Each, InitialReferences, InitialValueReferences,
         InitialLogReferences, InitialScenarioReferences, InitialScenarioTables,
         ProjectedReferences, ProjectTable, ProjectSchemaVersionTable, ProjectLockTable,
         TensionPointTable, ParticipantGroupTable, GroupTensionRelationTable,
         ParameterDefinitionTable, EvidenceSourceTable, EvidenceLinkTable,
         CalculationStrategyDefinitionTable, ScenarioTable, ScenarioOverrideTable
<1>2. /\ AllWritten("ProjectDefinitionVersion", ProjectDefinitionVersionTable)
      /\ AllWritten("ProjectPublication", ProjectPublicationTable)
      /\ AllWritten("ProjectWorkspace", ProjectWorkspaceTable)
      /\ AllWritten("ImportRun", ImportRunTable)
      /\ AllWritten("AuditEvent", AuditEventTable)
      /\ AllWritten("UIHelpBinding", UIHelpBindingTable)
      /\ AllWritten("HelpTopic", HelpTopicTable)
  BY DEF AllWritten, Written, Each, FoundationReferences, PowerReferences, SourceReferences,
         RestrictingReferences, ReceiptedReferences, StudioReferences, BoundedReferences,
         ProjectDefinitionVersionTable, ProjectPublicationTable, ProjectWorkspaceTable,
         ImportRunTable, AuditEventTable, UIHelpBindingTable, HelpTopicTable
<1>3. /\ \A t \in {"Actor", "AnalyticalElement", "ActorRelation", "ActorElementRole",
                   "ExpertProfile", "Experiment", "ActorElementAssessment", "PowerProfile",
                   "PowerComponent", "DataGap", "Source", "Document", "ChatConversation"} :
            Written(t, Owned)
      /\ \A t \in Rehoused \ {"AuditEvent"} : Written(t, Owned)
  <2>1. \A t \in {"Actor", "AnalyticalElement", "ActorRelation", "ActorElementRole",
                  "ExpertProfile", "Experiment", "ActorElementAssessment", "PowerProfile",
                  "PowerComponent", "DataGap", "Source", "Document", "ChatConversation"} :
            t \in FoundationTables \ Homeless
    BY DEF FoundationTables, ActorTables, TalkTables, FactTables, PowerTables, Homeless
  <2> QED
    BY <2>1 DEF Written, Each, FoundationReferences, WorkspaceReferences, RequiredReferences,
                FoundationTables
<1>4. \A t \in KeptTables : Written(t, Kept)
  BY DEF Written, Each, RestrictingReferences
<1>5. \A t \in LineageTables \ {"FactCategory"} : Written(t, Kept)
  BY DEF Written, Each, MultilingualReferences
<1>6. /\ AllWritten("TimeSlice", TimeSliceTable)
      /\ AllWritten("Actor", ActorTable)
      /\ AllWritten("AnalyticalElement", AnalyticalElementTable)
      /\ AllWritten("ActorRelation", ActorRelationTable)
      /\ AllWritten("ActorElementRole", ActorElementRoleTable)
      /\ AllWritten("AssessmentSet", AssessmentSetTable)
      /\ AllWritten("ExpertProfile", ExpertProfileTable)
      /\ AllWritten("Experiment", ExperimentTable)
      /\ AllWritten("ActorElementAssessment", ActorElementAssessmentTable)
      /\ AllWritten("ParameterValue", ParameterValueTable)
      /\ AllWritten("PowerProfile", PowerProfileTable)
      /\ AllWritten("PowerComponent", PowerComponentTable)
      /\ AllWritten("DataGap", DataGapTable)
      /\ AllWritten("Source", SourceTable)
      /\ AllWritten("Document", DocumentTable)
      /\ AllWritten("ChatConversation", ChatConversationTable)
  <2>1. /\ AllWritten("TimeSlice", TimeSliceTable \ {Owned})
        /\ AllWritten("ActorRelation", ActorRelationTable \ {Owned})
        /\ AllWritten("ActorElementRole", ActorElementRoleTable \ {Owned})
        /\ AllWritten("AssessmentSet", AssessmentSetTable \ {Owned})
        /\ AllWritten("Experiment", ExperimentTable \ {Owned})
        /\ AllWritten("ActorElementAssessment", ActorElementAssessmentTable \ {Owned})
        /\ AllWritten("ParameterValue", ParameterValueTable \ {Owned})
        /\ AllWritten("PowerProfile", PowerProfileTable \ {Owned})
        /\ AllWritten("PowerComponent", PowerComponentTable \ {Owned})
        /\ AllWritten("Document", DocumentTable \ {Owned})
    BY DEF AllWritten, Written, Each, InitialReferences, InitialValueReferences,
           InitialScenarioReferences, InitialScenarioTables, FoundationReferences,
           ActorReferences, PowerReferences, SourceReferences, TimeSliceTable,
           ActorRelationTable, ActorElementRoleTable, AssessmentSetTable, ExperimentTable,
           ActorElementAssessmentTable, ParameterValueTable, PowerProfileTable,
           PowerComponentTable, DocumentTable
  <2> QED
    BY <2>1, <1>3 DEF AllWritten, Rehoused, TimeSliceTable, ActorTable, AnalyticalElementTable,
           ActorRelationTable, ActorElementRoleTable, AssessmentSetTable, ExpertProfileTable,
           ExperimentTable, ActorElementAssessmentTable, ParameterValueTable,
           PowerProfileTable, PowerComponentTable, DataGapTable, SourceTable, DocumentTable,
           ChatConversationTable
<1>7. /\ AllWritten("DocumentVersion", DocumentVersionTable)
      /\ AllWritten("DocumentContent", DocumentContentTable)
      /\ AllWritten("TextFragment", TextFragmentTable)
      /\ AllWritten("Fact", FactTable)
      /\ AllWritten("FactEvidence", FactEvidenceTable)
      /\ AllWritten("AssessmentEvidence", AssessmentEvidenceTable)
      /\ AllWritten("ParameterValueEvidence", ParameterValueEvidenceTable)
      /\ AllWritten("PowerComponentEvidence", PowerComponentEvidenceTable)
      /\ AllWritten("TerminologyEntry", TerminologyEntryTable)
      /\ AllWritten("LegacyTermMapping", LegacyTermMappingTable)
      /\ AllWritten("LegacyCompatibilityReceipt", LegacyCompatibilityReceiptTable)
      /\ AllWritten("ChatMessage", ChatMessageTable)
      /\ AllWritten("ChatCitation", ChatCitationTable)
  <2>1. /\ AllWritten("DocumentVersion", DocumentVersionTable \ {Kept})
        /\ AllWritten("DocumentContent", DocumentContentTable \ {Kept})
        /\ AllWritten("TextFragment", TextFragmentTable \ {Kept})
        /\ AllWritten("Fact", FactTable \ {Kept})
        /\ AllWritten("FactEvidence", FactEvidenceTable \ {Kept})
        /\ AllWritten("AssessmentEvidence", AssessmentEvidenceTable \ {Kept})
        /\ AllWritten("ParameterValueEvidence", ParameterValueEvidenceTable \ {Kept})
        /\ AllWritten("PowerComponentEvidence", PowerComponentEvidenceTable \ {Kept})
        /\ AllWritten("LegacyTermMapping", LegacyTermMappingTable \ {Kept})
        /\ AllWritten("ChatMessage", ChatMessageTable \ {Kept})
        /\ AllWritten("ChatCitation", ChatCitationTable \ {Kept})
    BY DEF AllWritten, Written, Each, FoundationReferences, ActorReferences, PowerReferences,
           SourceReferences, CompletedReferences, RestrictingReferences,
           MultilingualReferences, DocumentVersionTable, DocumentContentTable,
           TextFragmentTable, FactTable, FactEvidenceTable, AssessmentEvidenceTable,
           ParameterValueEvidenceTable, PowerComponentEvidenceTable, LegacyTermMappingTable,
           ChatMessageTable, ChatCitationTable
  <2> QED
    BY <2>1, <1>4 DEF AllWritten, KeptTables, DocumentVersionTable, DocumentContentTable,
           TextFragmentTable, FactTable, FactEvidenceTable, AssessmentEvidenceTable,
           ParameterValueEvidenceTable, PowerComponentEvidenceTable, TerminologyEntryTable,
           LegacyTermMappingTable, LegacyCompatibilityReceiptTable, ChatMessageTable,
           ChatCitationTable
<1>8. /\ AllWritten("DocumentContentVariant", DocumentContentVariantTable)
      /\ AllWritten("DocumentContentRoleBinding", DocumentContentRoleBindingTable)
      /\ AllWritten("DocumentSentence", DocumentSentenceTable)
      /\ AllWritten("SentenceAlignmentSet", SentenceAlignmentSetTable)
      /\ AllWritten("SentenceAlignmentEdge", SentenceAlignmentEdgeTable)
      /\ AllWritten("TranslationProvenance", TranslationProvenanceTable)
      /\ AllWritten("FactCategory", FactCategoryTable)
      /\ AllWritten("FactCategoryAssignment", FactCategoryAssignmentTable)
  BY <1>5 DEF AllWritten, Written, Each, LineageTables, MultilingualReferences,
         DocumentContentVariantTable, DocumentContentRoleBindingTable, DocumentSentenceTable,
         SentenceAlignmentSetTable, SentenceAlignmentEdgeTable, TranslationProvenanceTable,
         FactCategoryTable, FactCategoryAssignmentTable
<1> HIDE DEF AllWritten
<1> QED
  BY <1>1, <1>2, <1>6, <1>7, <1>8 DEF Declared

\* A field that there is stays, perhaps as another reference.
Named(schema, t, f) == t \in DOMAIN schema /\ \E r \in schema[t] : r.field = f

LEMMA NamesStay ==
    ASSUME NEW schema, NEW new, NEW changes, NEW t, NEW f, Named(schema, t, f)
    PROVE  Named(Altered(schema, new, changes), t, f)
<1>1. CASE \E c \in changes : c[1] = t /\ c[2].field = f
  BY <1>1 DEF Named, Altered
<1>2. CASE \A c \in changes : ~(c[1] = t /\ c[2].field = f)
  BY <1>2 DEF Named, Altered
<1> QED
  BY <1>1, <1>2

LEMMA NamesCome ==
    ASSUME NEW schema, NEW new, NEW changes, NEW t \in DOMAIN schema \cup new, NEW r,
           <<t, r>> \in changes
    PROVE  Named(Altered(schema, new, changes), t, r.field)
<1>1. <<t, r>>[1] = t /\ <<t, r>>[2] = r
  OBVIOUS
<1> QED
  BY <1>1 DEF Named, Altered

NamesOf(s, u) == \A t, f : Named(s, t, f) => Named(u, t, f)

LEMMA NamesGrow ==
    /\ NamesOf(Initial, Foundation) /\ NamesOf(Foundation, Required)
    /\ NamesOf(Required, Completed) /\ NamesOf(Completed, Restricting)
    /\ NamesOf(Restricting, Receipted) /\ NamesOf(Receipted, Studio)
    /\ NamesOf(Studio, Bounded) /\ NamesOf(Bounded, Multilingual)
    /\ NamesOf(Multilingual, Projected)
  BY NamesStay DEF NamesOf, Foundation, Required, Completed, Restricting, Receipted, Studio,
                   Bounded, Multilingual, Projected

\* The changes of each migration are to tables that it finds or makes.
LEMMA ChangesOfTables ==
    /\ \A c \in InitialReferences : c[1] \in InitialTables
    /\ \A c \in FoundationReferences : c[1] \in InitialTables \cup FoundationTables
    /\ \A c \in RequiredReferences : c[1] \in InitialTables
    /\ \A c \in CompletedReferences : c[1] \in TermTables
    /\ \A c \in RestrictingReferences :
          c[1] \in InitialTables \cup FoundationTables \cup TermTables
    /\ \A c \in ReceiptedReferences : c[1] \in FoundationTables
    /\ \A c \in StudioReferences : c[1] \in InitialTables \cup FoundationTables
    /\ \A c \in BoundedReferences : c[1] \in FoundationTables
    /\ \A c \in MultilingualReferences : c[1] \in FoundationTables \cup LineageTables
    /\ \A c \in ProjectedReferences : c[1] \in InitialTables
<1> USE DEF Each
<1>1. \A c \in InitialReferences : c[1] \in InitialTables
  BY DEF InitialReferences, InitialValueReferences, InitialLogReferences,
         InitialScenarioReferences, InitialTables, InitialValueTables, InitialLogTables,
         InitialScenarioTables
<1>2. \A c \in FoundationReferences : c[1] \in InitialTables \cup FoundationTables
  BY DEF FoundationReferences, ActorReferences, PowerReferences, WorkspaceReferences,
         SourceReferences, FoundationTables, ActorTables, TalkTables, FactTables, PowerTables,
         Rehoused, InitialTables, InitialValueTables, InitialLogTables, InitialScenarioTables
<1>3. \A c \in RequiredReferences : c[1] \in InitialTables
  BY DEF RequiredReferences, Rehoused, InitialTables, InitialValueTables, InitialLogTables,
         InitialScenarioTables
<1>4. \A c \in CompletedReferences : c[1] \in TermTables
  BY DEF CompletedReferences, TermTables
<1>5. \A c \in RestrictingReferences :
         c[1] \in InitialTables \cup FoundationTables \cup TermTables
  BY DEF RestrictingReferences, KeptTables, InitialTables, InitialLogTables, FoundationTables,
         ActorTables, TalkTables, FactTables, PowerTables, TermTables
<1>6. \A c \in ReceiptedReferences : c[1] \in FoundationTables
  BY DEF ReceiptedReferences, FoundationTables, FactTables
<1>7. \A c \in StudioReferences : c[1] \in InitialTables \cup FoundationTables
  BY DEF StudioReferences, InitialTables, InitialLogTables, FoundationTables, FactTables,
         PowerTables
<1>8. \A c \in BoundedReferences : c[1] \in FoundationTables
  BY DEF BoundedReferences, FoundationTables, FactTables
<1>9. \A c \in MultilingualReferences : c[1] \in FoundationTables \cup LineageTables
  BY DEF MultilingualReferences, FoundationTables, PowerTables, LineageTables
<1>10. \A c \in ProjectedReferences : c[1] \in InitialTables
  BY DEF ProjectedReferences, InitialTables, InitialValueTables
<1> QED
  BY <1>1, <1>2, <1>3, <1>4, <1>5, <1>6, <1>7, <1>8, <1>9, <1>10

\* ... so that each of them is there afterwards.
LEMMA NamesWritten ==
    ASSUME NEW t, NEW r
    PROVE  /\ <<t, r>> \in InitialReferences => Named(Initial, t, r.field)
           /\ <<t, r>> \in FoundationReferences => Named(Foundation, t, r.field)
           /\ <<t, r>> \in RequiredReferences => Named(Required, t, r.field)
           /\ <<t, r>> \in CompletedReferences => Named(Completed, t, r.field)
           /\ <<t, r>> \in RestrictingReferences => Named(Restricting, t, r.field)
           /\ <<t, r>> \in ReceiptedReferences => Named(Receipted, t, r.field)
           /\ <<t, r>> \in StudioReferences => Named(Studio, t, r.field)
           /\ <<t, r>> \in BoundedReferences => Named(Bounded, t, r.field)
           /\ <<t, r>> \in MultilingualReferences => Named(Multilingual, t, r.field)
           /\ <<t, r>> \in ProjectedReferences => Named(Projected, t, r.field)
<1>1. /\ <<t, r>> \in InitialReferences => t \in InitialTables
      /\ <<t, r>> \in FoundationReferences => t \in InitialTables \cup FoundationTables
      /\ <<t, r>> \in RequiredReferences => t \in InitialTables
      /\ <<t, r>> \in CompletedReferences => t \in TermTables
      /\ <<t, r>> \in RestrictingReferences =>
            t \in InitialTables \cup FoundationTables \cup TermTables
      /\ <<t, r>> \in ReceiptedReferences => t \in FoundationTables
      /\ <<t, r>> \in StudioReferences => t \in InitialTables \cup FoundationTables
      /\ <<t, r>> \in BoundedReferences => t \in FoundationTables
      /\ <<t, r>> \in MultilingualReferences => t \in FoundationTables \cup LineageTables
      /\ <<t, r>> \in ProjectedReferences => t \in InitialTables
  <2>1. <<t, r>>[1] = t
    OBVIOUS
  <2> QED
    BY <2>1, ChangesOfTables
<1>2. <<t, r>> \in InitialReferences => Named(Initial, t, r.field)
  BY <1>1, NamesCome DEF Initial
<1>3. /\ <<t, r>> \in FoundationReferences => Named(Foundation, t, r.field)
      /\ <<t, r>> \in RequiredReferences => Named(Required, t, r.field)
      /\ <<t, r>> \in CompletedReferences => Named(Completed, t, r.field)
  BY <1>1, NamesCome, SchemaTables DEF Foundation, Required, Completed
<1>4. /\ <<t, r>> \in RestrictingReferences => Named(Restricting, t, r.field)
      /\ <<t, r>> \in ReceiptedReferences => Named(Receipted, t, r.field)
      /\ <<t, r>> \in StudioReferences => Named(Studio, t, r.field)
  BY <1>1, NamesCome, SchemaTables DEF Restricting, Receipted, Studio
<1>5. /\ <<t, r>> \in BoundedReferences => Named(Bounded, t, r.field)
      /\ <<t, r>> \in MultilingualReferences => Named(Multilingual, t, r.field)
      /\ <<t, r>> \in ProjectedReferences => Named(Projected, t, r.field)
  BY <1>1, NamesCome, SchemaTables DEF Bounded, Multilingual, Projected
<1> QED
  BY <1>1, <1>2, <1>3, <1>4, <1>5

LEMMA LastIsDeclared == Projected = Declared
<1>1. DOMAIN Projected = DOMAIN Declared
  BY SchemaTables, DeclaredTables
<1>2. \A t \in DOMAIN Declared : Projected[t] \subseteq Declared[t]
  BY <1>1, SchemasForetold DEF Foretold, Told, Settled
<1>3. ASSUME NEW t \in DOMAIN Declared, NEW q \in Declared[t]
      PROVE  Named(Projected, t, q.field)
  <2>1. Written(t, q)
    BY DeclaredWritten DEF AllWritten
  <2> QED
    BY <2>1, NamesWritten, NamesGrow DEF Written, NamesOf
<1>4. \A t \in DOMAIN Declared : Projected[t] = Declared[t]
  <2> SUFFICES ASSUME NEW t \in DOMAIN Declared, NEW q \in Declared[t]
               PROVE  q \in Projected[t]
    BY <1>2
  <2>1. PICK r \in Projected[t] : r.field = q.field
    BY <1>3 DEF Named
  <2>2. r = q
    BY <1>2, <2>1, DeclaredToldApart DEF ToldApart
  <2> QED
    BY <2>2
<1>5. Projected = [t \in DOMAIN Projected |-> Projected[t]]
  BY DEF Projected, Altered
<1>6. Declared = [t \in DOMAIN Declared |-> Declared[t]]
  BY DEF Declared
<1> QED
  BY <1>1, <1>4, <1>5, <1>6

-----------------------------------------------------------------------------
(* What is needed.                                                           *)

LEMMA NeedsStay ==
    ASSUME NEW schema, NEW new, NEW changes, NEW t \in DOMAIN schema,
           NEW f \in Needed(schema, t),
           \A c \in changes : c[1] = t /\ c[2].field = f => c[2].needed
    PROVE  f \in Needed(Altered(schema, new, changes), t)
<1>1. PICK r \in schema[t] : r.needed /\ r.field = f
  BY DEF Needed
<1>2. CASE \E c \in changes : c[1] = t /\ c[2].field = f
  BY <1>2 DEF Needed, Altered
<1>3. CASE \A c \in changes : ~(c[1] = t /\ c[2].field = f)
  <2>1. r \in Altered(schema, new, changes)[t]
    BY <1>1, <1>3 DEF Altered
  <2> QED
    BY <1>1, <2>1 DEF Needed
<1> QED
  BY <1>2, <1>3

LEMMA NeedsCome ==
    ASSUME NEW schema, NEW new, NEW changes, NEW t \in DOMAIN schema \cup new, NEW r,
           <<t, r>> \in changes, r.needed
    PROVE  r.field \in Needed(Altered(schema, new, changes), t)
<1>1. <<t, r>>[1] = t /\ <<t, r>>[2] = r
  OBVIOUS
<1>2. r \in Altered(schema, new, changes)[t]
  BY <1>1 DEF Altered
<1> QED
  BY <1>2 DEF Needed

LEMMA NeedsOf ==
    ASSUME NEW schema, NEW new, NEW changes, NEW t \in DOMAIN schema,
           NEW f \in Needed(Altered(schema, new, changes), t)
    PROVE  \/ f \in Needed(schema, t)
           \/ \E c \in changes : c[1] = t /\ c[2].field = f /\ c[2].needed
  BY DEF Needed, Altered

LEMMA LevelsGrow ==
    ASSUME NEW n \in 2..22
    PROVE  /\ DOMAIN SchemaAt[n - 1] \subseteq DOMAIN SchemaAt[n]
           /\ NamesOf(SchemaAt[n - 1], SchemaAt[n])
<1>1. n \in {2, 3, 4, 5} \/ n \in 6..8 \/ n \in {9, 10} \/ n \in 11..12
        \/ n \in {13, 14, 15, 16, 17, 18} \/ n \in 19..22
  OBVIOUS
<1>2. \A s : NamesOf(s, s)
  BY DEF NamesOf
<1>3. CASE n \in {2, 3, 4, 5} \/ n \in 6..8
  BY <1>2, <1>3, Levels, NamesGrow, SchemaTables
<1>4. CASE n \in {9, 10} \/ n \in 11..12
  BY <1>2, <1>4, Levels, NamesGrow, SchemaTables
<1>5. CASE n \in {13, 14, 15, 16}
  BY <1>2, <1>5, Levels, NamesGrow, SchemaTables
<1>6. CASE n \in {17, 18} \/ n \in 19..22
  BY <1>2, <1>6, Levels, NamesGrow, SchemaTables
<1> QED
  BY <1>1, <1>3, <1>4, <1>5, <1>6

LEMMA ColumnsGrow ==
    ASSUME NEW n \in 2..22, NEW t \in DOMAIN SchemaAt[n - 1]
    PROVE  ColumnsAt(n - 1, t) \subseteq ColumnsAt(n, t)
<1> SUFFICES ASSUME NEW f \in ColumnsAt(n - 1, t) PROVE f \in ColumnsAt(n, t)
  OBVIOUS
<1>1. CASE f \in FlagsAt(n - 1)
  BY <1>1, FlagsGrow DEF ColumnsAt
<1>2. CASE f \in {r.field : r \in SchemaAt[n - 1][t]}
  <2>1. Named(SchemaAt[n - 1], t, f)
    BY <1>2 DEF Named
  <2>2. Named(SchemaAt[n], t, f)
    BY <2>1, LevelsGrow DEF NamesOf
  <2> QED
    BY <2>2 DEF Named, ColumnsAt
<1> QED
  BY <1>1, <1>2 DEF ColumnsAt

LEMMA Climb ==
    ASSUME NEW n \in 2..22, NEW rs, Columned(rs, n - 1),
           \A t \in DOMAIN rs : Needed(SchemaAt[n], t) \subseteq rs[t]
    PROVE  Columned(rs, n)
<1>1. DOMAIN rs \subseteq DOMAIN SchemaAt[n]
  BY LevelsGrow DEF Columned
<1>2. ASSUME NEW t \in DOMAIN rs PROVE rs[t] \subseteq ColumnsAt(n, t)
  <2>1. t \in DOMAIN SchemaAt[n - 1] /\ rs[t] \subseteq ColumnsAt(n - 1, t)
    BY DEF Columned
  <2> QED
    BY <2>1, ColumnsGrow
<1> QED
  BY <1>1, <1>2 DEF Columned

\* What a row of the tables before needs in the end, it needed at once ...
LEMMA NeedsLast ==
    ASSUME NEW t \in DOMAIN Foundation, NEW f \in Needed(Foundation, t)
    PROVE  f \in Needed(Completed, t)
<1>1. f \in Needed(Required, t)
  <2>1. \A c \in RequiredReferences : c[2].needed
    BY DEF RequiredReferences, Each, Owned, Follows, Reference
  <2> QED
    BY <2>1, NeedsStay DEF Required
<1>2. t \in DOMAIN Required /\ t \notin TermTables
  BY SchemaTables DEF InitialTables, InitialValueTables, InitialLogTables,
      InitialScenarioTables,
         FoundationTables, ActorTables, TalkTables, FactTables, PowerTables, TermTables
<1>3. \A c \in CompletedReferences : c[1] # t
  BY <1>2, ChangesOfTables
<1> QED
  BY <1>1, <1>2, <1>3, NeedsStay DEF Completed

LEMMA NeedsOfKept ==
    ASSUME NEW c \in RestrictingReferences, c[2].needed
    PROVE  c[2].field \in Needed(Completed, c[1])
<1>1. \A t \in KeptTables \ (TermTables \cup {"AuditEvent"}) : "workspace" \in Needed(Completed, t)
  <2> TAKE t \in KeptTables \ (TermTables \cup {"AuditEvent"})
  <2>1. t \in FoundationTables \ Homeless
    BY DEF KeptTables, TermTables, FoundationTables, ActorTables, TalkTables, FactTables,
           PowerTables, Homeless
  <2>2. <<t, Owned>> \in FoundationReferences
    BY <2>1 DEF FoundationReferences, WorkspaceReferences, Each, FoundationTables
  <2>3. Owned.needed /\ Owned.field = "workspace"
    BY DEF Owned, Follows, Reference
  <2>4. "workspace" \in Needed(Foundation, t)
    BY <2>1, <2>2, <2>3, NeedsCome DEF Foundation
  <2> QED
    BY <2>1, <2>4, NeedsLast, SchemaTables
<1>2. \A t \in TermTables : "workspace" \in Needed(Completed, t)
  <2> TAKE t \in TermTables
  <2>1. <<t, Owned>> \in CompletedReferences /\ Owned.needed /\ Owned.field = "workspace"
    BY DEF CompletedReferences, Each, Owned, Follows, Reference
  <2> QED
    BY <2>1, NeedsCome DEF Completed
<1>3. "AuditEvent" \in DOMAIN Foundation /\ "AuditEvent" \in DOMAIN Initial
  BY SchemaTables DEF InitialTables, InitialLogTables
<1>4. "workspace" \in Needed(Completed, "AuditEvent")
  <2>1. <<"AuditEvent", Owned>> \in RequiredReferences
    BY DEF RequiredReferences, Each, Rehoused
  <2>2. Owned.needed /\ Owned.field = "workspace"
    BY DEF Owned, Follows, Reference
  <2>3. "workspace" \in Needed(Required, "AuditEvent")
    BY <1>3, <2>1, <2>2, NeedsCome DEF Required
  <2>4. \A d \in CompletedReferences : d[1] # "AuditEvent"
    BY ChangesOfTables DEF TermTables
  <2> QED
    BY <1>3, <2>3, <2>4, NeedsStay, SchemaTables DEF Completed
<1>5. "project" \in Needed(Completed, "AuditEvent")
  <2>1. <<"AuditEvent", InProject>> \in InitialReferences
    BY DEF InitialReferences, InitialLogReferences, Each
  <2>2. InProject.needed /\ InProject.field = "project"
    BY DEF InProject, Follows, Reference
  <2>3. "project" \in Needed(Initial, "AuditEvent")
    BY <1>3, <2>1, <2>2, NeedsCome, SchemaTables DEF Initial
  <2>4. \A d \in FoundationReferences : d[1] = "AuditEvent" => d[2].field # "project"
    BY DEF FoundationReferences, ActorReferences, PowerReferences, WorkspaceReferences,
           SourceReferences, ActorTables, TalkTables, FactTables, PowerTables, Each,
           MayFollow, Reference
  <2>5. "project" \in Needed(Foundation, "AuditEvent")
    BY <1>3, <2>3, <2>4, NeedsStay DEF Foundation
  <2> QED
    BY <1>3, <2>5, NeedsLast
<1>6. /\ "assessment" \in Needed(Completed, "AssessmentEvidence")
      /\ "message" \in Needed(Completed, "ChatCitation")
      /\ "conversation" \in Needed(Completed, "ChatMessage")
      /\ "fact" \in Needed(Completed, "FactEvidence")
      /\ "parameter_value" \in Needed(Completed, "ParameterValueEvidence")
      /\ "component" \in Needed(Completed, "PowerComponentEvidence")
  <2> DEFINE Came(t, f, u) == /\ t \in FoundationTables
                               /\ <<t, Follows(f, u)>> \in FoundationReferences
  <2>1. /\ Came("AssessmentEvidence", "assessment", "ActorElementAssessment")
        /\ Came("ChatCitation", "message", "ChatMessage")
        /\ Came("ChatMessage", "conversation", "ChatConversation")
        /\ Came("FactEvidence", "fact", "Fact")
        /\ Came("ParameterValueEvidence", "parameter_value", "ParameterValue")
        /\ Came("PowerComponentEvidence", "component", "PowerComponent")
    BY DEF FoundationTables, TalkTables, FactTables, PowerTables, FoundationReferences,
           ActorReferences, PowerReferences, Each
  <2>2. ASSUME NEW t, NEW f, NEW u, Came(t, f, u) PROVE f \in Needed(Completed, t)
    <3>1. Follows(f, u).needed /\ Follows(f, u).field = f
      BY DEF Follows, Reference
    <3>2. f \in Needed(Foundation, t)
      BY <2>2, <3>1, NeedsCome DEF Foundation
    <3> QED
      BY <2>2, <3>2, NeedsLast, SchemaTables
  <2> HIDE DEF Came
  <2> QED
    BY <2>1, <2>2
<1>7. \/ c[1] \in KeptTables /\ c[2] = Kept
      \/ c = <<"AuditEvent", Holds("project", "Project")>>
      \/ c = <<"AssessmentEvidence", Holds("assessment", "ActorElementAssessment")>>
      \/ c = <<"ChatCitation", Holds("message", "ChatMessage")>>
      \/ c = <<"ChatMessage", Holds("conversation", "ChatConversation")>>
      \/ c = <<"FactEvidence", Holds("fact", "Fact")>>
      \/ c = <<"ParameterValueEvidence", Holds("parameter_value", "ParameterValue")>>
      \/ c = <<"PowerComponentEvidence", Holds("component", "PowerComponent")>>
  <2>1. \A f, t : ~MayHold(f, t).needed
    BY DEF MayHold, Reference
  <2> QED
    BY <2>1 DEF RestrictingReferences, Each
<1>8. Kept.field = "workspace" /\ \A f, t : Holds(f, t).field = f
  BY DEF Kept, Holds, Reference
<1> QED
  BY <1>1, <1>2, <1>4, <1>5, <1>6, <1>7, <1>8

\* ... but for a workspace that it was given, and the project of an import.
LEMMA NewNeeds ==
    ASSUME NEW n \in 2..22, NEW t \in DOMAIN SchemaAt[n - 1], NEW f \in Needed(SchemaAt[n], t)
    PROVE  \/ f \in Needed(SchemaAt[n - 1], t)
           \/ n = 3 /\ t \in Rehoused /\ f = "workspace"
           \/ n = 15 /\ t = "ImportRun" /\ f = "project"
<1>1. \/ n \in {4, 14, 16} \/ n \in 6..8 \/ n \in 11..12 \/ n \in 19..22
      \/ n \in {2, 3, 5, 9, 10, 13, 15, 17, 18}
  OBVIOUS
<1>2. CASE n \in {4, 14, 16} \/ n \in 6..8 \/ n \in 11..12 \/ n \in 19..22
  <2>1. SchemaAt[n] = SchemaAt[n - 1]
    BY <1>2, Levels
  <2> QED
    BY <2>1
<1>3. CASE n = 2
  <2>1. t \in InitialTables
    BY <1>3, Levels, SchemaTables
  <2>2. InitialTables \cap FoundationTables = {}
    BY DEF InitialTables, InitialValueTables, InitialLogTables, InitialScenarioTables,
           FoundationTables, ActorTables, TalkTables, FactTables, PowerTables
  <2>3. \A c \in FoundationReferences : c[1] \in FoundationTables \/ ~c[2].needed
    BY DEF FoundationReferences, ActorReferences, PowerReferences, WorkspaceReferences,
           SourceReferences, FoundationTables, ActorTables, TalkTables, FactTables, PowerTables,
           Each, MayHold, MayFollow, Reference
  <2> QED
    BY <1>3, <2>1, <2>2, <2>3, NeedsOf, Levels, SchemaTables DEF Foundation
<1>4. CASE n = 3
  <2>1. \A c \in RequiredReferences : c[1] \in Rehoused /\ c[2].field = "workspace"
    BY DEF RequiredReferences, Each, Owned, Follows, Reference
  <2> QED
    BY <1>4, <2>1, NeedsOf, Levels, SchemaTables DEF Required
<1>5. CASE n = 5
  <2>1. t \notin TermTables
    BY <1>5, Levels, SchemaTables DEF InitialTables, InitialValueTables, InitialLogTables,
       InitialScenarioTables, FoundationTables, ActorTables, TalkTables, FactTables,
       PowerTables,
       TermTables
  <2> QED
    BY <1>5, <2>1, ChangesOfTables, NeedsOf, Levels, SchemaTables DEF Completed
<1>6. CASE n = 9
  BY <1>6, NeedsOfKept, NeedsOf, Levels, SchemaTables DEF Restricting
<1>7. CASE n = 10
  <2>1. \A c \in ReceiptedReferences : ~c[2].needed
    BY DEF ReceiptedReferences, Each, MayHold, Reference
  <2> QED
    BY <1>7, <2>1, NeedsOf, Levels, SchemaTables DEF Receipted
<1>8. CASE n = 13
  <2>1. \A c \in StudioReferences : ~c[2].needed
    BY DEF StudioReferences, Each, MayHold, Reference
  <2> QED
    BY <1>8, <2>1, NeedsOf, Levels, SchemaTables DEF Studio
<1>9. CASE n = 15
  <2>1. \A c \in BoundedReferences : c[1] = "ImportRun" /\ c[2].field = "project"
    BY DEF BoundedReferences, Each, Holds, Reference
  <2> QED
    BY <1>9, <2>1, NeedsOf, Levels, SchemaTables DEF Bounded
<1>10. CASE n = 17
  <2>1. t \notin LineageTables
    BY <1>10, Levels, SchemaTables DEF InitialTables, InitialValueTables, InitialLogTables,
       InitialScenarioTables, FoundationTables, ActorTables, TalkTables, FactTables,
       PowerTables,
       TermTables, LineageTables
  <2>2. \A c \in MultilingualReferences : c[1] \in LineageTables \/ ~c[2].needed
    BY DEF MultilingualReferences, LineageTables, Each, MayHold, Reference
  <2> QED
    BY <1>10, <2>1, <2>2, NeedsOf, Levels, SchemaTables DEF Multilingual
<1>11. CASE n = 18
  <2>1. \A c \in ProjectedReferences : ~c[2].needed
    BY DEF ProjectedReferences, Each, MayHold, Reference
  <2> QED
    BY <1>11, <2>1, NeedsOf, Levels, SchemaTables DEF Projected
<1> QED
  BY <1>1, <1>2, <1>3, <1>4, <1>5, <1>6, <1>7, <1>8, <1>9, <1>10, <1>11

-----------------------------------------------------------------------------
(* What is true of the rows on the way besides what their schema checks.     *)

OnTheWay(rs, n) ==
    /\ "ProjectDefinitionVersion" \in DOMAIN rs =>
          /\ OneKind(rs["ProjectDefinitionVersion"])
          /\ ~({"draft", "stamped"} \subseteq rs["ProjectDefinitionVersion"])
    /\ n = 2 => \A t \in Rehoused \cap DOMAIN rs : "workspace" \in rs[t]
    /\ n \in 2..4 => "ChatCitation" \notin DOMAIN rs
    /\ n \in 13..14 =>
          /\ \A t \in {"AuditEvent", "UIHelpBinding", "ImportRun"} \cap DOMAIN rs :
                "workspace" \in rs[t]
          /\ "ImportRun" \in DOMAIN rs => "package" \notin rs["ImportRun"]
    /\ n = 14 =>
          /\ "AuditEvent" \in DOMAIN rs =>
                {"definition", "definition_version"} \cap rs["AuditEvent"] = {}
          /\ "ImportRun" \in DOMAIN rs =>
                {"project", "definition_version"} \subseteq rs["ImportRun"]

LEMMA MarkedShaped ==
    ASSUME NEW n \in 1..22, NEW rs, NEW T, NEW M, Columned(rs, n), Keyed(rs),
           \A t \in T \cap DOMAIN rs :
               /\ M \subseteq ColumnsAt(n, t)
               /\ \A q \in Declared[t] : q.field \in M => q.to \in DOMAIN rs
    PROVE  Columned(Marked(rs, T, M), n) /\ Keyed(Marked(rs, T, M))
<1> DEFINE ms == Marked(rs, T, M)
<1>1. DOMAIN ms = DOMAIN rs
  BY MarkedDomain
<1>2. \A t \in DOMAIN rs : ms[t] = IF t \in T THEN rs[t] \cup M ELSE rs[t]
  BY DEF Marked
<1> HIDE DEF ms
<1>3. Columned(ms, n)
  BY <1>1, <1>2 DEF Columned
<1>4. Keyed(ms)
  BY <1>1, <1>2 DEF Keyed
<1> QED
  BY <1>3, <1>4 DEF ms

LEMMA ClearedShaped ==
    ASSUME NEW n \in 1..22, NEW rs, NEW T, NEW M, Columned(rs, n), Keyed(rs),
           \A t \in T \cap DOMAIN rs : M \cap Needed(SchemaAt[n], t) = {}
    PROVE  Columned(Cleared(rs, T, M), n) /\ Keyed(Cleared(rs, T, M))
<1> DEFINE ms == Cleared(rs, T, M)
<1>1. DOMAIN ms = DOMAIN rs
  BY ClearedDomain
<1>2. \A t \in DOMAIN rs : ms[t] = IF t \in T THEN rs[t] \ M ELSE rs[t]
  BY DEF Cleared
<1> HIDE DEF ms
<1>3. Columned(ms, n)
  BY <1>1, <1>2 DEF Columned
<1>4. Keyed(ms)
  BY <1>1, <1>2 DEF Keyed
<1> QED
  BY <1>3, <1>4 DEF ms

\* New rows are in order if all that they refer to is there.
LEMMA FilledShaped ==
    ASSUME NEW n \in 1..22, NEW rs, NEW new, Columned(rs, n), Keyed(rs),
           DOMAIN new \subseteq DOMAIN SchemaAt[n],
           \A t \in DOMAIN new :
               /\ new[t] \subseteq ColumnsAt(n, t)
               /\ \A q \in Declared[t] : q.to \in DOMAIN rs \cup DOMAIN new
    PROVE  Columned(Filled(rs, n, new), n) /\ Keyed(Filled(rs, n, new))
<1> DEFINE ms == Filled(rs, n, new)
<1>1. DOMAIN ms = DOMAIN rs \cup DOMAIN new
  BY DEF Filled
<1>2. \A t \in DOMAIN ms :
         ms[t] = IF t \in DOMAIN rs THEN rs[t] ELSE Needed(SchemaAt[n], t) \cup new[t]
  BY DEF Filled
<1> HIDE DEF ms
<1>3. \A t : Needed(SchemaAt[n], t) \subseteq ColumnsAt(n, t)
  BY DEF Needed, ColumnsAt
<1>4. Columned(ms, n)
  BY <1>1, <1>2, <1>3 DEF Columned
<1>5. Keyed(ms)
  BY <1>1, <1>2 DEF Keyed
<1> QED
  BY <1>4, <1>5 DEF ms

LEMMA ClimbKeyed ==
    ASSUME NEW n \in 2..22, NEW rs, Columned(rs, n - 1), OnTheWay(rs, n - 1),
           n = 15 /\ "ImportRun" \in DOMAIN rs => "project" \in rs["ImportRun"]
    PROVE  Columned(rs, n)
<1> SUFFICES ASSUME NEW t \in DOMAIN rs, NEW f \in Needed(SchemaAt[n], t) PROVE f \in rs[t]
  BY Climb
<1>1. t \in DOMAIN SchemaAt[n - 1] /\ Needed(SchemaAt[n - 1], t) \subseteq rs[t]
  BY DEF Columned
<1>2. CASE f \in Needed(SchemaAt[n - 1], t)
  BY <1>1, <1>2
<1>3. CASE n = 3 /\ t \in Rehoused /\ f = "workspace"
  BY <1>3 DEF OnTheWay
<1>4. CASE n = 15 /\ t = "ImportRun" /\ f = "project"
  BY <1>4
<1> QED
  BY <1>1, <1>2, <1>3, <1>4, NewNeeds

\* Where the references are that migrations fill.
LEMMA Places ==
    /\ \A t \in Rehoused : Named(Foundation, t, "workspace")
    /\ \A t \in {"AuditEvent", "UIHelpBinding", "ImportRun"} : Named(Studio, t, "workspace")
    /\ Named(Studio, "AuditEvent", "definition_version")
    /\ Named(Studio, "ImportRun", "definition_version") /\ Named(Studio, "ImportRun", "project")
    /\ Named(Required, "ChatCitation", "fragment")
    /\ Named(Required, "ChatCitation", "document_version")
    /\ Named(Multilingual, "TextFragment", "content_variant")
    /\ Named(Multilingual, "DocumentContentVariant", "document_content")
<1>1. \A f, t : MayHold(f, t).field = f /\ MayFollow(f, t).field = f
  BY DEF MayHold, MayFollow, Reference
<1>2. \A t \in Rehoused : Named(Foundation, t, "workspace")
  <2> TAKE t \in Rehoused
  <2> DEFINE r == MayFollow("workspace", "ProjectWorkspace")
  <2>1. <<t, r>> \in FoundationReferences
    BY DEF FoundationReferences, WorkspaceReferences, Each
  <2>2. r.field = "workspace"
    BY <1>1
  <2> HIDE DEF r
  <2>3. Named(Foundation, t, r.field)
    BY <2>1, NamesWritten
  <2> QED
    BY <2>2, <2>3
<1>3. /\ \A t \in {"AuditEvent", "UIHelpBinding", "ImportRun"} : Named(Studio, t, "workspace")
      /\ Named(Studio, "AuditEvent", "definition_version")
      /\ Named(Studio, "ImportRun", "definition_version")
      /\ Named(Studio, "ImportRun", "project")
  <2>1. /\ \A t \in {"AuditEvent", "UIHelpBinding", "ImportRun"} :
              <<t, MayHold("workspace", "ProjectWorkspace")>> \in StudioReferences
        /\ \A t \in {"AuditEvent", "ImportRun"} :
              <<t, MayHold("definition_version", "ProjectDefinitionVersion")>>
                 \in StudioReferences
        /\ <<"ImportRun", MayHold("project", "Project")>> \in StudioReferences
    BY DEF StudioReferences, Each
  <2> QED
    BY <1>1, <2>1, NamesWritten
<1>4. Named(Required, "ChatCitation", "fragment")
      /\ Named(Required, "ChatCitation", "document_version")
  <2>1. /\ <<"ChatCitation", MayHold("fragment", "TextFragment")>> \in FoundationReferences
        /\ <<"ChatCitation", MayHold("document_version", "DocumentVersion")>>
              \in FoundationReferences
    BY DEF FoundationReferences, SourceReferences, ActorReferences, Each
  <2> QED
    BY <1>1, <2>1, NamesWritten, NamesGrow DEF NamesOf
<1>5. /\ Named(Multilingual, "TextFragment", "content_variant")
      /\ Named(Multilingual, "DocumentContentVariant", "document_content")
  <2>1. /\ <<"TextFragment", MayHold("content_variant", "DocumentContentVariant")>>
              \in MultilingualReferences
        /\ <<"DocumentContentVariant", MayHold("document_content", "DocumentContent")>>
              \in MultilingualReferences
    BY DEF MultilingualReferences, Each
  <2> QED
    BY <1>1, <2>1, NamesWritten
<1> QED
  BY <1>2, <1>3, <1>4, <1>5

LEMMA NamedColumn ==
    ASSUME NEW n \in 1..22, NEW t, NEW f, Named(SchemaAt[n], t, f)
    PROVE  f \in ColumnsAt(n, t)
  BY DEF Named, ColumnsAt

\* 0002
LEMMA HousedShaped ==
    ASSUME NEW rs, Columned(rs, 1), Keyed(rs), OnTheWay(rs, 1)
    PROVE  Columned(IntoWorkspaces(rs), 2) /\ Keyed(IntoWorkspaces(rs))
<1>1. Columned(rs, 2)
  BY ClimbKeyed
<1> USE DEF Only, Both
<1> DEFINE expert == "AssessmentSet" \in DOMAIN rs /\ "expert" \in rs["AssessmentSet"]
           other == \/ "AssessmentSet" \in DOMAIN rs /\ ~expert
                    \/ {"EvidenceSource", "EvidenceLink"} \cap DOMAIN rs # {}
           new == Both(Both([t \in {"ProjectDefinitionVersion", "ProjectPublication",
                                    "ProjectWorkspace"} |->
                               IF t = "ProjectDefinitionVersion" THEN {"published"} ELSE {}],
                            Only(other, "LegacyCompatibilityReceipt", {})),
                       Both(Only(expert, "ExpertProfile", {}), Only(expert, "Experiment", {})))
<1>2. CASE "Project" \notin DOMAIN rs
  BY <1>1, <1>2 DEF IntoWorkspaces
<1>3. CASE "Project" \in DOMAIN rs
  <2>1. /\ {"ProjectDefinitionVersion", "ProjectPublication", "ProjectWorkspace"}
              \subseteq DOMAIN new
        /\ DOMAIN new \subseteq {"ProjectDefinitionVersion", "ProjectPublication",
                                 "ProjectWorkspace", "LegacyCompatibilityReceipt",
                                 "ExpertProfile", "Experiment"}
        /\ "Experiment" \in DOMAIN new =>
              "ExpertProfile" \in DOMAIN new /\ "AssessmentSet" \in DOMAIN rs
    OBVIOUS
  <2>2. \A t \in DOMAIN new : new[t] \subseteq {"published"}
    OBVIOUS
  <2> HIDE DEF new, Only, Both
  <2> DEFINE ms == Filled(rs, 2, new)
  <2>3. DOMAIN new \subseteq DOMAIN SchemaAt[2]
    BY <2>1, Levels, SchemaTables DEF FoundationTables, FactTables, PowerTables
  <2>4. \A t \in DOMAIN new : new[t] \subseteq ColumnsAt(2, t)
    BY <2>2 DEF ColumnsAt, FlagsAt
  <2>5. ASSUME NEW t \in DOMAIN new, NEW q \in Declared[t]
        PROVE  q.to \in DOMAIN rs \cup DOMAIN new
    <3>1. \A u \in {"ProjectDefinitionVersion", "ProjectPublication", "ProjectWorkspace",
                     "LegacyCompatibilityReceipt", "ExpertProfile", "Experiment"} :
             \A r \in Declared[u] :
                 \/ r.to \in {"Project", "ProjectWorkspace", "ProjectDefinitionVersion"}
                 \/ u = "Experiment" /\ r.to \in {"ExpertProfile", "AssessmentSet"}
      BY DEF Declared, ProjectDefinitionVersionTable, ProjectPublicationTable,
         ProjectWorkspaceTable, LegacyCompatibilityReceiptTable, ExpertProfileTable,
         ExperimentTable, InProject, Owned, Kept, Follows, Holds, MayHold, Reference
    <3> QED
      BY <1>3, <2>1, <3>1
  <2>6. Columned(ms, 2) /\ Keyed(ms)
    BY <1>1, <2>3, <2>4, <2>5, FilledShaped
  <2>7. DOMAIN ms = DOMAIN rs \cup DOMAIN new
    BY DEF Filled
  <2>8. Columned(Marked(ms, Rehoused, {"workspace"}), 2)
          /\ Keyed(Marked(ms, Rehoused, {"workspace"}))
    <3>1. \A t \in Rehoused : "workspace" \in ColumnsAt(2, t)
      BY Levels, Places, NamedColumn
    <3>2. \A t \in Rehoused : \A q \in Declared[t] :
             q.field = "workspace" => q.to = "ProjectWorkspace"
      BY DEF Rehoused, Declared, AssessmentSetTable, AuditEventTable, ParameterValueTable,
         TimeSliceTable, InProject, Owned, Follows, Holds, MayHold, Reference
    <3> HIDE DEF ms
    <3> QED
      BY <2>1, <2>6, <2>7, <3>1, <3>2, MarkedShaped
  <2>9. Marked(ms, Rehoused, {"workspace"})
          = Filled(Marked(rs, Rehoused, {"workspace"}), 2, new)
    <3>1. \A t \in DOMAIN new : t \notin Rehoused
      BY <2>1 DEF Rehoused
    <3> QED
      BY <3>1 DEF Marked, Filled
  <2>10. IntoWorkspaces(rs) = Filled(Marked(rs, Rehoused, {"workspace"}), 2, new)
    BY <1>3 DEF IntoWorkspaces, new
  <2> QED
    BY <2>8, <2>9, <2>10
<1> QED
  BY <1>2, <1>3

\* 0006
LEMMA StampedShaped ==
    ASSUME NEW rs, Columned(rs, 5), Keyed(rs), OnTheWay(rs, 5)
    PROVE  Columned(Stamped(rs), 6) /\ Keyed(Stamped(rs))
<1>1. Columned(rs, 6)
  BY ClimbKeyed
<1>2. \A t : {"stamped"} \subseteq ColumnsAt(6, t)
  BY DEF ColumnsAt, FlagsAt
<1>3. "stamped" \notin FieldNames
  BY DEF FieldNames
<1>4. \A t \in DOMAIN rs : \A q \in Declared[t] : q.field # "stamped"
  BY <1>1, <1>3, LevelsForetold, DeclaredToldApart DEF Columned, ToldApart
<1> QED
  BY <1>1, <1>2, <1>4, MarkedShaped DEF Stamped

\* A row in a workspace is there with all that the workspace refers to.
LEMMA WorkspaceComplete ==
    ASSUME NEW rs, Columned(rs, 13), Keyed(rs), NEW t \in DOMAIN rs, "workspace" \in rs[t],
           t \in {"AuditEvent", "ImportRun"}
    PROVE  {"Project", "ProjectWorkspace", "ProjectDefinitionVersion"} \subseteq DOMAIN rs
<1>1. MayHold("workspace", "ProjectWorkspace") \in Declared[t]
  BY DEF Declared, AuditEventTable, ImportRunTable
<1>2. /\ MayHold("workspace", "ProjectWorkspace").field = "workspace"
      /\ MayHold("workspace", "ProjectWorkspace").to = "ProjectWorkspace"
  BY DEF MayHold, Reference
<1>3. "ProjectWorkspace" \in DOMAIN rs
  BY <1>1, <1>2 DEF Keyed
<1>4. /\ InProject \in Declared["ProjectWorkspace"]
      /\ Holds("definition_version", "ProjectDefinitionVersion") \in Declared["ProjectWorkspace"]
  BY DEF Declared, ProjectWorkspaceTable
<1>5. /\ InProject.field = "project" /\ InProject.to = "Project" /\ InProject.needed
      /\ Holds("definition_version", "ProjectDefinitionVersion").field = "definition_version"
      /\ Holds("definition_version", "ProjectDefinitionVersion").to = "ProjectDefinitionVersion"
      /\ Holds("definition_version", "ProjectDefinitionVersion").needed
  BY DEF InProject, Follows, Holds, Reference
<1>6. {"project", "definition_version"} \subseteq Needed(Studio, "ProjectWorkspace")
  <2>1. /\ <<"ProjectWorkspace", InProject>> \in FoundationReferences
        /\ <<"ProjectWorkspace", Holds("definition_version", "ProjectDefinitionVersion")>>
              \in FoundationReferences
    BY DEF FoundationReferences, PowerReferences, Each
  <2>2. /\ Named(Studio, "ProjectWorkspace", "project")
        /\ Named(Studio, "ProjectWorkspace", "definition_version")
    BY <1>5, <2>1, NamesWritten, NamesGrow DEF NamesOf
  <2>3. \A r \in Studio["ProjectWorkspace"] : r \in Declared["ProjectWorkspace"]
    BY <2>2, SchemasForetold DEF Foretold, Told, Settled, Named
  <2>4. \A r \in Declared["ProjectWorkspace"] : r.needed
    BY DEF Declared, ProjectWorkspaceTable, InProject, Follows, Holds, Reference
  <2> QED
    BY <2>2, <2>3, <2>4 DEF Named, Needed
<1>7. {"project", "definition_version"} \subseteq rs["ProjectWorkspace"]
  BY <1>3, <1>6, Levels DEF Columned
<1> QED
  BY <1>3, <1>4, <1>5, <1>7 DEF Keyed

\* 0014
LEMMA ScopedShaped ==
    ASSUME NEW rs, Columned(rs, 13), Keyed(rs), OnTheWay(rs, 13)
    PROVE  Columned(Scoped(rs), 14) /\ Keyed(Scoped(rs))
<1>1. Columned(rs, 14)
  BY ClimbKeyed
<1> DEFINE clear == Cleared(rs, {"AuditEvent"}, {"definition", "definition_version"})
           scoped == Marked(clear, {"ImportRun"}, {"project", "definition_version"})
           studio == "HelpTopic" \in DOMAIN rs /\ "studio" \in rs["HelpTopic"]
           global == IF studio THEN {"global"} ELSE {}
<1>2. Columned(clear, 14) /\ Keyed(clear)
  <2>1. {"definition", "definition_version"} \cap Needed(Studio, "AuditEvent") = {}
    <3>1. "AuditEvent" \in DOMAIN Studio
      BY Places DEF Named
    <3>2. \A r \in Studio["AuditEvent"] : r \in Declared["AuditEvent"]
      BY <3>1, SchemasForetold DEF Foretold, Told, Settled
    <3>3. \A r \in Declared["AuditEvent"] :
             r.needed => r.field \notin {"definition", "definition_version"}
      BY DEF Declared, AuditEventTable, Holds, MayHold, Reference
    <3> QED
      BY <3>2, <3>3 DEF Needed
  <2> QED
    BY <1>1, <2>1, ClearedShaped, Levels
<1>3. DOMAIN clear = DOMAIN rs
  BY ClearedDomain
<1> HIDE DEF clear
<1>4. Columned(scoped, 14) /\ Keyed(scoped)
  <2>1. {"project", "definition_version"} \subseteq ColumnsAt(14, "ImportRun")
    BY Places, Levels, NamedColumn
  <2>2. \A q \in Declared["ImportRun"] : q.field \in {"project", "definition_version"} =>
           q.to \in {"Project", "ProjectDefinitionVersion"}
    BY DEF Declared, ImportRunTable, Holds, MayHold, Reference
  <2>3. "ImportRun" \in DOMAIN rs =>
           {"Project", "ProjectDefinitionVersion"} \subseteq DOMAIN rs
    BY WorkspaceComplete DEF OnTheWay
  <2> QED
    BY <1>2, <1>3, <2>1, <2>2, <2>3, MarkedShaped
<1> HIDE DEF scoped
<1>5. global \subseteq {"global"}
  OBVIOUS
<1>6. Scoped(rs) = Marked(scoped, {"UIHelpBinding"}, global)
  BY DEF Scoped, scoped, clear
<1> HIDE DEF global
<1>7. Columned(Marked(scoped, {"UIHelpBinding"}, global), 14)
        /\ Keyed(Marked(scoped, {"UIHelpBinding"}, global))
  <2>1. {"global"} \subseteq ColumnsAt(14, "UIHelpBinding")
    BY DEF ColumnsAt, FlagsAt
  <2>2. \A q \in Declared["UIHelpBinding"] : q.field # "global"
    BY DEF Declared, UIHelpBindingTable, Holds, MayHold, Reference
  <2>3. \A t \in {"UIHelpBinding"} \cap DOMAIN scoped :
           /\ global \subseteq ColumnsAt(14, t)
           /\ \A q \in Declared[t] : q.field \in global => q.to \in DOMAIN scoped
    BY <1>5, <2>1, <2>2
  <2> QED
    BY <1>4, <2>3, MarkedShaped
<1> QED
  BY <1>6, <1>7

\* 0016
LEMMA LanguageShaped ==
    ASSUME NEW rs, Columned(rs, 15), Keyed(rs), OnTheWay(rs, 15)
    PROVE  Columned(WithLanguage(rs), 16) /\ Keyed(WithLanguage(rs))
<1>1. Columned(rs, 16)
  BY ClimbKeyed
<1> DEFINE marks == {"language"} \cup IF "Project" \in DOMAIN rs /\ "demo" \in rs["Project"]
                                      THEN {"explicit"} ELSE {}
<1>2. marks \subseteq ColumnsAt(16, "Project")
  BY DEF ColumnsAt, FlagsAt
<1>3. Declared["Project"] = {}
  BY DEF Declared, ProjectTable
<1>4. WithLanguage(rs) = Marked(rs, {"Project"}, marks)
  BY DEF WithLanguage
<1> HIDE DEF marks
<1> QED
  BY <1>1, <1>2, <1>3, <1>4, MarkedShaped

\* 0017
LEMMA VariantsShaped ==
    ASSUME NEW rs, Columned(rs, 16), Keyed(rs), OnTheWay(rs, 16), ~Unprovable(rs)
    PROVE  Columned(WithVariants(rs), 17) /\ Keyed(WithVariants(rs))
<1>1. Columned(rs, 17)
  BY ClimbKeyed
<1> DEFINE new == Only("DocumentContent" \in DOMAIN rs, "DocumentContentVariant",
                       {"document_content"})
           exacts == {t \in DOMAIN rs : t = "TextFragment" /\ "exact" \in rs[t]}
           filled == Filled(rs, 17, new)
           rooted == Marked(filled, {"Document"}, {"rooted"})
<1>2. /\ DOMAIN new \subseteq {"DocumentContentVariant"}
      /\ \A t \in DOMAIN new : new[t] = {"document_content"} /\ "DocumentContent" \in DOMAIN rs
      /\ "DocumentContent" \in DOMAIN rs => "DocumentContentVariant" \in DOMAIN new
  BY DEF Only
<1>3. "DocumentContent" \in DOMAIN rs => {"ProjectWorkspace", "DocumentVersion"} \subseteq DOMAIN rs
  <2> SUFFICES ASSUME "DocumentContent" \in DOMAIN rs
               PROVE  {"ProjectWorkspace", "DocumentVersion"} \subseteq DOMAIN rs
    OBVIOUS
  <2> DEFINE version == Holds("document_version", "DocumentVersion")
  <2>1. /\ <<"DocumentContent", Kept>> \in RestrictingReferences
        /\ <<"DocumentContent", version>> \in FoundationReferences
    BY DEF FoundationReferences, ActorReferences, RestrictingReferences, KeptTables, Each
  <2>2. /\ Kept.field = "workspace" /\ Kept.to = "ProjectWorkspace"
        /\ version.field = "document_version" /\ version.to = "DocumentVersion"
    BY DEF Kept, Holds, Reference
  <2>3. Kept \in Declared["DocumentContent"] /\ version \in Declared["DocumentContent"]
    BY DEF Declared, DocumentContentTable
  <2> HIDE DEF version
  <2>4. /\ Named(Bounded, "DocumentContent", "workspace")
        /\ Named(Bounded, "DocumentContent", "document_version")
    BY <2>1, <2>2, NamesWritten, NamesGrow DEF NamesOf
  <2>5. \A r \in Bounded["DocumentContent"] : r \in Declared["DocumentContent"]
    BY <2>4, SchemasForetold DEF Foretold, Told, Settled, Named
  <2>6. \A r \in Declared["DocumentContent"] : r.needed
    BY DEF Declared, DocumentContentTable, Kept, Holds, Reference
  <2>7. {"workspace", "document_version"} \subseteq Needed(Bounded, "DocumentContent")
    BY <2>4, <2>5, <2>6 DEF Named, Needed
  <2>8. {"workspace", "document_version"} \subseteq rs["DocumentContent"]
    BY <2>7, Levels DEF Columned
  <2> QED
    BY <2>2, <2>3, <2>8 DEF Keyed
<1> HIDE DEF new
<1>4. Columned(filled, 17) /\ Keyed(filled)
  <2>1. DOMAIN new \subseteq DOMAIN SchemaAt[17]
    BY <1>2, Levels, Places DEF Named
  <2>2. \A t \in DOMAIN new : new[t] \subseteq ColumnsAt(17, t)
    BY <1>2, Levels, Places, NamedColumn
  <2>3. \A q \in Declared["DocumentContentVariant"] :
           q.to \in {"ProjectWorkspace", "DocumentVersion", "DocumentContent"}
    BY DEF Declared, DocumentContentVariantTable, Kept, Holds, MayHold, Reference
  <2> QED
    BY <1>1, <1>2, <1>3, <2>1, <2>2, <2>3, FilledShaped
<1>5. DOMAIN filled = DOMAIN rs \cup DOMAIN new
  BY DEF Filled
<1> HIDE DEF filled
<1>6. Columned(rooted, 17) /\ Keyed(rooted) /\ DOMAIN rooted = DOMAIN filled
  <2>1. {"rooted"} \subseteq ColumnsAt(17, "Document")
    BY DEF ColumnsAt, FlagsAt
  <2>2. \A q \in Declared["Document"] : q.field # "rooted"
    BY DEF Declared, DocumentTable, Owned, Follows, Holds, Reference
  <2> QED
    BY <1>4, <2>1, <2>2, MarkedShaped, MarkedDomain
<1> HIDE DEF rooted
<1>7. Columned(Marked(rooted, exacts, {"content_variant"}), 17)
        /\ Keyed(Marked(rooted, exacts, {"content_variant"}))
  <2>1. exacts # {} => "DocumentContentVariant" \in DOMAIN rooted
    BY <1>2, <1>5, <1>6 DEF Unprovable
  <2>2. exacts \subseteq {"TextFragment"}
    OBVIOUS
  <2> HIDE DEF exacts
  <2>3. "content_variant" \in ColumnsAt(17, "TextFragment")
    BY Places, Levels, NamedColumn
  <2>4. \A q \in Declared["TextFragment"] :
           q.field = "content_variant" => q.to = "DocumentContentVariant"
    BY DEF Declared, TextFragmentTable, Kept, Holds, MayHold, Reference
  <2>5. \A t \in exacts \cap DOMAIN rooted :
           /\ {"content_variant"} \subseteq ColumnsAt(17, t)
           /\ \A q \in Declared[t] : q.field \in {"content_variant"} => q.to \in DOMAIN rooted
    BY <2>1, <2>2, <2>3, <2>4
  <2> QED
    BY <1>6, <2>5, MarkedShaped
<1>8. Marked(rooted, exacts, {"content_variant"})
        = Filled(Marked(Marked(rs, {"Document"}, {"rooted"}), exacts, {"content_variant"}), 17, new)
  BY <1>2 DEF Marked, Filled, rooted, filled
<1> QED
  BY <1>7, <1>8 DEF WithVariants, new

LEMMA ForwardShaped ==
    ASSUME NEW n \in 2..22, NEW rs, Shaped(rs, n - 1), OnTheWay(rs, n - 1),
           n = 17 => ~Unprovable(rs)
    PROVE  Shaped(Forward(rs, n), n)
<1>1. Columned(rs, n - 1) /\ Keyed(rs)
  BY ShapedIsKeyed
<1>2. CASE n = 2
  BY <1>1, <1>2, HousedShaped, ShapedIsKeyed DEF Forward
<1>3. CASE n = 6
  BY <1>1, <1>3, StampedShaped, ShapedIsKeyed DEF Forward
<1>4. CASE n = 14
  BY <1>1, <1>4, ScopedShaped, ShapedIsKeyed DEF Forward
<1>5. CASE n = 16
  BY <1>1, <1>5, LanguageShaped, ShapedIsKeyed DEF Forward
<1>6. CASE n = 17
  BY <1>1, <1>6, VariantsShaped, ShapedIsKeyed DEF Forward
<1>7. CASE n \notin {2, 6, 14, 16, 17}
  <2>1. Forward(rs, n) = rs
    BY <1>7 DEF Forward
  <2>2. n = 15 /\ "ImportRun" \in DOMAIN rs => "project" \in rs["ImportRun"]
    BY DEF OnTheWay
  <2>3. Columned(rs, n)
    BY <1>1, <2>2, ClimbKeyed
  <2> QED
    BY <1>1, <2>1, <2>3, ShapedIsKeyed
<1> QED
  BY <1>2, <1>3, <1>4, <1>5, <1>6, <1>7

\* What an import was into is told from the tenth migration on.
LEMMA NoTargetsBefore ==
    ~Named(Restricting, "ImportRun", "target_experiment")
      /\ ~Named(Restricting, "ImportRun", "target_assessment_set")
<1> DEFINE Targets == {"target_experiment", "target_assessment_set"}
           Untold(s) == \A f \in Targets : ~Named(s, "ImportRun", f)
<1>1. ASSUME NEW s, NEW new, NEW changes, Untold(s),
             \A c \in changes : c[1] = "ImportRun" => c[2].field \notin Targets
      PROVE  Untold(Altered(s, new, changes))
  BY <1>1 DEF Named, Altered
<1>2. Untold(Initial)
  BY SchemaTables DEF Named, InitialTables, InitialValueTables, InitialLogTables,
     InitialScenarioTables
<1>3. Untold(Foundation)
  <2>1. \A c \in FoundationReferences : c[1] = "ImportRun" => c[2].field \notin Targets
    BY DEF FoundationReferences, ActorReferences, PowerReferences, WorkspaceReferences,
           SourceReferences, Rehoused, Each, Owned, Follows, Reference
  <2> QED
    BY <1>1, <1>2, <2>1 DEF Foundation
<1>4. Untold(Required)
  <2>1. \A c \in RequiredReferences : c[1] # "ImportRun"
    BY DEF RequiredReferences, Rehoused, Each
  <2> QED
    BY <1>1, <1>3, <2>1 DEF Required
<1>5. Untold(Completed)
  <2>1. \A c \in CompletedReferences : c[1] # "ImportRun"
    BY DEF CompletedReferences, TermTables, Each
  <2> QED
    BY <1>1, <1>4, <2>1 DEF Completed
<1>6. Untold(Restricting)
  <2>1. \A c \in RestrictingReferences : c[1] = "ImportRun" => c[2].field \notin Targets
    BY DEF RestrictingReferences, Each, Kept, Holds, Reference
  <2> QED
    BY <1>1, <1>5, <2>1 DEF Restricting
<1> QED
  BY <1>6

LEMMA NoColumn ==
    ASSUME NEW n \in 1..22, NEW t \in DOMAIN SchemaAt[n], NEW f, ~Named(SchemaAt[n], t, f),
           f \notin FlagsAt(n)
    PROVE  f \notin ColumnsAt(n, t)
  BY DEF Named, ColumnsAt

\* Migrations that write nothing: each check follows from that before, or from
\* what is true on the way, but for the three that can be stuck.
LEMMA CheckedStep ==
    ASSUME NEW n \in 2..22, n \notin {2, 6, 14, 16, 17}, NEW rs, Fits(rs, n - 1),
           OnTheWay(rs, n - 1), ~Stuck(rs, n)
    PROVE  Checked(rs, n)
<1> SUFFICES ASSUME NEW t \in DOMAIN rs
             PROVE  /\ t = "ChatCitation" => CitationFits(rs[t], n)
                    /\ t = "ProjectDefinitionVersion" => DefinitionFits(rs[t], n)
                    /\ t = "ProjectPublication" => PublicationFits(rs[t], n)
                    /\ t = "ParameterValue" => ValueFits(rs[t], n)
                    /\ t = "AuditEvent" => AuditFits(rs[t], n)
                    /\ t = "ImportRun" => ImportFits(rs[t], n)
                    /\ t = "UIHelpBinding" => BindingFits(rs[t], n)
                    /\ t = "Project" => ProjectFits(rs[t], n)
  BY DEF Checked
<1>1. Checked(rs, n - 1) /\ Columned(rs, n - 1)
  BY ShapedIsKeyed DEF Fits
<1>2. t = "ChatCitation" => CitationFits(rs[t], n)
  <2> SUFFICES ASSUME t = "ChatCitation" PROVE CitationFits(rs[t], n)
    OBVIOUS
  <2>1. CitationFits(rs[t], n - 1)
    BY <1>1 DEF Checked
  <2>2. n \notin 3..5
    BY DEF OnTheWay
  <2>3. n \in 7..10 \/ n \in 11..22
    BY <2>2
  <2> QED
    BY <2>1, <2>3 DEF CitationFits
<1>3. t = "ProjectDefinitionVersion" => DefinitionFits(rs[t], n)
  BY <1>1 DEF Checked, DefinitionFits
<1>4. t = "ProjectPublication" => PublicationFits(rs[t], n)
  BY <1>1 DEF Checked, PublicationFits
<1>5. t = "ParameterValue" => ValueFits(rs[t], n)
  BY <1>1 DEF Checked, ValueFits, Stuck
<1>6. t = "AuditEvent" => AuditFits(rs[t], n)
  BY <1>1 DEF Checked, AuditFits, OnTheWay
<1>7. t = "ImportRun" => ImportFits(rs[t], n)
  <2> SUFFICES ASSUME t = "ImportRun" PROVE ImportFits(rs[t], n)
    OBVIOUS
  <2>1. ImportFits(rs[t], n - 1)
    BY <1>1 DEF Checked
  <2>2. n = 10 => {"target_experiment", "target_assessment_set"} \cap rs[t] = {}
    <3> SUFFICES ASSUME n = 10
                 PROVE  {"target_experiment", "target_assessment_set"} \cap rs[t] = {}
      OBVIOUS
    <3>1. {"target_experiment", "target_assessment_set"} \cap FlagsAt(9) = {}
      BY DEF FlagsAt
    <3>2. rs[t] \subseteq ColumnsAt(9, t) /\ t \in DOMAIN SchemaAt[9]
      BY <1>1 DEF Columned
    <3> QED
      BY <3>1, <3>2, NoTargetsBefore, NoColumn, Levels
  <2>3. n = 15 => {"workspace", "definition_version"} \subseteq rs[t] /\ "package" \notin rs[t]
    BY DEF OnTheWay
  <2> QED
    BY <2>1, <2>2, <2>3 DEF ImportFits
<1>8. t = "UIHelpBinding" => BindingFits(rs[t], n)
  BY <1>1 DEF Checked, BindingFits, OnTheWay
<1>9. t = "Project" => ProjectFits(rs[t], n)
  BY <1>1 DEF Checked, ProjectFits
<1> QED
  BY <1>2, <1>3, <1>4, <1>5, <1>6, <1>7, <1>8, <1>9

\* A row that a migration only adds something to that no check is about.
LEMMA CheckedOf ==
    ASSUME NEW n \in 1..22, NEW m \in 1..22, NEW rs, NEW us, Checked(rs, m),
           \A t \in DOMAIN us :
               /\ t = "ChatCitation" =>
                     t \in DOMAIN rs /\ (CitationFits(rs[t], m) => CitationFits(us[t], n))
               /\ t = "ProjectDefinitionVersion" => DefinitionFits(us[t], n)
               /\ t = "ProjectPublication" => PublicationFits(us[t], n)
               /\ t = "ParameterValue" =>
                     t \in DOMAIN rs /\ (ValueFits(rs[t], m) => ValueFits(us[t], n))
               /\ t = "AuditEvent" =>
                     t \in DOMAIN rs /\ (AuditFits(rs[t], m) => AuditFits(us[t], n))
               /\ t = "ImportRun" =>
                     t \in DOMAIN rs /\ (ImportFits(rs[t], m) => ImportFits(us[t], n))
               /\ t = "UIHelpBinding" =>
                     t \in DOMAIN rs /\ (BindingFits(rs[t], m) => BindingFits(us[t], n))
               /\ t = "Project" => ProjectFits(us[t], n)
    PROVE  Checked(us, n)
  BY DEF Checked

LEMMA HousedChecked ==
    ASSUME NEW rs, Fits(rs, 1)
    PROVE  Checked(IntoWorkspaces(rs), 2)
<1>1. Checked(rs, 1) /\ Columned(rs, 1)
  BY ShapedIsKeyed DEF Fits
<1> DEFINE us == IntoWorkspaces(rs)
<1>2. ASSUME NEW t \in DOMAIN us, t \in {"ChatCitation", "ParameterValue", "AuditEvent",
                                         "ImportRun", "UIHelpBinding"}
      PROVE  t \in DOMAIN rs /\ us[t] \in {rs[t], rs[t] \cup {"workspace"}}
  BY <1>2 DEF IntoWorkspaces, Only, Both, Filled, Marked
<1> HIDE DEF us
<1>3. "ChatCitation" \notin DOMAIN us
  <2>1. "ChatCitation" \notin DOMAIN Initial
    BY SchemaTables DEF InitialTables, InitialValueTables, InitialLogTables,
       InitialScenarioTables
  <2> QED
    BY <1>1, <1>2, <2>1, Levels DEF Columned
<1>4. ASSUME NEW t \in DOMAIN us
      PROVE  /\ t = "ParameterValue" =>
                   t \in DOMAIN rs /\ (ValueFits(rs[t], 1) => ValueFits(us[t], 2))
             /\ t \in {"AuditEvent", "ImportRun", "UIHelpBinding"} => t \in DOMAIN rs
  BY <1>2, <1>4 DEF ValueFits
<1>5. \A marks : /\ DefinitionFits(marks, 2) /\ PublicationFits(marks, 2)
                 /\ AuditFits(marks, 2) /\ ImportFits(marks, 2) /\ BindingFits(marks, 2)
                 /\ ProjectFits(marks, 2)
  BY DEF DefinitionFits, PublicationFits, AuditFits, ImportFits, BindingFits, ProjectFits
<1>6. Checked(us, 2)
  BY <1>1, <1>3, <1>4, <1>5, CheckedOf
<1> QED
  BY <1>6 DEF us

LEMMA StampedChecked ==
    ASSUME NEW rs, Fits(rs, 5), OnTheWay(rs, 5)
    PROVE  Checked(Stamped(rs), 6) <=> ~Stuck(rs, 6)
<1> DEFINE us == Stamped(rs)
<1>1. Checked(rs, 5) /\ DOMAIN us = DOMAIN rs
  BY MarkedDomain DEF Fits, Stamped
<1>2. \A t \in DOMAIN rs :
         us[t] = IF t = "ProjectPublication"
                      \/ (t = "ProjectDefinitionVersion" /\ "published" \in rs[t])
                 THEN rs[t] \cup {"stamped"} ELSE rs[t]
  BY DEF Stamped, Marked
<1> HIDE DEF us
<1>3. ASSUME NEW t \in DOMAIN rs, t = "ProjectDefinitionVersion"
      PROVE  DefinitionFits(us[t], 6) <=> ~Stuck(rs, 6)
  <2>1. OneKind(rs[t]) /\ ~({"draft", "stamped"} \subseteq rs[t])
    BY <1>3 DEF OnTheWay
  <2>2. Stuck(rs, 6) <=> "validated" \in rs[t] /\ "stamped" \notin rs[t]
    BY <1>3 DEF Stuck
  <2>3. us[t] = IF "published" \in rs[t] THEN rs[t] \cup {"stamped"} ELSE rs[t]
    BY <1>2, <1>3
  <2>4. DefinitionFits(us[t], 6) <=> ("draft" \in us[t] <=> "stamped" \notin us[t])
    BY DEF DefinitionFits
  <2>5. CASE "published" \in rs[t]
    BY <2>1, <2>2, <2>3, <2>4, <2>5 DEF OneKind
  <2>6. CASE "published" \notin rs[t]
    <3>1. us[t] = rs[t]
      BY <2>3, <2>6
    <3>2. \/ "draft" \in rs[t] /\ "validated" \notin rs[t]
          \/ "draft" \notin rs[t] /\ "validated" \in rs[t]
      BY <2>1, <2>6 DEF OneKind
    <3> QED
      BY <2>1, <2>2, <2>4, <3>1, <3>2
  <2> QED
    BY <2>5, <2>6
<1>4. ASSUME Stuck(rs, 6) PROVE ~Checked(us, 6)
  <2>1. "ProjectDefinitionVersion" \in DOMAIN rs
    BY <1>4 DEF Stuck
  <2> QED
    BY <1>1, <1>3, <1>4, <2>1 DEF Checked
<1>5. ASSUME ~Stuck(rs, 6) PROVE Checked(us, 6)
  <2> SUFFICES ASSUME NEW t \in DOMAIN us
               PROVE  /\ t = "ChatCitation" =>
                            t \in DOMAIN rs /\ (CitationFits(rs[t], 5) => CitationFits(us[t], 6))
                      /\ t = "ProjectDefinitionVersion" => DefinitionFits(us[t], 6)
                      /\ t = "ProjectPublication" => PublicationFits(us[t], 6)
                      /\ t = "ParameterValue" =>
                            t \in DOMAIN rs /\ (ValueFits(rs[t], 5) => ValueFits(us[t], 6))
                      /\ t \in DOMAIN rs
    BY <1>1, CheckedOf DEF AuditFits, ImportFits, BindingFits, ProjectFits
  <2>1. t = "ProjectPublication" => PublicationFits(us[t], 6)
    BY <1>1, <1>2 DEF PublicationFits
  <2>2. t \notin {"ProjectPublication", "ProjectDefinitionVersion"} => us[t] = rs[t]
    BY <1>1, <1>2
  <2>3. \A marks : /\ CitationFits(marks, 5) => CitationFits(marks, 6)
                   /\ ValueFits(marks, 5) => ValueFits(marks, 6)
    BY DEF CitationFits, ValueFits
  <2> QED
    BY <1>1, <1>3, <1>5, <2>1, <2>2, <2>3
<1> QED
  BY <1>4, <1>5 DEF us

LEMMA ScopedChecked ==
    ASSUME NEW rs, Checked(rs, 13)
    PROVE  Checked(Scoped(rs), 14)
<1> DEFINE us == Scoped(rs)
<1>1. DOMAIN us = DOMAIN rs
  BY MarkedDomain, ClearedDomain DEF Scoped
<1>2. \A t \in DOMAIN rs :
         /\ t \notin {"AuditEvent", "ImportRun", "UIHelpBinding"} => us[t] = rs[t]
         /\ t = "ImportRun" => us[t] = rs[t] \cup {"project", "definition_version"}
  BY DEF Scoped, Marked, Cleared
<1> HIDE DEF us
<1>3. \A marks : /\ CitationFits(marks, 13) => CitationFits(marks, 14)
                 /\ DefinitionFits(marks, 13) => DefinitionFits(marks, 14)
                 /\ PublicationFits(marks, 13) => PublicationFits(marks, 14)
                 /\ ValueFits(marks, 13) => ValueFits(marks, 14)
                 /\ AuditFits(marks, 14) /\ BindingFits(marks, 14) /\ ProjectFits(marks, 14)
                 /\ ImportFits(marks, 13) =>
                       ImportFits(marks \cup {"project", "definition_version"}, 14)
  BY DEF CitationFits, DefinitionFits, PublicationFits, ValueFits, AuditFits, BindingFits,
         ProjectFits, ImportFits
<1>4. Checked(us, 14)
  <2> USE DEF Checked
  <2> SUFFICES ASSUME NEW t \in DOMAIN rs
               PROVE  /\ t = "ChatCitation" => CitationFits(us[t], 14)
                      /\ t = "ProjectDefinitionVersion" => DefinitionFits(us[t], 14)
                      /\ t = "ProjectPublication" => PublicationFits(us[t], 14)
                      /\ t = "ParameterValue" => ValueFits(us[t], 14)
                      /\ t = "AuditEvent" => AuditFits(us[t], 14)
                      /\ t = "ImportRun" => ImportFits(us[t], 14)
                      /\ t = "UIHelpBinding" => BindingFits(us[t], 14)
                      /\ t = "Project" => ProjectFits(us[t], 14)
    BY <1>1
  <2>1. CASE t \in {"AuditEvent", "UIHelpBinding"}
    BY <1>3, <2>1
  <2>2. CASE t = "ImportRun"
    BY <1>2, <1>3, <2>2
  <2>3. CASE t \notin {"AuditEvent", "ImportRun", "UIHelpBinding"}
    <3>1. us[t] = rs[t]
      BY <1>2, <2>3
    <3> QED
      BY <1>3, <2>3, <3>1
  <2> QED
    BY <2>1, <2>2, <2>3
<1> QED
  BY <1>4 DEF us

LEMMA LanguageChecked ==
    ASSUME NEW rs, Checked(rs, 15)
    PROVE  Checked(WithLanguage(rs), 16)
<1> DEFINE us == WithLanguage(rs)
<1>1. DOMAIN us = DOMAIN rs
  BY MarkedDomain DEF WithLanguage
<1>2. \A t \in DOMAIN rs :
         /\ t # "Project" => us[t] = rs[t]
         /\ t = "Project" => "language" \in us[t]
  BY DEF WithLanguage, Marked
<1> HIDE DEF us
<1>3. \A marks : /\ CitationFits(marks, 15) => CitationFits(marks, 16)
                 /\ DefinitionFits(marks, 15) => DefinitionFits(marks, 16)
                 /\ PublicationFits(marks, 15) => PublicationFits(marks, 16)
                 /\ ValueFits(marks, 15) => ValueFits(marks, 16)
                 /\ AuditFits(marks, 15) => AuditFits(marks, 16)
                 /\ BindingFits(marks, 15) => BindingFits(marks, 16)
                 /\ ImportFits(marks, 15) => ImportFits(marks, 16)
  BY DEF CitationFits, DefinitionFits, PublicationFits, ValueFits, AuditFits, BindingFits,
         ImportFits
<1>4. Checked(us, 16)
  BY <1>1, <1>2, <1>3 DEF Checked, ProjectFits
<1> QED
  BY <1>4 DEF us

LEMMA VariantsChecked ==
    ASSUME NEW rs, Checked(rs, 16)
    PROVE  Checked(WithVariants(rs), 17)
<1> DEFINE us == WithVariants(rs)
<1>1. \A t \in DOMAIN us : t \notin {"Document", "TextFragment", "DocumentContentVariant"} =>
         t \in DOMAIN rs /\ us[t] = rs[t]
  BY DEF WithVariants, Marked, Filled, Only
<1> HIDE DEF us
<1>2. \A marks : /\ CitationFits(marks, 16) => CitationFits(marks, 17)
                 /\ DefinitionFits(marks, 16) => DefinitionFits(marks, 17)
                 /\ PublicationFits(marks, 16) => PublicationFits(marks, 17)
                 /\ ValueFits(marks, 16) => ValueFits(marks, 17)
                 /\ AuditFits(marks, 16) => AuditFits(marks, 17)
                 /\ BindingFits(marks, 16) => BindingFits(marks, 17)
                 /\ ImportFits(marks, 16) => ImportFits(marks, 17)
                 /\ ProjectFits(marks, 16) => ProjectFits(marks, 17)
  BY DEF CitationFits, DefinitionFits, PublicationFits, ValueFits, AuditFits, BindingFits,
         ImportFits, ProjectFits
<1>3. Checked(us, 17)
  BY <1>1, <1>2 DEF Checked
<1> QED
  BY <1>3 DEF us

\* What can be stuck is all that can.
LEMMA UpgradeStuck ==
    ASSUME NEW n \in 2..22, NEW rs, Fits(rs, n - 1), OnTheWay(rs, n - 1)
    PROVE  CanUpgrade(rs, n) <=> ~Stuck(rs, n)
<1>1. Shaped(rs, n - 1) /\ Checked(rs, n - 1)
  BY DEF Fits
<1>2. n # 17 => Shaped(Forward(rs, n), n)
  BY <1>1, ForwardShaped
<1>3. CASE n = 2
  <2>1. Checked(Forward(rs, n), n)
    BY <1>3, HousedChecked DEF Forward
  <2> QED
    BY <1>2, <1>3, <2>1 DEF CanUpgrade, Fits, Stuck
<1>4. CASE n = 6
  <2>1. Checked(Forward(rs, n), n) <=> ~Stuck(rs, n)
    BY <1>4, StampedChecked DEF Forward
  <2> QED
    BY <1>2, <1>4, <2>1 DEF CanUpgrade, Fits
<1>5. CASE n = 14
  <2>1. Checked(Forward(rs, n), n)
    BY <1>1, <1>5, ScopedChecked DEF Forward
  <2>2. Placed(rs)
    BY <1>5 DEF Placed, OnTheWay
  <2> QED
    BY <1>2, <1>5, <2>1, <2>2 DEF CanUpgrade, Fits, Stuck
<1>6. CASE n = 16
  <2>1. Checked(Forward(rs, n), n)
    BY <1>1, <1>6, LanguageChecked DEF Forward
  <2> QED
    BY <1>2, <1>6, <2>1 DEF CanUpgrade, Fits, Stuck
<1>7. CASE n = 17
  <2>1. Checked(Forward(rs, n), n)
    BY <1>1, <1>7, VariantsChecked DEF Forward
  <2>2. ~Unprovable(rs) => Shaped(Forward(rs, n), n)
    BY <1>1, ForwardShaped
  <2> QED
    BY <1>7, <2>1, <2>2 DEF CanUpgrade, Fits, Stuck
<1>8. CASE n \notin {2, 6, 14, 16, 17}
  <2>1. Forward(rs, n) = rs
    BY <1>8 DEF Forward
  <2>2. CanUpgrade(rs, n) <=> Checked(rs, n)
    BY <1>2, <1>8, <2>1 DEF CanUpgrade, Fits
  <2>3. ~Stuck(rs, n) => Checked(rs, n)
    BY <1>8, CheckedStep
  <2>4. Stuck(rs, n) => ~Checked(rs, n)
    BY <1>8 DEF Stuck, Checked, ValueFits
  <2> QED
    BY <2>2, <2>3, <2>4
<1> QED
  BY <1>3, <1>4, <1>5, <1>6, <1>7, <1>8

\* At the end a reference holds what it points to, or follows it from below.
Depth(t) ==
    IF t = "Project" THEN 0
    ELSE IF t = "ProjectWorkspace" THEN 1
    ELSE IF t \in {"ParameterValue", "Scenario", "Actor", "AnalyticalElement", "PowerProfile"}
         THEN 2 ELSE 3

Hangs(d, R) ==
    \A q \in R : q.policy = "RESTRICT" \/ (q.policy = "CASCADE" /\ Depth(q.to) < d)

LEMMA DeclaredHangs == \A t \in DOMAIN Declared : Hangs(Depth(t), Declared[t])
<1> USE DEF Reference, Follows, MayFollow, Holds, MayHold, InProject, Owned, Kept, Hangs, Depth
<1>1. /\ Hangs(0, ProjectTable) /\ Hangs(1, ProjectWorkspaceTable)
      /\ Hangs(2, ParameterValueTable) /\ Hangs(2, ScenarioTable) /\ Hangs(2, ActorTable)
      /\ Hangs(2, AnalyticalElementTable) /\ Hangs(2, PowerProfileTable)
  BY DEF ProjectTable, ProjectWorkspaceTable, ParameterValueTable, ScenarioTable, ActorTable,
         AnalyticalElementTable, PowerProfileTable
<1>2. /\ Hangs(3, ProjectSchemaVersionTable)
      /\ Hangs(3, ProjectLockTable) /\ Hangs(3, TensionPointTable)
      /\ Hangs(3, ParticipantGroupTable) /\ Hangs(3, GroupTensionRelationTable)
      /\ Hangs(3, ParameterDefinitionTable) /\ Hangs(3, EvidenceSourceTable)
      /\ Hangs(3, EvidenceLinkTable) /\ Hangs(3, FactCategoryTable)
      /\ Hangs(3, CalculationStrategyDefinitionTable)
      /\ Hangs(3, ScenarioOverrideTable)
      /\ Hangs(3, ProjectDefinitionVersionTable) /\ Hangs(3, ProjectPublicationTable)
      /\ Hangs(3, ImportRunTable)
      /\ Hangs(3, LegacyCompatibilityReceiptTable) /\ Hangs(3, AuditEventTable)
      /\ Hangs(3, TimeSliceTable)
      /\ Hangs(3, ActorRelationTable) /\ Hangs(3, ActorElementRoleTable)
      /\ Hangs(3, AssessmentSetTable) /\ Hangs(3, ExpertProfileTable)
      /\ Hangs(3, ExperimentTable) /\ Hangs(3, ActorElementAssessmentTable)
      /\ Hangs(3, PowerComponentTable) /\ Hangs(3, DataGapTable)
  BY DEF ProjectSchemaVersionTable, ProjectLockTable, TensionPointTable,
         ParticipantGroupTable, GroupTensionRelationTable, ParameterDefinitionTable,
         EvidenceSourceTable, EvidenceLinkTable, FactCategoryTable,
         CalculationStrategyDefinitionTable, ScenarioOverrideTable,
         ProjectDefinitionVersionTable, ProjectPublicationTable,
         ImportRunTable, LegacyCompatibilityReceiptTable, AuditEventTable, TimeSliceTable,
         ActorRelationTable, ActorElementRoleTable,
         AssessmentSetTable, ExpertProfileTable, ExperimentTable, ActorElementAssessmentTable,
         PowerComponentTable, DataGapTable
<1>3. /\ Hangs(3, SourceTable) /\ Hangs(3, DocumentTable) /\ Hangs(3, DocumentVersionTable)
      /\ Hangs(3, DocumentContentTable) /\ Hangs(3, DocumentContentVariantTable)
      /\ Hangs(3, DocumentContentRoleBindingTable) /\ Hangs(3, DocumentSentenceTable)
      /\ Hangs(3, SentenceAlignmentSetTable) /\ Hangs(3, SentenceAlignmentEdgeTable)
      /\ Hangs(3, TranslationProvenanceTable) /\ Hangs(3, TextFragmentTable)
      /\ Hangs(3, FactTable) /\ Hangs(3, FactCategoryAssignmentTable)
      /\ Hangs(3, FactEvidenceTable) /\ Hangs(3, AssessmentEvidenceTable)
      /\ Hangs(3, ParameterValueEvidenceTable) /\ Hangs(3, PowerComponentEvidenceTable)
      /\ Hangs(3, TerminologyEntryTable) /\ Hangs(3, LegacyTermMappingTable)
      /\ Hangs(3, HelpTopicTable) /\ Hangs(3, UIHelpBindingTable)
      /\ Hangs(3, ChatConversationTable) /\ Hangs(3, ChatMessageTable)
      /\ Hangs(3, ChatCitationTable)
  BY DEF SourceTable, DocumentTable, DocumentVersionTable, DocumentContentTable,
         DocumentContentVariantTable, DocumentContentRoleBindingTable, DocumentSentenceTable,
         SentenceAlignmentSetTable, SentenceAlignmentEdgeTable, TranslationProvenanceTable,
         TextFragmentTable, FactTable, FactCategoryAssignmentTable, FactEvidenceTable,
         AssessmentEvidenceTable, ParameterValueEvidenceTable, PowerComponentEvidenceTable,
         TerminologyEntryTable, LegacyTermMappingTable, HelpTopicTable, UIHelpBindingTable,
         ChatConversationTable, ChatMessageTable, ChatCitationTable
<1> HIDE DEF Reference, Follows, MayFollow, Holds, MayHold, InProject, Owned, Kept, Hangs
<1> QED
  BY <1>1, <1>2, <1>3 DEF Declared

\* So that three rounds collect all that follows.
LEMMA CollectedClosed ==
    ASSUME NEW rs, DOMAIN rs \subseteq DOMAIN Declared, NEW start \in DOMAIN rs,
           NEW u \in DOMAIN rs,
           Points(Declared, rs, u, "CASCADE", Collected(Declared, rs, {start}))
    PROVE  u \in Collected(Declared, rs, {start})
<1> DEFINE S0 == {start}
           S1 == Spread(Declared, rs, S0)
           S2 == Spread(Declared, rs, S1)
           S3 == Spread(Declared, rs, S2)
           Follow(t, v) == \E q \in Declared[t] : q.policy = "CASCADE" /\ q.to = v
                                                    /\ q.field \in rs[t]
<1>1. \A T, t : t \in Spread(Declared, rs, T) \ T =>
         t \in DOMAIN rs /\ \E v \in T : Follow(t, v)
  BY DEF Spread, Points
<1>2. \A T, t, v : t \in DOMAIN rs /\ v \in T /\ Follow(t, v) => t \in Spread(Declared, rs, T)
  BY DEF Spread, Points
<1>3. \A t \in DOMAIN rs : \A v : Follow(t, v) => Depth(v) < Depth(t)
  BY DeclaredHangs DEF Hangs
<1>4. \A v : Depth(v) \in 0..3
  BY DEF Depth
<1>5. PICK v \in S3 : Follow(u, v)
  BY DEF Points, Collected
<1> HIDE DEF Follow
<1>6. CASE v \in S2
  BY <1>2, <1>5, <1>6 DEF Collected
<1>7. CASE v \notin S2
  <2>1. PICK w \in S2 : Follow(v, w) /\ v \in DOMAIN rs
    BY <1>1, <1>5, <1>7
  <2>2. w \notin S1
    BY <1>2, <1>7, <2>1
  <2>3. PICK x \in S1 : Follow(w, x) /\ w \in DOMAIN rs
    BY <1>1, <2>1, <2>2
  <2>4. x \notin S0
    BY <1>2, <2>2, <2>3
  <2>5. PICK y \in S0 : Follow(x, y) /\ x \in DOMAIN rs
    BY <1>1, <2>3, <2>4
  <2>6. Depth(y) < Depth(x) /\ Depth(x) < Depth(w) /\ Depth(w) < Depth(v) /\ Depth(v) < Depth(u)
    BY <1>3, <1>5, <2>1, <2>3, <2>5
  <2> QED
    BY <1>4, <2>6
<1> QED
  BY <1>6, <1>7

LEMMA DeleteFits ==
    ASSUME NEW rs, Fits(rs, 22), NEW start \in DOMAIN rs, NEW gone,
           gone = Collected(Declared, rs, {start}), ~Restricted(Declared, rs, gone)
    PROVE  Fits(Without(rs, gone), 22)
<1> DEFINE us == Without(rs, gone)
<1>1. DOMAIN us = DOMAIN rs \ gone /\ \A t \in DOMAIN us : us[t] = rs[t]
  BY DEF Without
<1> HIDE DEF us
<1>2. Columned(rs, 22) /\ Keyed(rs) /\ Checked(rs, 22)
  BY ShapedIsKeyed DEF Fits
<1>3. Columned(us, 22)
  BY <1>1, <1>2 DEF Columned
<1>4. Checked(us, 22)
  BY <1>1, <1>2 DEF Checked
<1>5. Keyed(us)
  <2> SUFFICES ASSUME NEW t \in DOMAIN us, NEW q \in Declared[t], q.field \in us[t],
                      q.to \in gone
               PROVE  FALSE
    BY <1>1, <1>2 DEF Keyed
  <2>1. DOMAIN rs \subseteq DOMAIN Declared
    BY <1>2, LevelsForetold DEF Columned
  <2>2. t \in DOMAIN rs \ gone /\ q.field \in rs[t]
    BY <1>1
  <2>3. CASE q.policy = "RESTRICT"
    BY <2>2, <2>3 DEF Restricted, Points
  <2>4. CASE q.policy = "CASCADE"
    BY <2>1, <2>2, <2>4, CollectedClosed DEF Points
  <2> QED
    BY <2>1, <2>2, <2>3, <2>4, DeclaredHangs DEF Hangs
<1>6. Shaped(us, 22)
  BY <1>3, <1>5, ShapedIsKeyed
<1> QED
  BY <1>4, <1>6 DEF Fits, us

LEMMA ProjectBefore ==
    ASSUME NEW rs, Fits(rs, 1), NEW t \in Rehoused \cap DOMAIN rs
    PROVE  "Project" \in DOMAIN rs
<1>1. Columned(rs, 1) /\ Keyed(rs)
  BY ShapedIsKeyed DEF Fits
<1>2. <<t, InProject>> \in InitialReferences
  BY DEF Rehoused, InitialReferences, InitialValueReferences, InitialLogReferences,
     InitialScenarioReferences, InitialScenarioTables, Each
<1>3. InProject.needed /\ InProject.field = "project"
  BY DEF InProject, Follows, Reference
<1>4. "project" \in rs[t]
  <2>1. t \in DOMAIN Initial
    BY <1>1, Levels DEF Columned
  <2>2. "project" \in Needed(Initial, t)
    BY <1>2, <1>3, <2>1, NeedsCome, SchemaTables DEF Initial
  <2> QED
    BY <1>1, <2>2, Levels DEF Columned
<1>5. \E q \in Declared[t] : q.field = "project" /\ q.to = "Project"
  <2>1. \/ InProject \in Declared[t]
        \/ Holds("project", "Project") \in Declared[t]
    BY DEF Rehoused, Declared, AssessmentSetTable, AuditEventTable, ParameterValueTable,
       TimeSliceTable
  <2>2. /\ InProject.field = "project" /\ InProject.to = "Project"
        /\ Holds("project", "Project").field = "project"
        /\ Holds("project", "Project").to = "Project"
    BY DEF InProject, Follows, Holds, Reference
  <2> QED
    BY <2>1, <2>2
<1> QED
  BY <1>1, <1>4, <1>5 DEF Keyed

LEMMA HousedOnTheWay ==
    ASSUME NEW rs, Fits(rs, 1)
    PROVE  OnTheWay(IntoWorkspaces(rs), 2)
<1> DEFINE us == IntoWorkspaces(rs)
<1>1. /\ "ProjectDefinitionVersion" \notin DOMAIN rs /\ "ChatCitation" \notin DOMAIN rs
      /\ DOMAIN rs \subseteq InitialTables
  <2>1. DOMAIN rs \subseteq InitialTables
    BY Levels, SchemaTables DEF Fits, Shaped
  <2> QED
    BY <2>1 DEF InitialTables, InitialValueTables, InitialLogTables, InitialScenarioTables
<1>2. CASE "Project" \notin DOMAIN rs
  <2>1. us = rs
    BY <1>2 DEF IntoWorkspaces
  <2>2. Rehoused \cap DOMAIN rs = {}
    BY <1>2, ProjectBefore
  <2> QED
    BY <1>1, <2>1, <2>2 DEF OnTheWay
<1>3. CASE "Project" \in DOMAIN rs
  <2>1. \A t \in DOMAIN us : t \in Rehoused => "workspace" \in us[t]
    BY <1>3 DEF IntoWorkspaces, Only, Both, Filled, Marked, Rehoused
  <2>2. "ChatCitation" \notin DOMAIN us
    BY <1>1 DEF IntoWorkspaces, Only, Both, Filled, Marked
  <2>3. us["ProjectDefinitionVersion"]
          = Needed(Foundation, "ProjectDefinitionVersion") \cup {"published"}
    BY <1>1, <1>3, Levels DEF IntoWorkspaces, Only, Both, Filled, Marked
  <2>4. Needed(Foundation, "ProjectDefinitionVersion") \subseteq FieldNames
    <3>1. "ProjectDefinitionVersion" \in DOMAIN SchemaAt[2]
      BY Levels, SchemaTables DEF FoundationTables, PowerTables
    <3>2. \A r \in Foundation["ProjectDefinitionVersion"] : r.field \in FieldNames
      BY <3>1, LevelsForetold, DeclaredToldApart, Levels DEF ToldApart
    <3> QED
      BY <3>2 DEF Needed
  <2>5. /\ OneKind(us["ProjectDefinitionVersion"])
        /\ ~({"draft", "stamped"} \subseteq us["ProjectDefinitionVersion"])
    BY <2>3, <2>4 DEF OneKind, FieldNames
  <2> HIDE DEF us
  <2>6. OnTheWay(us, 2)
    BY <2>1, <2>2, <2>5 DEF OnTheWay
  <2> QED
    BY <2>6 DEF us
<1> QED
  BY <1>2, <1>3

LEMMA WorkspaceOfKept ==
    ASSUME NEW rs, Columned(rs, 12),
           NEW t \in {"AuditEvent", "UIHelpBinding", "ImportRun"} \cap DOMAIN rs
    PROVE  "workspace" \in rs[t]
<1>1. <<t, Kept>> \in RestrictingReferences /\ t \in KeptTables
  BY DEF RestrictingReferences, KeptTables, Each
<1>2. Kept.needed /\ Kept.field = "workspace"
  BY DEF Kept, Holds, Reference
<1>3. t \in DOMAIN Receipted
  BY Levels DEF Columned
<1>4. "workspace" \in Needed(Restricting, t)
  BY <1>1, <1>2, <1>3, NeedsCome, SchemaTables DEF Restricting
<1>5. \A c \in ReceiptedReferences : c[2].field # "workspace"
  BY DEF ReceiptedReferences, Each, MayHold, Reference
<1>6. "workspace" \in Needed(Receipted, t)
  BY <1>3, <1>4, <1>5, NeedsStay, SchemaTables DEF Receipted
<1> QED
  BY <1>6, Levels DEF Columned

LEMMA ForwardOnTheWay ==
    ASSUME NEW n \in 2..22, NEW rs, Fits(rs, n - 1), OnTheWay(rs, n - 1)
    PROVE  OnTheWay(Forward(rs, n), n)
<1> DEFINE us == Forward(rs, n)
<1>1. CASE n = 2
  BY <1>1, HousedOnTheWay DEF Forward
<1>2. CASE n = 6
  <2>1. DOMAIN us = DOMAIN rs
    BY <1>2, MarkedDomain DEF Forward, Stamped
  <2>2. "ProjectDefinitionVersion" \in DOMAIN rs =>
           us["ProjectDefinitionVersion"] =
              IF "published" \in rs["ProjectDefinitionVersion"]
              THEN rs["ProjectDefinitionVersion"] \cup {"stamped"}
              ELSE rs["ProjectDefinitionVersion"]
    BY <1>2 DEF Forward, Stamped, Marked
  <2> HIDE DEF us
  <2>3. "ProjectDefinitionVersion" \in DOMAIN us =>
           /\ OneKind(us["ProjectDefinitionVersion"])
           /\ ~({"draft", "stamped"} \subseteq us["ProjectDefinitionVersion"])
    BY <2>1, <2>2 DEF OnTheWay, OneKind
  <2>4. OnTheWay(us, n)
    BY <1>2, <2>3 DEF OnTheWay
  <2> QED
    BY <2>4 DEF us
<1>3. CASE n = 13
  <2>1. us = rs
    BY <1>3 DEF Forward
  <2>2. Columned(rs, 12)
    BY <1>3, ShapedIsKeyed DEF Fits
  <2>3. "ImportRun" \in DOMAIN rs => "package" \notin rs["ImportRun"]
    <3>1. "package" \notin FlagsAt(12) /\ "package" \notin FieldNames
      BY DEF FlagsAt, FieldNames
    <3>2. "ImportRun" \in DOMAIN rs =>
             \A r \in SchemaAt[12]["ImportRun"] : r.field \in FieldNames
      BY <2>2, LevelsForetold, DeclaredToldApart DEF Columned, ToldApart
    <3> QED
      BY <2>2, <3>1, <3>2 DEF Columned, ColumnsAt
  <2> QED
    BY <1>3, <2>1, <2>2, <2>3, WorkspaceOfKept DEF OnTheWay
<1>4. CASE n = 14
  <2>1. DOMAIN us = DOMAIN rs
    BY <1>4, MarkedDomain, ClearedDomain DEF Forward, Scoped
  <2>2. \A t \in DOMAIN rs :
           /\ t = "AuditEvent" => us[t] = rs[t] \ {"definition", "definition_version"}
           /\ t = "ImportRun" => us[t] = rs[t] \cup {"project", "definition_version"}
           /\ t = "UIHelpBinding" => rs[t] \subseteq us[t]
           /\ t = "ProjectDefinitionVersion" => us[t] = rs[t]
    BY <1>4 DEF Forward, Scoped, Marked, Cleared
  <2> HIDE DEF us
  <2>3. \A t \in {"AuditEvent", "UIHelpBinding", "ImportRun"} \cap DOMAIN us :
           "workspace" \in us[t]
    BY <1>4, <2>1, <2>2 DEF OnTheWay
  <2>4. OnTheWay(us, n)
    BY <1>4, <2>1, <2>2, <2>3 DEF OnTheWay
  <2> QED
    BY <2>4 DEF us
<1>5. CASE n \in {16, 17}
  <2>1. "ProjectDefinitionVersion" \in DOMAIN us =>
           /\ "ProjectDefinitionVersion" \in DOMAIN rs
           /\ us["ProjectDefinitionVersion"] = rs["ProjectDefinitionVersion"]
    BY <1>5 DEF Forward, WithLanguage, WithVariants, Marked, Filled, Only
  <2> HIDE DEF us
  <2>2. OnTheWay(us, n)
    BY <1>5, <2>1 DEF OnTheWay
  <2> QED
    BY <2>2 DEF us
<1>6. CASE n \notin {2, 6, 13, 14, 16, 17}
  <2>1. us = rs
    BY <1>6 DEF Forward
  <2>2. n \in {3, 4, 5} \/ n \in 7..12 \/ n = 15 \/ n \in 18..22
    BY <1>6
  <2> QED
    BY <2>1, <2>2 DEF OnTheWay
<1> QED
  BY <1>1, <1>2, <1>3, <1>4, <1>5, <1>6

LEMMA BackwardRows ==
    ASSUME NEW n \in 3..22, NEW rs
    PROVE  /\ DOMAIN Backward(rs, n) = DOMAIN rs \cap DOMAIN SchemaAt[n - 1]
           /\ \A t \in DOMAIN Backward(rs, n) :
                 t \notin {"TextFragment", "Document", "Project"} =>
                    Backward(rs, n)[t] = rs[t] \cap ColumnsAt(n - 1, t)
<1>1. CASE n = 16
  BY <1>1 DEF Backward, Dropped, WithoutLanguage, Cleared
<1>2. CASE n = 17
  BY <1>2 DEF Backward, Dropped, WithoutVariants, Cleared
<1>3. CASE n \notin {16, 17}
  BY <1>3 DEF Backward, Dropped
<1> QED
  BY <1>1, <1>2, <1>3

LEMMA BackwardOnTheWay ==
    ASSUME NEW n \in 2..22, NEW rs, Fits(rs, n), OnTheWay(rs, n), ~Refused(rs, n),
           Fits(Backward(rs, n), n - 1)
    PROVE  OnTheWay(Backward(rs, n), n - 1)
<1> DEFINE us == Backward(rs, n)
<1>1. CASE n = 2
  <2>1. DOMAIN us \subseteq InitialTables
    BY <1>1, Levels, SchemaTables DEF Fits, Shaped
  <2>2. "ProjectDefinitionVersion" \notin DOMAIN us
    BY <2>1 DEF InitialTables, InitialValueTables, InitialLogTables, InitialScenarioTables
  <2> HIDE DEF us
  <2>3. OnTheWay(us, n - 1)
    BY <1>1, <2>2 DEF OnTheWay
  <2> QED
    BY <2>3 DEF us
<1>2. CASE n \in 3..22
  <2> DEFINE m == n - 1
  <2>1. /\ DOMAIN us \subseteq DOMAIN rs /\ DOMAIN us \subseteq DOMAIN SchemaAt[m]
        /\ \A t \in DOMAIN us : t \notin {"TextFragment", "Document", "Project"} =>
              us[t] = rs[t] \cap ColumnsAt(m, t)
    BY <1>2, BackwardRows
  <2>2. Columned(rs, n) /\ Checked(rs, n) /\ Fits(us, m)
    BY ShapedIsKeyed DEF Fits
  <2> HIDE DEF us
  <2>3. "ProjectDefinitionVersion" \in DOMAIN us =>
           /\ OneKind(us["ProjectDefinitionVersion"])
           /\ ~({"draft", "stamped"} \subseteq us["ProjectDefinitionVersion"])
    <3>1. \A t : {"draft", "published", "validated"} \subseteq ColumnsAt(m, t)
      BY DEF ColumnsAt, FlagsAt
    <3> QED
      BY <2>1, <3>1 DEF OnTheWay, OneKind
  <2>4. m = 2 => \A t \in Rehoused \cap DOMAIN us : "workspace" \in us[t]
    <3> SUFFICES ASSUME m = 2, NEW t \in Rehoused \cap DOMAIN us PROVE "workspace" \in us[t]
      OBVIOUS
    <3>1. <<t, Owned>> \in RequiredReferences /\ Owned.needed /\ Owned.field = "workspace"
      BY DEF RequiredReferences, Each, Owned, Follows, Reference
    <3>2. "workspace" \in Needed(Required, t)
      BY <2>1, <3>1, NeedsCome, SchemaTables, Levels DEF Required
    <3>3. "workspace" \in rs[t]
      BY <2>1, <2>2, <3>2, Levels DEF Columned
    <3>4. "workspace" \in ColumnsAt(2, t)
      BY Places, Levels, NamedColumn
    <3>5. t \notin {"TextFragment", "Document", "Project"}
      BY DEF Rehoused
    <3> QED
      BY <2>1, <3>3, <3>4, <3>5
  <2>5. m \in 2..4 => "ChatCitation" \notin DOMAIN us
    <3> SUFFICES ASSUME m \in 2..4, "ChatCitation" \in DOMAIN us PROVE FALSE
      OBVIOUS
    <3>1. n = 5
      BY <2>1 DEF OnTheWay
    <3>2. {"fragment", "document_version"} \subseteq rs["ChatCitation"]
      BY <2>1, <2>2, <3>1 DEF Checked, CitationFits
    <3>3. {"fragment", "document_version"} \subseteq ColumnsAt(4, "ChatCitation")
      BY Places, Levels, NamedColumn
    <3>4. {"fragment", "document_version"} \subseteq us["ChatCitation"]
      BY <2>1, <3>1, <3>2, <3>3
    <3>5. Cardinality(us["ChatCitation"] \cap {"fact", "fragment", "document_version"}) = 1
      BY <2>2, <3>1 DEF Fits, Checked, CitationFits
    <3>6. PICK x : us["ChatCitation"] \cap {"fact", "fragment", "document_version"} = {x}
      <4>1. IsFiniteSet(us["ChatCitation"] \cap {"fact", "fragment", "document_version"})
        <5> DEFINE S1 == {} \cup {"fact"}
                   S2 == S1 \cup {"fragment"}
                   S3 == S2 \cup {"document_version"}
        <5>1. IsFiniteSet(S3)
          <6>1. IsFiniteSet(S1)
            BY FS_EmptySet, FS_AddElement
          <6> HIDE DEF S1
          <6>2. IsFiniteSet(S2)
            BY <6>1, FS_AddElement
          <6> HIDE DEF S2
          <6> QED
            BY <6>2, FS_AddElement
        <5>2. S3 = {"fact", "fragment", "document_version"}
          OBVIOUS
        <5> HIDE DEF S3
        <5> QED
          BY <5>1, <5>2, FS_Subset
      <4> QED
        BY <3>5, <4>1, FS_Singleton
    <3> QED
      BY <3>4, <3>6
  <2>6. m \in 13..14 =>
           /\ \A t \in {"AuditEvent", "UIHelpBinding", "ImportRun"} \cap DOMAIN us :
                 "workspace" \in us[t]
           /\ "ImportRun" \in DOMAIN us => "package" \notin us["ImportRun"]
    <3> SUFFICES ASSUME m \in 13..14
                 PROVE  /\ \A t \in {"AuditEvent", "UIHelpBinding", "ImportRun"} \cap DOMAIN us :
                              "workspace" \in us[t]
                        /\ "ImportRun" \in DOMAIN us => "package" \notin us["ImportRun"]
      OBVIOUS
    <3>1. ~Lossy(rs)
      BY DEF Refused
    <3>2. \A t \in {"AuditEvent", "UIHelpBinding", "ImportRun"} \cap DOMAIN rs :
             "workspace" \in rs[t]
      <4>1. CASE n = 14
        BY <4>1 DEF OnTheWay
      <4>2. CASE n = 15
        BY <2>2, <3>1, <4>2 DEF Checked, AuditFits, ImportFits, Lossy
      <4> QED
        BY <4>1, <4>2
    <3>3. \A t \in {"AuditEvent", "UIHelpBinding", "ImportRun"} : "workspace" \in ColumnsAt(m, t)
      BY Places, Levels, NamedColumn
    <3> QED
      BY <2>1, <3>1, <3>2, <3>3 DEF Lossy
  <2>7. m = 14 =>
           /\ "AuditEvent" \in DOMAIN us =>
                 {"definition", "definition_version"} \cap us["AuditEvent"] = {}
           /\ "ImportRun" \in DOMAIN us =>
                 {"project", "definition_version"} \subseteq us["ImportRun"]
    <3> SUFFICES ASSUME m = 14
                 PROVE  /\ "AuditEvent" \in DOMAIN us =>
                              {"definition", "definition_version"} \cap us["AuditEvent"] = {}
                        /\ "ImportRun" \in DOMAIN us =>
                              {"project", "definition_version"} \subseteq us["ImportRun"]
      OBVIOUS
    <3>1. ~Lossy(rs)
      BY DEF Refused
    <3>2. "AuditEvent" \in DOMAIN rs =>
             {"definition", "definition_version"} \cap rs["AuditEvent"] = {}
      BY <2>2, <3>1 DEF Checked, AuditFits, Lossy
    <3>3. "ImportRun" \in DOMAIN rs => "definition_version" \in rs["ImportRun"]
      BY <2>2, <3>1 DEF Checked, ImportFits, Lossy
    <3>4. "ImportRun" \in DOMAIN rs => "project" \in rs["ImportRun"]
      <4> SUFFICES ASSUME "ImportRun" \in DOMAIN rs PROVE "project" \in rs["ImportRun"]
        OBVIOUS
      <4> DEFINE r == Holds("project", "Project")
      <4>1. <<"ImportRun", r>> \in BoundedReferences
        BY DEF BoundedReferences, Each
      <4>2. r.needed /\ r.field = "project"
        BY DEF Holds, Reference
      <4> HIDE DEF r
      <4>3. "project" \in Needed(Bounded, "ImportRun")
        BY <2>2, <4>1, <4>2, NeedsCome, SchemaTables, Levels DEF Bounded, Columned
      <4> QED
        BY <2>2, <4>3, Levels DEF Columned
    <3>5. {"project", "definition_version"} \subseteq ColumnsAt(14, "ImportRun")
      BY Places, Levels, NamedColumn
    <3> QED
      BY <2>1, <3>2, <3>3, <3>4, <3>5
  <2>8. OnTheWay(us, m)
    BY <2>3, <2>4, <2>5, <2>6, <2>7 DEF OnTheWay
  <2> QED
    BY <2>8 DEF us
<1> QED
  BY <1>1, <1>2

-----------------------------------------------------------------------------
\* The invariant.
Arriving ==
    /\ level \in 1..22
    /\ Fits(database, level)
    /\ OnTheWay(database, level)
    /\ sample \in Sample

LEMMA ArrivingInitially == MigrationsInit => Arriving
<1> SUFFICES ASSUME MigrationsInit PROVE Arriving
  OBVIOUS
<1>1. Fits(database, 1) /\ level = 1 /\ sample \in Sample
  BY SampleAssumption DEF MigrationsInit
<1>2. "ProjectDefinitionVersion" \notin DOMAIN database
  <2>1. DOMAIN database \subseteq InitialTables
    BY <1>1, Levels, SchemaTables DEF Fits, Shaped
  <2> QED
    BY <2>1 DEF InitialTables, InitialValueTables, InitialLogTables, InitialScenarioTables
<1> QED
  BY <1>1, <1>2 DEF Arriving, OnTheWay

LEMMA WriteArrives == ASSUME Arriving, NEW t, Write(t) PROVE Arriving'
<1> DEFINE d == "ProjectDefinitionVersion"
<1>1. /\ level = 22 /\ level' = 22 /\ sample' = sample
      /\ t \in DOMAIN sample.later \ DOMAIN database
      /\ database' = Filled(database, 22, [u \in {t} |-> sample.later[t]])
      /\ Fits(database', 22)
  BY DEF Write
<1>2. ASSUME d \in DOMAIN database'
      PROVE  OneKind(database'[d]) /\ ~({"draft", "stamped"} \subseteq database'[d])
  <2>1. ~({"draft", "stamped"} \subseteq database'[d])
    BY <1>1, <1>2 DEF Fits, Checked, DefinitionFits
  <2>2. CASE d \in DOMAIN database
    BY <1>1, <2>1, <2>2 DEF Filled, Arriving, OnTheWay
  <2>3. CASE d \notin DOMAIN database
    <3>1. t = d /\ database'[d] = Needed(Projected, d) \cup sample.later[d]
      BY <1>1, <1>2, <2>3, Levels DEF Filled
    <3>2. OneKind(sample.later[d])
      BY <1>1, <3>1, SampleAssumption DEF Arriving
    <3>3. Needed(Projected, d) \subseteq FieldNames
      <4>1. d \in DOMAIN Declared
        BY DeclaredTables DEF FoundationTables, PowerTables
      <4> QED
        BY <4>1, LastIsDeclared, DeclaredToldApart DEF Needed, ToldApart
    <3>4. OneKind(database'[d])
      BY <3>1, <3>2, <3>3 DEF OneKind, FieldNames
    <3> QED
      BY <2>1, <3>4
  <2> QED
    BY <2>2, <2>3
<1> QED
  BY <1>1, <1>2 DEF Arriving, OnTheWay

LEMMA ArrivingStep == Arriving /\ [MigrationsNext]_migrationVars => Arriving'
<1> SUFFICES ASSUME Arriving, [MigrationsNext]_migrationVars PROVE Arriving'
  OBVIOUS
<1>1. CASE Upgrade
  <2> DEFINE n == level + 1
  <2>1. /\ n \in 2..22 /\ level = n - 1 /\ level' = n /\ sample' = sample
        /\ database' = Forward(database, n) /\ CanUpgrade(database, n)
    BY <1>1 DEF Upgrade, Arriving
  <2> HIDE DEF n
  <2>2. Fits(database, n - 1) /\ OnTheWay(database, n - 1)
    BY <2>1 DEF Arriving
  <2>3. OnTheWay(database', n)
    BY <2>1, <2>2, ForwardOnTheWay
  <2> QED
    BY <2>1, <2>3 DEF Arriving, CanUpgrade
<1>2. CASE Downgrade
  <2>1. /\ level \in 2..22 /\ level' = level - 1 /\ sample' = sample
        /\ database' = Backward(database, level) /\ ~Refused(database, level)
        /\ Fits(database', level - 1)
    BY <1>2 DEF Downgrade, Arriving
  <2>2. OnTheWay(database', level - 1)
    BY <2>1, BackwardOnTheWay DEF Arriving
  <2> QED
    BY <2>1, <2>2 DEF Arriving
<1>3. ASSUME NEW t, Write(t) PROVE Arriving'
  BY <1>3, WriteArrives
<1>4. ASSUME NEW t \in DOMAIN database, DeleteRow(t) \/ DeleteSet(t) PROVE Arriving'
  <2> DEFINE gone == Collected(Declared, database, {t})
  <2>1. /\ level = 22 /\ level' = level /\ sample' = sample
        /\ ~Restricted(Declared, database, gone) /\ database' = Without(database, gone)
    BY <1>4 DEF DeleteRow, DeleteSet, Delete
  <2>2. Fits(database', 22)
    BY <2>1, DeleteFits DEF Arriving
  <2>3. OnTheWay(database', 22)
    BY <2>1 DEF Arriving, OnTheWay, Without
  <2> QED
    BY <2>1, <2>2, <2>3 DEF Arriving
<1>5. CASE UNCHANGED migrationVars
  BY <1>5 DEF Arriving, migrationVars
<1> QED
  BY <1>1, <1>2, <1>3, <1>4, <1>5 DEF MigrationsNext

(* For any database of the first migration and anything written on the last: *)
(* after the migrations the schema is the declared one, at every level each  *)
(* row is one that its schema allows, and an upgrade is refused exactly when *)
(* the rows hold what Stuck names for that migration.                        *)
THEOREM UpgradesAlwaysArrive == MigrationsSpec => []UpgradesArrive
<1>1. Arriving => UpgradesArrive
  <2> SUFFICES ASSUME Arriving PROVE UpgradesArrive
    OBVIOUS
  <2>1. SchemaAt[22] = Declared
    BY Levels, LastIsDeclared
  <2>2. ASSUME level < 22
        PROVE  CanUpgrade(database, level + 1) <=> ~Stuck(database, level + 1)
    <3> DEFINE n == level + 1
    <3>1. n \in 2..22 /\ level = n - 1
      BY <2>2 DEF Arriving
    <3> HIDE DEF n
    <3>2. CanUpgrade(database, n) <=> ~Stuck(database, n)
      BY <3>1, UpgradeStuck DEF Arriving
    <3> QED
      BY <3>2 DEF n
  <2> QED
    BY <2>1, <2>2 DEF UpgradesArrive, Arriving
<1> QED
  BY <1>1, ArrivingInitially, ArrivingStep, PTL DEF MigrationsSpec

(***************************************************************************)
(* Guarding rows and values.                                               *)
(***************************************************************************)

-----------------------------------------------------------------------------
(* Before there is a column for it no row is canonical, and a migration that *)
(* takes the column away finds none that is.                                 *)
MarkedByColumns ==
    /\ generation \in 17..22
    /\ generation = 17 => \A r \in entries : ~r.canonical

LEMMA MarkedInitially == GuardsInit => MarkedByColumns
  BY DEF GuardsInit, MarkedByColumns

LEMMA MarkedKept == MarkedByColumns /\ [GuardsNext]_guardVars => MarkedByColumns'
<1> SUFFICES ASSUME MarkedByColumns, [GuardsNext]_guardVars PROVE MarkedByColumns'
  OBVIOUS
<1> USE DEF MarkedByColumns
<1>1. CASE SqlRow
  BY <1>1 DEF SqlRow, AddEntry, ReplaceEntry, RemoveEntry, HasColumns
<1>2. CASE SqlWorkspace \/ SqlEvents \/ OrmAudit \/ RecreateWorkspace \/ UNCHANGED guardVars
  BY <1>2 DEF SqlWorkspace, SqlEvents, OrmAudit, RecreateWorkspace, guardVars
<1>3. CASE OrmInsert \/ OrmSave \/ OrmUpdate \/ OrmDelete \/ Project
  <2>1. generation >= 18 /\ generation' = generation
    BY <1>3, Zenon DEF OrmInsert, OrmSave, OrmUpdate, OrmDelete, Project
  <2> QED
    BY <2>1
<1>4. CASE Migrate
  BY <1>4 DEF Migrate
<1>5. CASE Reverse
  BY <1>5 DEF Reverse
<1>6. CASE Truncate
  <2>1. generation' = generation /\ entries' \subseteq entries
    BY <1>6 DEF Truncate
  <2> QED
    BY <2>1
<1>7. CASE SqlReplace
  <2>1. generation' = generation /\ \E r \in Entry : HasColumns(r) /\ entries' \subseteq entries \cup {r}
    BY <1>7 DEF SqlReplace
  <2> QED
    BY <2>1 DEF HasColumns
<1> QED
  BY <1>1, <1>2, <1>3, <1>4, <1>5, <1>6, <1>7 DEF GuardsNext, GuardedStep, BypassingStep

(* A step that fires triggers either leaves the generation and meets the     *)
(* guards that are there, or it is a migration, which writes no row.         *)
LEMMA CanonicalKept ==
    ASSUME MarkedByColumns, GuardedStep, NEW r \in entries, r.canonical
    PROVE  r \in entries'
<1> USE DEF MarkedByColumns
<1>1. CASE SqlRow
  <2>1. generation >= 18
    OBVIOUS
  <2>2. ASSUME NEW q \in Entry, AddEntry(q) PROVE r \in entries'
    BY <2>2 DEF AddEntry
  <2>3. ASSUME NEW old \in entries, NEW new \in Entry, ReplaceEntry(old, new)
        PROVE  r \in entries'
    BY <2>1, <2>3 DEF ReplaceEntry, RowChanges
  <2>4. ASSUME NEW old \in entries, RemoveEntry(old) PROVE r \in entries'
    BY <2>1, <2>4 DEF RemoveEntry, RowLeaves
  <2> QED
    BY <1>1, <2>2, <2>3, <2>4, Zenon DEF SqlRow
<1>2. CASE SqlWorkspace \/ SqlEvents \/ OrmAudit \/ Migrate \/ Reverse
  BY <1>2 DEF SqlWorkspace, SqlEvents, OrmAudit, Migrate, Reverse
<1>3. CASE OrmInsert \/ OrmSave \/ OrmUpdate \/ OrmDelete
  BY <1>3 DEF OrmInsert, OrmSave, OrmUpdate, OrmDelete,
              AddEntry, ReplaceEntry, RemoveEntry, RowChanges
<1>4. CASE Project
  BY <1>4, Zenon DEF Project
<1> QED
  BY <1>1, <1>2, <1>3, <1>4 DEF GuardedStep

LEMMA PinAndEventsKept ==
    ASSUME MarkedByColumns, GuardedStep
    PROVE  /\ generation >= 19 => pinned'.pin = pinned.pin
           /\ vendor = "postgresql" /\ generation >= 21 => events \subseteq events'
<1> USE DEF MarkedByColumns
<1>1. CASE SqlWorkspace
  BY <1>1 DEF SqlWorkspace, WorkspaceChanges
<1>2. CASE SqlEvents
  BY <1>2 DEF SqlEvents, EventsLeave
<1>3. CASE Project
  <2>1. /\ WorkspaceChanges(pinned', TRUE)
        /\ UNCHANGED events
    BY <1>3 DEF Project
  <2> QED
    BY <2>1 DEF WorkspaceChanges
<1>4. CASE SqlRow \/ OrmAudit \/ OrmInsert \/ OrmSave \/ OrmUpdate \/ OrmDelete \/ Migrate
  BY <1>4 DEF SqlRow, OrmAudit, OrmInsert, OrmSave, OrmUpdate, OrmDelete, Migrate
<1>5. CASE Reverse
  BY <1>5 DEF Reverse
<1> QED
  BY <1>1, <1>2, <1>3, <1>4, <1>5 DEF GuardedStep

LEMMA BypassLoss == ASSUME BypassingStep PROVE BypassLoses
<1>1. CASE Truncate
  <2>1. vendor = "postgresql" /\ UNCHANGED pinned
    BY <1>1 DEF Truncate
  <2>2. CASE events' = {} /\ UNCHANGED entries
    BY <2>1, <2>2 DEF BypassLoses
  <2>3. ASSUME NEW tables, entries' = {r \in entries : TableOf[r.id] \notin tables},
               UNCHANGED events
        PROVE  BypassLoses
    BY <2>1, <2>3 DEF BypassLoses
  <2> QED
    BY <1>1, <2>2, <2>3 DEF Truncate
<1>2. CASE SqlReplace
  <2>1. vendor = "sqlite" /\ UNCHANGED <<pinned, events>>
    BY <1>2 DEF SqlReplace
  <2>2. PICK r \in Entry : \E gone \in SUBSET {q \in entries : TableOf[q.id] = TableOf[r.id]} :
           entries' = (entries \ gone) \cup {r}
    BY <1>2 DEF SqlReplace
  <2>3. ASSUME NEW q \in entries \ entries'
        PROVE  /\ TableOf[q.id] = TableOf[r.id] /\ r \in entries'
               /\ entries' \subseteq entries \cup {r}
    BY <2>2, <2>3
  <2> QED
    BY <2>1, <2>3 DEF BypassLoses
<1>3. CASE RecreateWorkspace
  BY <1>3 DEF RecreateWorkspace, BypassLoses
<1> QED
  BY <1>1, <1>2, <1>3 DEF BypassingStep

(* What the triggers of a generation keep, the migrations that install and   *)
(* remove them keep as well, for any rows, pins and events; and what fires   *)
(* no trigger takes no more than its kind can.                               *)
THEOREM GuardedRowsAlwaysStay == GuardsSpec => GuardedRowsStay
<1>1. MarkedByColumns /\ [GuardsNext]_guardVars =>
          [(~bypassed' => TriggersKeep) /\ (bypassed' => BypassLoses)]_guardVars
  <2> SUFFICES ASSUME MarkedByColumns, GuardsNext
               PROVE  (~bypassed' => TriggersKeep) /\ (bypassed' => BypassLoses)
    OBVIOUS
  <2>1. CASE GuardedStep /\ bypassed' = FALSE
    BY <2>1, CanonicalKept, PinAndEventsKept DEF TriggersKeep
  <2>2. CASE BypassingStep /\ bypassed' = TRUE
    BY <2>2, BypassLoss
  <2> QED
    BY <2>1, <2>2 DEF GuardsNext
<1> QED
  BY <1>1, MarkedInitially, MarkedKept, PTL DEF GuardsSpec, GuardedRowsStay

-----------------------------------------------------------------------------
(* The ground of a value is what the triggers keep of it, but for values     *)
(* that are loose.  With the types of the rows this is inductive when it is  *)
(* also said of open statements: one that was not overtaken at a value will  *)
(* leave it with its ground.                                                 *)
Stands(v, hs, codes) ==
    v # Nothing =>
        /\ v.header # Nothing => hs[v.header].context = v.context
        /\ v.present =>
              \/ Own(v)
              \/ v.header # Nothing /\ MayExplain(hs[v.header], v, codes)

RowAfter(s, x) == IF s.table = "value" /\ s.row = x THEN s.new ELSE values[x]
HeadersThen(s) ==
    IF s.table = "header" THEN [headers EXCEPT ![s.row] = s.new] ELSE headers
CodesThen(s) == IF s.table = "definition" THEN CodesAfter(s) ELSE categorical
StandsAfter(s, x) == Stands(RowAfter(s, x), HeadersThen(s), CodesThen(s))

\* The ground that a loose value has lost is not restored by what explains it.
Leaves(s, x) == StandsAfter(s, x) \/ (s.table # "value" /\ x \in loose)

GroundInv ==
    /\ ValuesTypeOK
    /\ dialect = "sqlite" => open = {} /\ ~counted
    /\ ~(guarded /\ counted)
    /\ guarded \/ counted =>
          \A x \in Value \ loose : Stands(values[x], headers, categorical)
    /\ guarded =>
          \A o \in open, x \in Value :
             Touches(o, x) => <<o, x>> \in missed \/ Leaves(o, x)

LEMMA StatementForms ==
    ASSUME NEW s \in Statement
    PROVE  \/ s.table = "value" /\ s.row \in Value /\ s.new \in ValueRow \cup {Nothing}
           \/ s.table = "header" /\ s.row \in Header /\ s.new \in HeaderRow
           \/ s.table = "definition" /\ s.row \in Definition /\ s.new \in BOOLEAN
  BY DEF Statement

\* Whoever writes past the migration writes a statement that passed what is there.
LEMMA WritersWrite ==
    ASSUME SqlValue \/ SqlHeader \/ SqlDefinition \/ ModelValue
    PROVE  \E s \in Statement : AtOnce(s) \/ LeaveOpen(s)
<1>1. ASSUME NEW x \in Value, NEW v \in ValueRow \cup {Nothing}
      PROVE  [table |-> "value", row |-> x, new |-> v] \in Statement
  BY DEF Statement
<1>2. ASSUME NEW i \in Header, NEW h \in HeaderRow
      PROVE  [table |-> "header", row |-> i, new |-> h] \in Statement
  BY DEF Statement
<1>3. ASSUME NEW d \in Definition, NEW code \in BOOLEAN
      PROVE  [table |-> "definition", row |-> d, new |-> code] \in Statement
  BY DEF Statement
<1>4. CASE SqlValue
  BY <1>1, <1>4, Zenon DEF SqlValue
<1>5. CASE SqlHeader
  BY <1>2, <1>5, Zenon DEF SqlHeader
<1>6. CASE SqlDefinition
  BY <1>3, <1>6, Zenon DEF SqlDefinition
<1>7. CASE ModelValue
  BY <1>1, <1>7, Zenon DEF ModelValue
<1> QED
  BY <1>4, <1>5, <1>6, <1>7

LEMMA RecreatorsWrite ==
    ASSUME SqlRecreate PROVE \E s \in Statement : Apply(s, Touched(s))
<1>1. ASSUME NEW i \in Header, NEW h \in HeaderRow
      PROVE  [table |-> "header", row |-> i, new |-> h] \in Statement
  BY DEF Statement
<1>2. ASSUME NEW d \in Definition, NEW code \in BOOLEAN
      PROVE  [table |-> "definition", row |-> d, new |-> code] \in Statement
  BY DEF Statement
<1> QED
  BY <1>1, <1>2, Zenon DEF SqlRecreate

LEMMA ValuesTypedInitially == ValuesInit => ValuesTypeOK
<1> SUFFICES ASSUME ValuesInit PROVE ValuesTypeOK
  OBVIOUS
<1>1. ASSUME NEW c \in Context
      PROVE  [context |-> c, known |-> FALSE, referenced |-> FALSE, categories |-> "none"]
               \in HeaderRow
  BY DEF HeaderRow, Categories
<1> DEFINE first == {[context |-> c, known |-> FALSE, referenced |-> FALSE,
                      categories |-> "none"] : c \in Context}
<1>2. headers \in [Header -> first]
  BY DEF ValuesInit
<1> HIDE DEF first
<1>3. first \subseteq HeaderRow
  BY <1>1 DEF first
<1>4. headers \in [Header -> HeaderRow]
  BY <1>2, <1>3
<1> QED
  BY <1>4 DEF ValuesInit, ValuesTypeOK

LEMMA ApplyTyped ==
    ASSUME ValuesTypeOK, NEW s \in Statement, NEW unseen \in SUBSET Value, Apply(s, unseen)
    PROVE  ValuesTypeOK'
<1>1. values' \in [Value -> ValueRow \cup {Nothing}]
  BY StatementForms DEF Apply, ValuesTypeOK
<1>2. headers' \in [Header -> HeaderRow]
  BY StatementForms DEF Apply, ValuesTypeOK
<1>3. categorical' \subseteq Definition
  BY StatementForms DEF Apply, ValuesTypeOK, CodesAfter
<1>4. open' \subseteq Statement /\ missed' \subseteq open' \X Value
  BY DEF Apply, ValuesTypeOK, Overtakes
<1>5. loose' \subseteq Value
  BY DEF Apply, ValuesTypeOK
<1> QED
  BY <1>1, <1>2, <1>3, <1>4, <1>5 DEF Apply, ValuesTypeOK

LEMMA ValuesTyped == ValuesSpec => []ValuesTypeOK
<1>1. ValuesInit => ValuesTypeOK
  BY ValuesTypedInitially
<1>2. ValuesTypeOK /\ [ValuesNext]_valueVars => ValuesTypeOK'
  <2> SUFFICES ASSUME ValuesTypeOK, [ValuesNext]_valueVars PROVE ValuesTypeOK'
    OBVIOUS
  <2>1. CASE SqlValue \/ SqlHeader \/ SqlDefinition \/ ModelValue
    <3>1. PICK s \in Statement : AtOnce(s) \/ LeaveOpen(s)
      BY <2>1, WritersWrite
    <3>2. CASE AtOnce(s)
      BY <3>2, ApplyTyped DEF AtOnce, Touched
    <3>3. CASE LeaveOpen(s)
      BY <3>3 DEF LeaveOpen, ValuesTypeOK, rowVars
    <3> QED
      BY <3>1, <3>2, <3>3
  <2>2. CASE SqlRecreate
    BY <2>2, RecreatorsWrite, ApplyTyped DEF Touched
  <2>3. CASE CommitOpen
    BY <2>3, ApplyTyped DEF CommitOpen, Touched, ValuesTypeOK
  <2>4. CASE AbortOpen
    BY <2>4 DEF AbortOpen, ValuesTypeOK, rowVars
  <2>5. CASE InstallGuards \/ CountValues \/ CompleteInstall \/ AbandonInstall
             \/ DropGuards \/ UNCHANGED valueVars
    BY <2>5 DEF InstallGuards, CountValues, CompleteInstall, AbandonInstall, DropGuards,
                valueVars, rowVars, ValuesTypeOK
  <2> QED
    BY <2>1, <2>2, <2>3, <2>4, <2>5 DEF ValuesNext
<1> QED
  BY <1>1, <1>2, PTL DEF ValuesSpec

LEMMA ExactIsEnough ==
    ASSUME NEW h, NEW v, NEW codes, Explains(h, v, codes)
    PROVE  MayExplain(h, v, codes)
  BY DEF Explains, MayExplain, Inherits, ByCategories

\* A value looks at its header and its definition alone.
LEMMA SameGround ==
    ASSUME NEW v, NEW hs, NEW codes, NEW gs, NEW marks,
           Stands(v, hs, codes),
           v # Nothing /\ v.header # Nothing => gs[v.header] = hs[v.header],
           v # Nothing => (v.definition \in marks <=> v.definition \in codes)
    PROVE  Stands(v, gs, marks)
  BY DEF Stands, MayExplain, Inherits, ByCategories

\* What the triggers let pass leaves the values that it touches with their ground.
LEMMA PassedStands ==
    ASSUME ValuesTypeOK, guarded, NEW s \in Statement, TriggersPass(s),
           NEW x \in Value, Touches(s, x),
           s.table = "value" \/ Stands(values[x], headers, categorical)
    PROVE  StandsAfter(s, x)
<1>1. CASE s.table = "value"
  <2>1. /\ RowAfter(s, x) = s.new
        /\ HeadersThen(s) = headers
        /\ CodesThen(s) = categorical
    BY <1>1 DEF Touches, RowAfter, HeadersThen, CodesThen
  <2>2. s.new # Nothing => ValueEnters(s.new)
    BY <1>1 DEF TriggersPass
  <2>3. s.new # Nothing /\ Inherited(s.new) =>
           s.new.header # Nothing /\ MayExplain(headers[s.new.header], s.new, categorical)
    BY ExactIsEnough DEF Inherited
  <2> QED
    BY <2>1, <2>2, <2>3 DEF StandsAfter, Stands, ValueEnters, InContext
<1>2. CASE s.table = "header"
  <2>1. /\ RowAfter(s, x) = values[x]
        /\ HeadersThen(s) = [headers EXCEPT ![s.row] = s.new]
        /\ CodesThen(s) = categorical
    BY <1>2 DEF RowAfter, HeadersThen, CodesThen
  <2>2. values[x] # Nothing /\ values[x].header = s.row
    BY <1>2 DEF Touches, Grounds
  <2>3. HeadersThen(s)[s.row] = s.new
    BY <1>2, <2>1, StatementForms DEF ValuesTypeOK
  <2>4. /\ s.new.context = values[x].context
        /\ values[x].present => Own(values[x]) \/ MayExplain(s.new, values[x], categorical)
    BY <1>2, <2>2 DEF TriggersPass, HeaderChanges, Depends
  <2>5. s.row # Nothing
    BY <1>2, StatementForms, NothingAssumption
  <2> QED
    BY <2>1, <2>2, <2>3, <2>4, <2>5 DEF StandsAfter, Stands
<1>3. CASE s.table = "definition"
  <2>1. /\ RowAfter(s, x) = values[x]
        /\ HeadersThen(s) = headers
        /\ CodesThen(s) = CodesAfter(s)
    BY <1>3 DEF RowAfter, HeadersThen, CodesThen
  <2>2. values[x] # Nothing /\ values[x].definition = s.row
    BY <1>3 DEF Touches, Grounds
  <2>3. values[x].present =>
           \/ Own(values[x])
           \/ /\ values[x].header # Nothing
              /\ MayExplain(headers[values[x].header], values[x], CodesAfter(s))
    BY <1>3, <2>2 DEF TriggersPass, DefinitionChanges
  <2> QED
    BY <1>3, <2>1, <2>2, <2>3 DEF StandsAfter, Stands
<1> QED
  BY <1>1, <1>2, <1>3, StatementForms

LEMMA PassedLeaves ==
    ASSUME GroundInv, guarded, NEW s \in Statement, TriggersPass(s),
           NEW x \in Value, Touches(s, x)
    PROVE  Leaves(s, x)
  BY PassedStands DEF GroundInv, Leaves

\* What a statement writes is what it was said to leave.
LEMMA AppliedRows ==
    ASSUME NEW s \in Statement, NEW unseen, Apply(s, unseen), ValuesTypeOK, NEW x \in Value
    PROVE  values'[x] = RowAfter(s, x) /\ headers' = HeadersThen(s)
              /\ categorical' = CodesThen(s)
  BY StatementForms DEF Apply, RowAfter, HeadersThen, CodesThen, ValuesTypeOK

\* It leaves alone what it does not touch.
LEMMA UntouchedGround ==
    ASSUME ValuesTypeOK, NEW s \in Statement, NEW v \in ValueRow \cup {Nothing},
           ~Grounds(s, v)
    PROVE  /\ (v # Nothing /\ v.header # Nothing) =>
                 HeadersThen(s)[v.header] = headers[v.header]
           /\ v # Nothing => (v.definition \in CodesThen(s) <=> v.definition \in categorical)
<1>1. v # Nothing => v.header \in Header \cup {Nothing}
  BY DEF ValueRow
<1>2. ASSUME v # Nothing, v.header # Nothing
      PROVE  HeadersThen(s)[v.header] = headers[v.header]
  BY <1>1, <1>2, StatementForms DEF HeadersThen, Grounds, ValuesTypeOK
<1>3. ASSUME v # Nothing
      PROVE  v.definition \in CodesThen(s) <=> v.definition \in categorical
  BY <1>3, StatementForms DEF CodesThen, CodesAfter, Grounds
<1>4. (v # Nothing /\ v.header # Nothing) => HeadersThen(s)[v.header] = headers[v.header]
  BY <1>2
<1>5. v # Nothing => (v.definition \in CodesThen(s) <=> v.definition \in categorical)
  BY <1>3
<1> QED
  BY <1>4, <1>5

LEMMA UntouchedStands ==
    ASSUME ValuesTypeOK, NEW s \in Statement, NEW unseen, Apply(s, unseen),
           NEW x \in Value, ~Touches(s, x), Stands(values[x], headers, categorical)
    PROVE  Stands(values'[x], headers', categorical')
<1>1. values'[x] = values[x] /\ headers' = HeadersThen(s) /\ categorical' = CodesThen(s)
  BY AppliedRows DEF RowAfter, Touches
<1>2. CASE s.table = "value"
  BY <1>1, <1>2 DEF HeadersThen, CodesThen
<1>3. CASE s.table # "value"
  <2>1. values[x] \in ValueRow \cup {Nothing} /\ ~Grounds(s, values[x])
    BY <1>3 DEF Touches, ValuesTypeOK
  <2> QED
    BY <1>1, <2>1, UntouchedGround, SameGround
<1> QED
  BY <1>2, <1>3

\* What an open statement will leave is not disturbed by those that do not
\* overtake it.
LEMMA NotOvertaken ==
    ASSUME ValuesTypeOK, ValuesTypeOK', NEW s \in Statement, NEW unseen, Apply(s, unseen),
           NEW o \in open', NEW x \in Value, Touches(o, x)', <<o, x>> \notin missed'
    PROVE  /\ o \in open /\ Touches(o, x) /\ <<o, x>> \notin missed
           /\ ~Touches(s, x)
           /\ StandsAfter(o, x) => StandsAfter(o, x)'
<1>1. o \in open \ {s} /\ <<o, x>> \notin missed /\ <<o, x>> \notin Overtakes(s)
  BY DEF Apply
<1>2. ~Touches(s, x) /\ ~(o.table = "value" /\ o.row = x /\ Grounds(s, o.new))
  BY <1>1, Zenon DEF Overtakes
<1>3. values'[x] = values[x] /\ headers' = HeadersThen(s) /\ categorical' = CodesThen(s)
  BY <1>2, AppliedRows DEF RowAfter, Touches
<1>4. Touches(o, x)
  BY <1>3 DEF Touches, Grounds
<1>5. o \in Statement
  BY <1>1 DEF ValuesTypeOK
<1>6. ASSUME StandsAfter(o, x) PROVE StandsAfter(o, x)'
  <2> DEFINE v == RowAfter(o, x)
  <2>1. RowAfter(o, x)' = v /\ v \in ValueRow \cup {Nothing}
    BY <1>3, <1>5, StatementForms DEF RowAfter, ValuesTypeOK
  <2>2. /\ v # Nothing /\ v.header # Nothing => HeadersThen(s)[v.header] = headers[v.header]
        /\ v # Nothing => (v.definition \in CodesThen(s) <=> v.definition \in categorical)
    <3>1. CASE s.table = "value"
      BY <3>1 DEF HeadersThen, CodesThen
    <3>2. CASE s.table # "value"
      <4>1. ~Grounds(s, v)
        BY <1>2, <3>2 DEF RowAfter, Touches
      <4> QED
        BY <2>1, <4>1, UntouchedGround
    <3> QED
      BY <3>1, <3>2
  <2>3. v # Nothing => v.header \in Header \cup {Nothing}
    BY <2>1 DEF ValueRow
  <2>4. v # Nothing /\ v.header # Nothing => HeadersThen(o)'[v.header] = HeadersThen(o)[v.header]
    BY <1>3, <1>5, <2>2, <2>3, StatementForms DEF HeadersThen, ValuesTypeOK
  <2>5. v # Nothing => (v.definition \in CodesThen(o)' <=> v.definition \in CodesThen(o))
    BY <1>3, <2>2 DEF CodesThen, CodesAfter
  <2>6. Stands(v, HeadersThen(o), CodesThen(o))
    BY <1>6 DEF StandsAfter
  <2>7. Stands(v, HeadersThen(o)', CodesThen(o)')
    <3> HIDE DEF v
    <3> QED
      BY <2>4, <2>5, <2>6, SameGround
  <2> QED
    BY <2>1, <2>7 DEF StandsAfter
<1> QED
  BY <1>1, <1>2, <1>4, <1>6

LEMMA ApplyKeeps ==
    ASSUME GroundInv, ValuesTypeOK', NEW s \in Statement, NEW unseen \in SUBSET Value,
           Apply(s, unseen),
           guarded => \A x \in Value : Touches(s, x) => x \in unseen \/ Leaves(s, x),
           ~guarded => Touched(s) \subseteq unseen
    PROVE  GroundInv'
<1>1. /\ dialect' = "sqlite" => open' = {} /\ ~counted'
      /\ ~(guarded' /\ counted')
  BY DEF Apply, GroundInv
<1>2. ASSUME guarded' \/ counted', NEW x \in Value \ loose'
      PROVE  Stands(values'[x], headers', categorical')
  <2>1. /\ guarded \/ counted
        /\ x \notin unseen
        /\ x \in loose => s.table = "value" /\ x = s.row
    BY <1>2 DEF Apply
  <2>2. CASE Touches(s, x)
    <3>1. guarded
      BY <2>1, <2>2 DEF Touched
    <3>2. StandsAfter(s, x)
      BY <2>1, <2>2, <3>1 DEF Leaves
    <3> QED
      BY <3>2, AppliedRows DEF StandsAfter, GroundInv
  <2>3. CASE ~Touches(s, x)
    <3>1. x \notin loose
      BY <2>1, <2>3 DEF Touches
    <3>2. Stands(values[x], headers, categorical)
      BY <2>1, <3>1 DEF GroundInv
    <3> QED
      BY <2>3, <3>2, UntouchedStands DEF GroundInv
  <2> QED
    BY <2>2, <2>3
<1>3. ASSUME guarded', NEW o \in open', NEW x \in Value, Touches(o, x)', <<o, x>> \notin missed'
      PROVE  Leaves(o, x)'
  <2>1. /\ o \in open /\ Touches(o, x) /\ <<o, x>> \notin missed
        /\ ~Touches(s, x)
        /\ StandsAfter(o, x) => StandsAfter(o, x)'
    BY <1>3, NotOvertaken DEF GroundInv
  <2>2. guarded
    BY <1>3 DEF Apply
  <2>3. Leaves(o, x)
    BY <2>1, <2>2 DEF GroundInv
  <2>4. x \in loose => x \in loose'
    BY <2>1, <2>2 DEF Apply, Touches
  <2> QED
    BY <2>1, <2>3, <2>4 DEF Leaves
<1> QED
  BY <1>1, <1>2, <1>3 DEF GroundInv

\* Whatever changes neither rows nor what is loose.
LEMMA RowsStay ==
    ASSUME UNCHANGED <<rowVars, loose>>
    PROVE  /\ \A x : Stands(values[x], headers, categorical)' <=> Stands(values[x], headers, categorical)
           /\ \A o, x : Leaves(o, x)' <=> Leaves(o, x)
           /\ \A o, x : Touches(o, x)' <=> Touches(o, x)
  BY DEF rowVars, Stands, Leaves, StandsAfter, RowAfter, HeadersThen, CodesThen, CodesAfter,
         Touches, Grounds

LEMMA GroundKept ==
    ASSUME GroundInv, ValuesTypeOK', [ValuesNext]_valueVars
    PROVE  GroundInv'
<1>1. CASE SqlValue \/ SqlHeader \/ SqlDefinition \/ ModelValue
  <2>1. PICK s \in Statement : AtOnce(s) \/ LeaveOpen(s)
    BY <1>1, WritersWrite
  <2>2. CASE AtOnce(s)
    <3> DEFINE unseen == IF guarded THEN {} ELSE Touched(s)
    <3>1. TriggersPass(s) /\ Apply(s, unseen) /\ unseen \in SUBSET Value
      BY <2>2 DEF AtOnce, Touched
    <3>2. guarded => \A x \in Value : Touches(s, x) => Leaves(s, x)
      BY <3>1, PassedLeaves
    <3>3. ~guarded => Touched(s) \subseteq unseen
      OBVIOUS
    <3> HIDE DEF unseen
    <3> QED
      BY <3>1, <3>2, <3>3, ApplyKeeps
  <2>3. CASE LeaveOpen(s)
    <3>1. /\ dialect = "postgresql" /\ TriggersPass(s) /\ open' = open \cup {s}
          /\ UNCHANGED <<dialect, guarded, rowVars, missed, loose, counted>>
      BY <2>3 DEF LeaveOpen
    <3>2. guarded => \A x \in Value : Touches(s, x) => Leaves(s, x)
      BY <3>1, PassedLeaves
    <3> QED
      BY <3>1, <3>2, RowsStay DEF GroundInv, rowVars
  <2> QED
    BY <2>1, <2>2, <2>3
<1>2. CASE SqlRecreate
  <2>1. PICK s \in Statement : Apply(s, Touched(s))
    BY <1>2, RecreatorsWrite
  <2>2. Touched(s) \in SUBSET Value
    BY DEF Touched
  <2> QED
    BY <2>1, <2>2, ApplyKeeps DEF Touched
<1>3. CASE CommitOpen
  <2>1. PICK s \in open : Apply(s, {x \in Touched(s) : ~guarded \/ <<s, x>> \in missed})
    BY <1>3 DEF CommitOpen
  <2> DEFINE unseen == {x \in Touched(s) : ~guarded \/ <<s, x>> \in missed}
  <2>2. s \in Statement /\ unseen \in SUBSET Value
    BY DEF Touched, GroundInv, ValuesTypeOK
  <2>3. guarded => \A x \in Value : Touches(s, x) => x \in unseen \/ Leaves(s, x)
    BY DEF Touched, GroundInv
  <2>4. ~guarded => Touched(s) \subseteq unseen
    OBVIOUS
  <2>5. Apply(s, unseen)
    BY <2>1
  <2> HIDE DEF unseen
  <2> QED
    BY <2>2, <2>3, <2>4, <2>5, ApplyKeeps
<1>4. CASE AbortOpen
  <2>1. PICK s \in open : open' = open \ {s} /\ missed' = {p \in missed : p[1] # s}
    BY <1>4 DEF AbortOpen
  <2>2. ASSUME NEW o \in open', NEW x, <<o, x>> \in missed PROVE <<o, x>> \in missed'
    BY <2>1, <2>2
  <2>3. UNCHANGED <<dialect, guarded, rowVars, loose, counted>>
    BY <1>4 DEF AbortOpen
  <2> QED
    BY <2>1, <2>2, <2>3, RowsStay DEF GroundInv, rowVars
<1>5. CASE InstallGuards \/ CountValues
  <2>1. /\ UNCHANGED rowVars /\ loose' = {} /\ UNCHANGED open
        /\ \A x \in Value : values[x] # Nothing => Found(values[x])
    BY <1>5 DEF InstallGuards, CountValues, AllFound
  <2>2. ASSUME NEW x \in Value PROVE Stands(values[x], headers, categorical)
    BY <2>1, ExactIsEnough DEF Found, InContext, Stands
  <2>3. \A x \in Value : Stands(values'[x], headers', categorical')
    BY <2>1, <2>2 DEF rowVars
  <2>4. guarded' => open' = {}
    BY <1>5 DEF InstallGuards, CountValues, GroundInv
  <2>5. /\ dialect' = "sqlite" => open' = {} /\ ~counted'
        /\ ~(guarded' /\ counted')
    BY <1>5 DEF InstallGuards, CountValues, GroundInv
  <2> QED
    BY <2>3, <2>4, <2>5 DEF GroundInv
<1>6. CASE CompleteInstall
  <2>1. UNCHANGED <<rowVars, loose>> /\ open' = {} /\ ~counted' /\ counted
    BY <1>6 DEF CompleteInstall
  <2> QED
    BY <2>1, RowsStay DEF GroundInv
<1>7. CASE AbandonInstall \/ DropGuards
  <2>1. ~guarded' /\ ~counted' /\ UNCHANGED <<dialect, open>>
    BY <1>7 DEF AbandonInstall, DropGuards, GroundInv
  <2> QED
    BY <2>1 DEF GroundInv
<1>8. CASE UNCHANGED valueVars
  <2>1. UNCHANGED <<rowVars, loose>> /\ UNCHANGED <<dialect, guarded, open, missed, counted>>
    BY <1>8 DEF valueVars
  <2> QED
    BY <2>1, RowsStay DEF GroundInv
<1> QED
  BY <1>1, <1>2, <1>3, <1>4, <1>5, <1>6, <1>7, <1>8 DEF ValuesNext

LEMMA ModelsAreHeard ==
    ASSUME NEW v \in ValueRow, ModelAccepts(v) PROVE ValueEnters(v)
  BY DEF ModelAccepts, ValueEnters, ModelInherits, Inherited, Explains, Inherits,
         ByCategories, InContext

(* However values, headers and definitions change, be their transactions one *)
(* after another or open together, and whenever the triggers came, a value   *)
(* that is present keeps its ground unless it is loose, for any rows; and    *)
(* the triggers refuse nothing that the models accept.                       *)
THEOREM ValuesAlwaysHoldGround == ValuesSpec => []ValuesHoldGround
<1>1. ValuesInit => GroundInv
  BY ValuesTypedInitially DEF ValuesInit, GroundInv
<1>2. GroundInv /\ ValuesTypeOK' /\ [ValuesNext]_valueVars => GroundInv'
  BY GroundKept
<1>3. GroundInv => ValuesHoldGround
  BY ModelsAreHeard DEF GroundInv, Stands, InContext, ValuesHoldGround
<1> QED
  BY <1>1, <1>2, <1>3, ValuesTyped, PTL DEF ValuesSpec
=============================================================================
