--------------------------- MODULE DocumentLineage ---------------------------
(***************************************************************************)
(* Captured documents and their translations.                              *)
(*                                                                         *)
(* A document is written once and never changed.  It binds two variants to *)
(* roles: ORIGINAL, the text as captured, and PROJECT_PRIMARY, the text in *)
(* the Project's language, which analysts quote.  A synchronized document  *)
(* stores sentences on both sides and an alignment between them, and only  *)
(* that alignment may tell a reader which original sentences stand behind  *)
(* a quoted fragment.  An edit of the translation makes a new document     *)
(* that claims no alignment; a realignment makes one that claims a new one.*)
(*                                                                         *)
(* Each command is one transaction that inserts rows nobody updates.       *)
(***************************************************************************)
EXTENDS Integers, Sequences, FiniteSets

CONSTANTS
    Document,      \* documents, by their code in their workspace
    Workspace,
    Language,
    Segmentation,  \* segmentation versions
    Text,          \* normalized texts
    Blank,         \* Text -> a sequence: is the character white space?
    LanguageOf,    \* Workspace -> the primary language of its Project
    Und,           \* the language of a Project that has not been told its own
    Submission,    \* what callers submit
    Anchor,        \* the ranges that callers quote
    None

Variant == [text : Text, language : Language, segmentation : Segmentation]

\* A range of characters, the first one counted as 0 and the last not included.
Offsets == [from : Nat, to : Nat]

\* Sentences are known by their position; a component of an alignment says
\* which sentences of the two sides say the same.
Component == [originals : SUBSET (Nat \ {0}), primaries : SUBSET (Nat \ {0})]

Kind == {"INITIAL_INGEST", "TRANSLATION_EDIT", "REALIGNMENT"}

SubmissionType ==
    [kind : Kind, document : Document, workspace : Workspace \cup {None},
     predecessor : Document \cup {None}, original : Variant, primary : Variant,
     originals : Seq(Offsets), primaries : Seq(Offsets),
     components : SUBSET Component, provenance : BOOLEAN]

ASSUME SubmissionAssumption ==
    /\ Submission \subseteq SubmissionType
    /\ Anchor \subseteq Offsets
    /\ \A s \in Submission :
          IF s.kind = "INITIAL_INGEST" THEN s.workspace # None /\ s.predecessor = None
          ELSE s.workspace = None /\ s.predecessor # None

ASSUME TextAssumption ==
    /\ Blank \in [Text -> Seq(BOOLEAN)]
    /\ LanguageOf \in [Workspace -> Language]
    /\ Und \in Language
    /\ None \notin Document \cup Workspace \cup Variant

VARIABLES
    documents,  \* Document -> its row with its version, variants and sentences
    fragments,  \* TextFragment rows with an EXACT anchor
    declared    \* Document -> the components that its author submitted

vars == <<documents, fragments, declared>>

EdgeKind == {"ONE_TO_ONE", "ONE_TO_MANY", "MANY_TO_ONE"}
Edge == [original : Nat \ {0}, primary : Nat \ {0}, cardinality : EdgeKind]

\* A document imported by a package has no variants and no root.
Row ==
    [kind : Kind \cup {"LEGACY_CAPTURE"}, workspace : Workspace,
     predecessor : Document \cup {None}, root : Document \cup {None},
     synchronized : BOOLEAN, original : Variant \cup {None},
     primary : Variant \cup {None}, originals : Seq(Offsets), primaries : Seq(Offsets),
     edges : SUBSET Edge, translatedFrom : Document \cup {None}]

Fragment == [document : Document, pinned : BOOLEAN, anchor : Offsets]

ASSUME NoneAssumption == None \notin Row

LineageTypeOK ==
    /\ documents \in [Document -> Row \cup {None}]
    /\ fragments \subseteq Fragment
    /\ declared \in [Document -> SUBSET Component]

Stored(d) == documents[d] # None

-----------------------------------------------------------------------------
(* What a submission must satisfy.                                         *)

Monolingual(s) == s.original.language = s.primary.language

\* One variant serves both roles exactly when their language is the same.
RolesAgree(s, w) ==
    /\ LanguageOf[w] # Und
    /\ s.primary.language = LanguageOf[w]
    /\ Monolingual(s) => s.primary = s.original /\ ~s.provenance
    /\ ~Monolingual(s) => s.provenance

\* Sentences are disjoint nonempty ranges of the text, in its order.
InOrder(text, sentences) ==
    /\ \A i \in DOMAIN sentences :
          /\ sentences[i].from < sentences[i].to
          /\ sentences[i].to <= Len(Blank[text])
    /\ \A i, j \in DOMAIN sentences : i < j => sentences[i].to <= sentences[j].from

\* All that they leave out is white space.
CoverText(text, sentences) ==
    \A k \in DOMAIN Blank[text] :
       Blank[text][k] \/ \E i \in DOMAIN sentences :
                            sentences[i].from < k /\ k <= sentences[i].to

\* Mutant: text between and after the sentences is not looked at.
NormalisedAnyCover(variant, sentences, complete) ==
    /\ sentences # <<>>
    /\ InOrder(variant.text, sentences)
    /\ complete \in BOOLEAN

Normalised(variant, sentences, complete) ==
    /\ sentences # <<>>
    /\ InOrder(variant.text, sentences)
    /\ complete => CoverText(variant.text, sentences)

\* The components part both sides, one sentence of either against any of the
\* other; within one variant a sentence stands for itself.
ValidComponents(s) ==
    /\ \A c \in s.components :
          /\ c.originals # {} /\ c.primaries # {}
          /\ Cardinality(c.originals) = 1 \/ Cardinality(c.primaries) = 1
          /\ Monolingual(s) => Cardinality(c.originals) = 1 /\ c.originals = c.primaries
    /\ \A b, c \in s.components :
          b # c => b.originals \cap c.originals = {} /\ b.primaries \cap c.primaries = {}
    /\ UNION {c.originals : c \in s.components} = DOMAIN s.originals
    /\ UNION {c.primaries : c \in s.components} = DOMAIN s.primaries

Synchronizes(s) ==
    /\ Normalised(s.original, s.originals, TRUE)
    /\ Normalised(s.primary, s.primaries, TRUE)
    /\ Monolingual(s) => s.primaries = s.originals
    /\ ValidComponents(s)

\* Sentences are optional as long as nothing is aligned.
ClaimsNothing(s) ==
    /\ s.components = {}
    /\ s.originals # <<>> => Normalised(s.original, s.originals, FALSE)
    /\ s.primaries # <<>> => Normalised(s.primary, s.primaries, FALSE)

-----------------------------------------------------------------------------
(* What is stored.                                                         *)

CardinalityOf(originals, primaries) ==
    IF Cardinality(originals) = 1
    THEN IF Cardinality(primaries) = 1 THEN "ONE_TO_ONE" ELSE "ONE_TO_MANY"
    ELSE "MANY_TO_ONE"

\* Mutant: the n-th original sentence is aligned with the n-th primary one.
EdgesByPosition(components) ==
    {[original |-> n, primary |-> n, cardinality |-> "ONE_TO_ONE"] :
        n \in UNION {c.originals : c \in components} \cap UNION {c.primaries : c \in components}}

Edges(components) ==
    UNION {{[original |-> o, primary |-> p,
             cardinality |-> CardinalityOf(c.originals, c.primaries)] :
               o \in c.originals, p \in c.primaries} : c \in components}

\* The rows of one command.  A translation names the document whose ORIGINAL
\* it translates: the predecessor, if there is one.
CreateResult(s, w, root, synchronized) ==
    /\ documents[s.document] = None
    /\ RolesAgree(s, w)
    /\ IF synchronized THEN Synchronizes(s) ELSE ClaimsNothing(s)
    /\ documents' = [documents EXCEPT ![s.document] =
          [kind |-> s.kind, workspace |-> w, predecessor |-> s.predecessor,
           root |-> root, synchronized |-> synchronized,
           original |-> s.original, primary |-> s.primary,
           originals |-> s.originals, primaries |-> s.primaries,
           edges |-> Edges(s.components),
           translatedFrom |-> IF ~s.provenance THEN None
                              ELSE IF s.predecessor # None THEN s.predecessor
                              ELSE s.document]]
    /\ declared' = [declared EXCEPT ![s.document] = s.components]
    /\ UNCHANGED fragments

IngestInitial(s) ==
    /\ s.kind = "INITIAL_INGEST"
    /\ CreateResult(s, s.workspace, s.document, TRUE)

\* The predecessor has its roles bound: no package brought it.
HasRoles(d) == Stored(d) /\ documents[d].original # None

KeepsOriginal(s) ==
    /\ HasRoles(s.predecessor)
    /\ documents[s.predecessor].original = s.original

KeepsPrimary(s) == documents[s.predecessor].primary = s.primary

TranslationEdit(s) ==
    /\ s.kind = "TRANSLATION_EDIT"
    /\ KeepsOriginal(s)
    /\ ~KeepsPrimary(s)
    /\ LET p == documents[s.predecessor] IN CreateResult(s, p.workspace, p.root, FALSE)

Realign(s) ==
    /\ s.kind = "REALIGNMENT"
    /\ KeepsOriginal(s)
    /\ KeepsPrimary(s)
    /\ LET p == documents[s.predecessor] IN CreateResult(s, p.workspace, p.root, TRUE)

\* A document that a package brings: nothing but its capture.
ImportLegacy(d, w) ==
    /\ documents[d] = None
    /\ documents' = [documents EXCEPT ![d] =
          [kind |-> "LEGACY_CAPTURE", workspace |-> w, predecessor |-> None,
           root |-> None, synchronized |-> FALSE, original |-> None,
           primary |-> None, originals |-> <<>>, primaries |-> <<>>,
           edges |-> {}, translatedFrom |-> None]]
    /\ UNCHANGED <<fragments, declared>>

\* An analyst quotes the primary text.  The end may lie beyond the text, as the
\* slice is only required not to be empty.
CreateFragment(d, a) ==
    /\ HasRoles(d)
    /\ a.from < a.to
    /\ a.from < Len(Blank[documents[d].primary.text])
    /\ fragments' = fragments \cup {[document |-> d, pinned |-> TRUE, anchor |-> a]}
    /\ UNCHANGED <<documents, declared>>

\* A package quotes what it brings, without a variant to pin.
ImportFragment(d, a) ==
    /\ Stored(d) /\ ~HasRoles(d)
    /\ a.from < a.to
    /\ fragments' = fragments \cup {[document |-> d, pinned |-> FALSE, anchor |-> a]}
    /\ UNCHANGED <<documents, declared>>

LineageInit ==
    /\ documents = [d \in Document |-> None]
    /\ fragments = {}
    /\ declared = [d \in Document |-> {}]

LineageNext ==
    \/ \E s \in Submission : IngestInitial(s) \/ TranslationEdit(s) \/ Realign(s)
    \/ \E d \in Document, w \in Workspace : ImportLegacy(d, w)
    \/ \E d \in Document, a \in Anchor : CreateFragment(d, a) \/ ImportFragment(d, a)

LineageSpec == LineageInit /\ [][LineageNext]_vars

-----------------------------------------------------------------------------
(* What the drilldown tells a reader.  It trusts no writer: the stored rows *)
(* are proved again before a counterpart is shown.                          *)

RangesComplete(variant, sentences) ==
    /\ sentences # <<>>
    /\ InOrder(variant.text, sentences)
    /\ CoverText(variant.text, sentences)

Originals(edges, p) == {e.original : e \in {x \in edges : x.primary = p}}
Primaries(edges, o) == {e.primary : e \in {x \in edges : x.original = o}}

\* Every connected component of the stored graph is complete and of the shape
\* that its edges say, and no sentence is left out.
ComponentsProven(row) ==
    /\ {e.original : e \in row.edges} = DOMAIN row.originals
    /\ {e.primary : e \in row.edges} = DOMAIN row.primaries
    /\ \A e \in row.edges :
          LET os == Originals(row.edges, e.primary)
              ps == Primaries(row.edges, e.original)
          IN /\ \A o \in os : Primaries(row.edges, o) = ps
             /\ \A p \in ps : Originals(row.edges, p) = os
             /\ Cardinality(os) = 1 \/ Cardinality(ps) = 1
             /\ e.cardinality = CardinalityOf(os, ps)

\* The alignment of the very document that the fragment was quoted from.
Aligned(f) ==
    LET row == documents[f.document] IN
    /\ row.synchronized /\ f.pinned
    /\ RangesComplete(row.original, row.originals)
    /\ RangesComplete(row.primary, row.primaries)
    /\ row.original = row.primary => \A e \in row.edges : e.original = e.primary
    /\ ComponentsProven(row)

Quoted(f, primaries) ==
    {i \in DOMAIN primaries : primaries[i].from < f.anchor.to /\ f.anchor.from < primaries[i].to}

\* The original sentences shown with a fragment; none if none can be proved.
OriginalSentences(f) ==
    LET row == documents[f.document] IN
    IF Aligned(f)
    THEN UNION {Originals(row.edges, p) : p \in Quoted(f, row.primaries)}
    ELSE {}

-----------------------------------------------------------------------------
(* Properties.                                                             *)

\* A reader is shown exactly the original sentences that the author of the
\* quoted document declared to say what the quoted sentences say; of an edited
\* or imported document nothing.
OriginalsAreDeclared ==
    \A f \in fragments :
       LET row == documents[f.document] IN
       OriginalSentences(f) =
          UNION {c.originals : c \in {b \in declared[f.document] :
                                         b.primaries \cap Quoted(f, row.primaries) # {}}}

\* What the writer accepts as synchronized the reader can prove again: whoever
\* quotes a visible character of it is shown an original.
SynchronizedIsShown ==
    \A f \in fragments :
       LET row == documents[f.document] IN
       /\ row.synchronized
       /\ \E k \in DOMAIN Blank[row.primary.text] :
             f.anchor.from < k /\ k <= f.anchor.to /\ ~Blank[row.primary.text][k]
       => OriginalSentences(f) # {}

\* A tree of derivatives has one root, its initial ingest, and every document in
\* it lives in the root's workspace and has the root's original, which is also
\* what its translation says that it translates; realignments keep the primary
\* text of their predecessor and edits change it.
Derived(d) ==
    LET row == documents[d]
        pred == documents[row.predecessor]
    IN /\ row.predecessor \in Document /\ HasRoles(row.predecessor)
       /\ row.root = pred.root
       /\ row.kind = "REALIGNMENT" <=> row.primary = pred.primary

InTree(d) ==
    LET row == documents[d]
        root == documents[row.root]
    IN /\ row.root \in Document /\ HasRoles(row.root)
       /\ root.kind = "INITIAL_INGEST" /\ root.root = row.root
       /\ root.workspace = row.workspace /\ root.original = row.original
       /\ row.kind = "INITIAL_INGEST" <=> row.root = d
       /\ row.kind # "INITIAL_INGEST" => Derived(d)
       /\ row.translatedFrom # None =>
             /\ row.translatedFrom \in Document /\ HasRoles(row.translatedFrom)
             /\ documents[row.translatedFrom].original = row.original

OneOriginalPerTree == \A d \in Document : HasRoles(d) => InTree(d)

\* Whatever was derived from it and however it was aligned again, the original
\* of a tree is one, and what a reader of it is shown was declared by an author.
OriginalsHold == OneOriginalPerTree /\ OriginalsAreDeclared
=============================================================================
