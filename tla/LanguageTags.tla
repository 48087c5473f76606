---------------------------- MODULE LanguageTags ----------------------------
(***************************************************************************)
(* The well-formedness and the casing of language tags (RFC 5646).         *)
(*                                                                         *)
(* A tag is the sequence of its subtags; of a subtag matter its length,    *)
(* its alphabet, whether it starts with a digit, and its case.  Its name   *)
(* is written in small letters, and tells all but the case.                *)
(***************************************************************************)
EXTENDS Integers, Sequences, SequencesExt

CONSTANTS
    Word,           \* what subtags are, but for their case
    Grandfathered,  \* the tags of the closed list, as the list spells them
    MaxLength,
    None

VARIABLE typed  \* a tag that somebody types, subtag by subtag

Case == {"lower", "upper", "title"}
Form == {"alpha", "digit", "alnum", "other"}
Subtag ==
    {[name |-> w.name, size |-> w.size, form |-> w.form, digit |-> w.digit, case |-> c] :
        w \in Word, c \in Case}

ASSUME TagAssumption ==
    /\ Word \subseteq [name : STRING, size : Nat, form : Form, digit : BOOLEAN]
    /\ \A w, v \in Word : w.name = v.name => w = v
    /\ \A w \in Word :
          /\ w.name = "x" => w.form = "alpha" /\ w.size = 1
          /\ w.form = "alpha" => ~w.digit
    /\ \A g \in Grandfathered : g \in Seq(Subtag) /\ \A k \in DOMAIN g : g[k].form # "other"
    /\ None \notin Seq(Subtag)

Alpha(s, sizes) == s.form = "alpha" /\ s.size \in sizes
Alnum(s, sizes) == s.form # "other" /\ s.size \in sizes

Extlang(s) == Alpha(s, {3})
Script(s) == Alpha(s, {4})
Region(s) == Alpha(s, {2}) \/ (s.form = "digit" /\ s.size = 3)
Variant(s) == Alnum(s, 5..8) \/ (Alnum(s, {4}) /\ s.digit)
Singleton(s) == Alnum(s, {1}) /\ s.name # "x"
Extension(s) == Alnum(s, 2..8)
PrivateUse(s) == Alnum(s, 1..8)

Names(t) == [k \in DOMAIN t |-> t[k].name]
Sizes(t) == [k \in DOMAIN t |-> t[k].size]
Sum(sizes) == FoldSeq(LAMBDA m, n : m + n, 0, sizes)

\* With a hyphen between any two subtags.
TooLong(t) == Sum(Sizes(t)) + Len(t) - 1 > MaxLength

-----------------------------------------------------------------------------
(* The parser takes as much as it can at each place.                       *)

\* The first place of t from i on that is not one of those that fit.
After(t, i, fit) == Min((i..(Len(t) + 1)) \ fit)

\* Mutant: any number of them.
AfterOneGreedily(t, i, fit) == After(t, i, fit)

AfterOne(t, i, fit) == IF i \in fit THEN i + 1 ELSE i

AfterExtlangs(t) ==
    IF t[1].size \in 2..3 THEN Min({5, After(t, 2, {k \in DOMAIN t : Extlang(t[k])})}) ELSE 2
AfterScript(t) == AfterOne(t, AfterExtlangs(t), {k \in DOMAIN t : Script(t[k])})
AfterRegion(t) == AfterOne(t, AfterScript(t), {k \in DOMAIN t : Region(t[k])})
AfterVariants(t) == After(t, AfterRegion(t), {k \in DOMAIN t : Variant(t[k])})
AfterExtensions(t) ==
    LET i == AfterVariants(t)
    IN IF i <= Len(t) /\ Singleton(t[i])
       THEN After(t, i, {k \in DOMAIN t : Singleton(t[k]) \/ Extension(t[k])}) ELSE i
AfterPrivateUse(t) ==
    LET i == AfterExtensions(t)
    IN IF i <= Len(t) /\ t[i].name = "x"
       THEN After(t, i + 1, {k \in DOMAIN t : PrivateUse(t[k])}) ELSE i

NoneTwice(t, places) == \A i, j \in places : t[i].name = t[j].name => i = j

ParsedLanguage(t) ==
    LET extensions == AfterVariants(t)..(AfterExtensions(t) - 1)
        singletons == {k \in extensions : t[k].size = 1}
    IN /\ Alpha(t[1], 2..8)
       /\ NoneTwice(t, AfterRegion(t)..(AfterVariants(t) - 1))
       /\ NoneTwice(t, singletons)
       /\ \A k \in singletons : k + 1 \in extensions \ singletons
       /\ AfterPrivateUse(t) # AfterExtensions(t) + 1
       /\ AfterPrivateUse(t) = Len(t) + 1

ParsedPrivate(t) == Len(t) > 1 /\ After(t, 2, {k \in DOMAIN t : PrivateUse(t[k])}) = Len(t) + 1

\* Scripts start with a capital, alphabetic regions are capitals, all else is small.
CaseAt(t, k) ==
    CASE k = AfterScript(t) - 1 /\ k = AfterExtlangs(t) -> "title"
      [] k = AfterRegion(t) - 1 /\ k = AfterScript(t) /\ t[k].form = "alpha" -> "upper"
      [] OTHER -> "lower"

Canonical(t) ==
    IF t = <<>> \/ TooLong(t) \/ \E k \in DOMAIN t : t[k].form = "other"
    THEN None
    ELSE IF \E g \in Grandfathered : Names(g) = Names(t)
         THEN CHOOSE g \in Grandfathered : Names(g) = Names(t)
    ELSE IF \E k \in DOMAIN t : t[k].size = 0 THEN None
    ELSE IF t[1].name = "x"
         THEN IF ParsedPrivate(t) THEN [k \in DOMAIN t |-> [t[k] EXCEPT !.case = "lower"]] ELSE None
    ELSE IF ParsedLanguage(t) THEN [k \in DOMAIN t |-> [t[k] EXCEPT !.case = CaseAt(t, k)]]
         ELSE None

-----------------------------------------------------------------------------
(* The grammar, without a word on how to find the parts.                   *)

\* From i on, singletons with what extends them, and a private part from p on.
Rest(t, i) ==
    \E p \in i..(Len(t) + 1) :
       /\ \A k \in i..(p - 1) : Singleton(t[k]) \/ Extension(t[k])
       /\ i < p => Singleton(t[i]) /\ Extension(t[p - 1])
       /\ \A k \in i..(p - 2) : Singleton(t[k]) => Extension(t[k + 1])
       /\ \A k, l \in i..(p - 1) : Singleton(t[k]) /\ t[l].name = t[k].name => k = l
       /\ p <= Len(t) => t[p].name = "x" /\ p < Len(t)
       /\ \A k \in (p + 1)..Len(t) : PrivateUse(t[k])

Langtag(t) ==
    \E e \in 2..(Len(t) + 1) : \E s \in {e, e + 1} : \E r \in {s, s + 1} : \E v \in r..(Len(t) + 1) :
       /\ Alpha(t[1], IF e = 2 THEN 2..8 ELSE 2..3) /\ e <= 5
       /\ s <= Len(t) + 1 /\ r <= Len(t) + 1
       /\ \A k \in 2..(e - 1) : Extlang(t[k])
       /\ \A k \in e..(s - 1) : Script(t[k])
       /\ \A k \in s..(r - 1) : Region(t[k])
       /\ \A k \in r..(v - 1) : Variant(t[k])
       /\ \A k, l \in r..(v - 1) : t[l].name = t[k].name => k = l
       /\ Rest(t, v)

WellFormed(t) ==
    /\ t # <<>>
    /\ ~TooLong(t)
    /\ \/ \E g \in Grandfathered : Names(g) = Names(t)
       \/ Langtag(t)
       \/ t[1].name = "x" /\ Len(t) > 1 /\ \A k \in 2..Len(t) : PrivateUse(t[k])

-----------------------------------------------------------------------------
(* Somebody types a tag.                                                   *)

Spell(s) == typed' = Append(typed, s)
Clear == typed' = <<>>

TagInit == typed = <<>>
TagNext == (\E s \in Subtag : Spell(s)) \/ Clear
TagSpec == TagInit /\ [][TagNext]_typed

-----------------------------------------------------------------------------
\* What the parser takes is what the grammar describes, and the tag it gives back
\* is the same one, of which it gives back the same again.
ParsedExactly(t) ==
    /\ (Canonical(t) # None) <=> WellFormed(t)
    /\ Canonical(t) # None =>
          Names(Canonical(t)) = Names(t) /\ Canonical(Canonical(t)) = Canonical(t)

\* The parser of language tags takes what their grammar describes, whatever is typed.
TagsAreParsed == ParsedExactly(typed)
=============================================================================
