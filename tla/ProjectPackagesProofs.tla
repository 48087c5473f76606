----------------------- MODULE ProjectPackagesProofs -----------------------
(***************************************************************************)
(* Theorems about ProjectPackages, and ProjectLanguages and LanguageTags   *)
(* beneath it, for any callers, importers, packages, rows and tags.        *)
(***************************************************************************)
EXTENDS ProjectPackages, TLAPS, WellFoundedInduction

-----------------------------------------------------------------------------
(* Places in a tag.                                                        *)

LEMMA LeastOf ==
    ASSUME NEW S \in SUBSET Nat, S # {}
    PROVE  Min(S) \in S /\ \A y \in S : Min(S) <= y
<1> DEFINE Below == OpToRel(<, Nat)
<1>1. \A x, y \in Nat : y < x => <<y, x>> \in Below
  <2> SUFFICES ASSUME NEW x \in Nat, NEW y \in Nat, y < x
               PROVE  <<y, x>> \in Below
    OBVIOUS
  <2>1. <<y, x>> \in Nat \X Nat /\ <<y, x>>[1] = y /\ <<y, x>>[2] = x
    OBVIOUS
  <2> QED
    BY <2>1 DEF OpToRel
<1>2. IsWellFoundedOn(Below, Nat)
  BY NatLessThanWellFounded
<1> HIDE DEF Below
<1>3. PICK x \in S : \A y \in S : <<y, x>> \notin Below
  BY <1>2, WFMin
<1>4. ASSUME NEW y \in S
      PROVE  x <= y
  <2>1. y \in Nat /\ x \in Nat
    OBVIOUS
  <2>2. ~(y < x)
    BY <1>1, <1>3, <2>1, Zenon
  <2> QED
    BY <2>1, <2>2
<1> QED
  BY <1>4 DEF Min

\* The first place that does not fit, and that nothing else is it.
LEMMA AfterFits ==
    ASSUME NEW t \in Seq(Subtag), NEW i \in 1..(Len(t) + 1), NEW fit \in SUBSET DOMAIN t
    PROVE  /\ After(t, i, fit) \in i..(Len(t) + 1)
           /\ After(t, i, fit) \notin fit
           /\ \A k \in i..(After(t, i, fit) - 1) : k \in fit
<1> DEFINE S == (i..(Len(t) + 1)) \ fit
<1>1. Len(t) + 1 \in S /\ S \in SUBSET Nat
  OBVIOUS
<1>2. Min(S) \in S /\ \A y \in S : Min(S) <= y
  BY <1>1, LeastOf
<1>3. After(t, i, fit) = Min(S)
  BY DEF After
<1> HIDE DEF S
<1>4. Min(S) \in i..(Len(t) + 1) /\ Min(S) \notin fit
  BY <1>2 DEF S
<1>5. \A k \in i..(Min(S) - 1) : k \in fit
  <2> SUFFICES ASSUME NEW k \in i..(Min(S) - 1), k \notin fit
               PROVE  FALSE
    OBVIOUS
  <2>1. k \in S
    BY <1>4 DEF S
  <2> QED
    BY <1>2, <1>4, <2>1
<1> QED
  BY <1>3, <1>4, <1>5

LEMMA AfterIs ==
    ASSUME NEW t \in Seq(Subtag), NEW i \in 1..(Len(t) + 1), NEW fit \in SUBSET DOMAIN t,
           NEW j \in i..(Len(t) + 1), j \notin fit, \A k \in i..(j - 1) : k \in fit
    PROVE  After(t, i, fit) = j
<1> DEFINE a == After(t, i, fit)
<1>1. a \in i..(Len(t) + 1) /\ a \notin fit /\ \A k \in i..(a - 1) : k \in fit
  BY AfterFits
<1>2. ~(a < j) /\ ~(j < a)
  BY <1>1
<1> QED
  BY <1>1, <1>2

-----------------------------------------------------------------------------
(* Words.                                                                  *)

LEMMA SubtagFields ==
    ASSUME NEW s \in Subtag
    PROVE  /\ s = [name |-> s.name, size |-> s.size, form |-> s.form, digit |-> s.digit, case |-> s.case]
           /\ s.size \in Nat /\ s.form \in Form /\ s.case \in Case
           /\ s.name = "x" => s.form = "alpha" /\ s.size = 1
           /\ s.form = "alpha" => ~s.digit
           /\ \A c \in Case : [s EXCEPT !.case = c] \in Subtag
<1>1. PICK w \in Word, c \in Case :
         s = [name |-> w.name, size |-> w.size, form |-> w.form, digit |-> w.digit, case |-> c]
  BY DEF Subtag
<1>2. w \in [name : STRING, size : Nat, form : Form, digit : BOOLEAN]
  BY TagAssumption
<1>3. \A d \in Case : [s EXCEPT !.case = d] =
         [name |-> w.name, size |-> w.size, form |-> w.form, digit |-> w.digit, case |-> d]
  BY <1>1
<1>4. \A d \in Case : [s EXCEPT !.case = d] \in Subtag
  BY <1>3 DEF Subtag
<1>5. s.name = w.name /\ s.size = w.size /\ s.form = w.form /\ s.digit = w.digit /\ s.case = c
  BY <1>1
<1> QED
  BY <1>1, <1>2, <1>4, <1>5, TagAssumption

LEMMA NameTells ==
    ASSUME NEW s \in Subtag, NEW r \in Subtag, s.name = r.name
    PROVE  s.size = r.size /\ s.form = r.form /\ s.digit = r.digit
<1>1. PICK w \in Word, c \in Case :
         s = [name |-> w.name, size |-> w.size, form |-> w.form, digit |-> w.digit, case |-> c]
  BY DEF Subtag
<1>2. PICK v \in Word, d \in Case :
         r = [name |-> v.name, size |-> v.size, form |-> v.form, digit |-> v.digit, case |-> d]
  BY DEF Subtag
<1>3. w = v
  BY <1>1, <1>2, TagAssumption
<1> QED
  BY <1>1, <1>2, <1>3

\* What may stand at one place of the grammar may not stand at the one before it.
LEMMA KindsDiffer ==
    ASSUME NEW s \in Subtag
    PROVE  /\ Extlang(s) => ~Script(s) /\ ~Region(s) /\ ~Variant(s) /\ ~Singleton(s) /\ s.name # "x"
           /\ Script(s) => ~Region(s) /\ ~Variant(s) /\ ~Singleton(s) /\ s.name # "x"
           /\ Region(s) => ~Variant(s) /\ ~Singleton(s) /\ s.name # "x"
           /\ Variant(s) => ~Singleton(s) /\ s.name # "x"
           /\ s.name = "x" => ~Singleton(s) /\ ~Extension(s) /\ s.form = "alpha" /\ s.size = 1
           /\ Singleton(s) => s.size = 1
           /\ Extension(s) => s.size # 1
<1>1. /\ s.size \in Nat /\ s.form \in Form
      /\ s.name = "x" => s.form = "alpha" /\ s.size = 1
      /\ s.form = "alpha" => ~s.digit
  BY SubtagFields
<1> USE DEF Alpha, Alnum
<1>2. s.name = "x" => ~Singleton(s) /\ ~Extension(s) /\ s.form = "alpha" /\ s.size = 1
  BY <1>1 DEF Singleton, Extension
<1>3. (Singleton(s) => s.size = 1) /\ (Extension(s) => s.size # 1)
  BY <1>1 DEF Singleton, Extension
<1>4. (Extlang(s) => s.form = "alpha" /\ s.size = 3) /\ (Script(s) => s.form = "alpha" /\ s.size = 4)
  BY DEF Extlang, Script
<1>5. Region(s) => s.size \in {2, 3} /\ (s.size = 3 => s.form = "digit")
  BY DEF Region
<1>6. Variant(s) => s.size \in 4..8 /\ (s.size = 4 => s.digit)
  BY DEF Variant
<1> QED
  BY <1>1, <1>2, <1>3, <1>4, <1>5, <1>6

-----------------------------------------------------------------------------
(* What the parser takes is a tag of the grammar.                          *)

LEMMA ExtlangsTaken ==
    ASSUME NEW t \in Seq(Subtag), t # <<>>
    PROVE  /\ AfterExtlangs(t) \in 2..(Len(t) + 1) /\ AfterExtlangs(t) <= 5
           /\ AfterExtlangs(t) # 2 => t[1].size \in 2..3
           /\ \A k \in 2..(AfterExtlangs(t) - 1) : Extlang(t[k])
<1> DEFINE fit == {k \in DOMAIN t : Extlang(t[k])}
           a == After(t, 2, fit)
<1>1. Len(t) \in Nat \ {0} /\ fit \in SUBSET DOMAIN t
  OBVIOUS
<1>2. a \in 2..(Len(t) + 1) /\ \A k \in 2..(a - 1) : k \in fit
  BY <1>1, AfterFits
<1>4. AfterExtlangs(t) = IF t[1].size \in 2..3 THEN Min({5, a}) ELSE 2
  BY DEF AfterExtlangs
<1> HIDE DEF a
<1>3. Min({5, a}) \in {5, a} /\ Min({5, a}) <= 5 /\ Min({5, a}) <= a
  <2> DEFINE S == {5, a}
  <2>1. S \in SUBSET Nat /\ S # {}
    BY <1>2
  <2>2. Min(S) \in S /\ \A y \in S : Min(S) <= y
    BY <2>1, LeastOf
  <2> QED
    BY <2>2
<1>5. CASE t[1].size \in 2..3
  <2>1. AfterExtlangs(t) \in 2..(Len(t) + 1) /\ AfterExtlangs(t) <= 5 /\ AfterExtlangs(t) <= a
    BY <1>1, <1>2, <1>3, <1>4, <1>5
  <2>2. \A k \in 2..(AfterExtlangs(t) - 1) : k \in fit
    BY <1>2, <2>1
  <2> QED
    BY <1>5, <2>1, <2>2
<1>6. CASE t[1].size \notin 2..3
  BY <1>1, <1>4, <1>6
<1> QED
  BY <1>5, <1>6

LEMMA OneTaken ==
    ASSUME NEW t \in Seq(Subtag), NEW i \in 1..(Len(t) + 1), NEW fit \in SUBSET DOMAIN t
    PROVE  /\ AfterOne(t, i, fit) \in {i, i + 1} /\ AfterOne(t, i, fit) \in i..(Len(t) + 1)
           /\ \A k \in i..(AfterOne(t, i, fit) - 1) : k \in fit
<1>1. DOMAIN t = 1..Len(t) /\ Len(t) \in Nat
  OBVIOUS
<1>2. CASE i \in fit
  BY <1>1, <1>2 DEF AfterOne
<1>3. CASE i \notin fit
  BY <1>1, <1>3 DEF AfterOne
<1> QED
  BY <1>2, <1>3

LEMMA PartsTaken ==
    ASSUME NEW t \in Seq(Subtag), t # <<>>
    PROVE  /\ AfterScript(t) \in {AfterExtlangs(t), AfterExtlangs(t) + 1}
           /\ AfterRegion(t) \in {AfterScript(t), AfterScript(t) + 1}
           /\ AfterScript(t) \in AfterExtlangs(t)..(Len(t) + 1)
           /\ AfterRegion(t) \in AfterScript(t)..(Len(t) + 1)
           /\ AfterVariants(t) \in AfterRegion(t)..(Len(t) + 1)
           /\ \A k \in AfterExtlangs(t)..(AfterScript(t) - 1) : Script(t[k])
           /\ \A k \in AfterScript(t)..(AfterRegion(t) - 1) : Region(t[k])
           /\ \A k \in AfterRegion(t)..(AfterVariants(t) - 1) : Variant(t[k])
<1> DEFINE e == AfterExtlangs(t)
           s == AfterScript(t)
           r == AfterRegion(t)
           v == AfterVariants(t)
           scripts == {k \in DOMAIN t : Script(t[k])}
           regions == {k \in DOMAIN t : Region(t[k])}
           variants == {k \in DOMAIN t : Variant(t[k])}
<1>1. e \in 1..(Len(t) + 1) /\ Len(t) \in Nat
  BY ExtlangsTaken
<1>2. s = AfterOne(t, e, scripts) /\ r = AfterOne(t, s, regions) /\ v = After(t, r, variants)
  BY DEF AfterScript, AfterRegion, AfterVariants
<1> HIDE DEF e, s, r, v
<1>3. /\ scripts \in SUBSET DOMAIN t /\ regions \in SUBSET DOMAIN t /\ variants \in SUBSET DOMAIN t
  OBVIOUS
<1>4. s \in {e, e + 1} /\ s \in e..(Len(t) + 1) /\ \A k \in e..(s - 1) : k \in scripts
  BY <1>1, <1>2, <1>3, OneTaken
<1>5. s \in 1..(Len(t) + 1)
  BY <1>1, <1>4
<1>6. r \in {s, s + 1} /\ r \in s..(Len(t) + 1) /\ \A k \in s..(r - 1) : k \in regions
  BY <1>2, <1>3, <1>5, OneTaken
<1>7. r \in 1..(Len(t) + 1)
  BY <1>5, <1>6
<1>8. v \in r..(Len(t) + 1) /\ \A k \in r..(v - 1) : k \in variants
  BY <1>2, <1>3, <1>7, AfterFits
<1> QED
  BY <1>4, <1>6, <1>8 DEF e, s, r, v

LEMMA ExtensionsTaken ==
    ASSUME NEW t \in Seq(Subtag), t # <<>>
    PROVE  /\ AfterVariants(t) \in 2..(Len(t) + 1)
           /\ AfterExtensions(t) \in AfterVariants(t)..(Len(t) + 1)
           /\ \A k \in AfterVariants(t)..(AfterExtensions(t) - 1) : Singleton(t[k]) \/ Extension(t[k])
           /\ AfterVariants(t) < AfterExtensions(t) => Singleton(t[AfterVariants(t)])
<1> DEFINE v == AfterVariants(t)
           fit == {k \in DOMAIN t : Singleton(t[k]) \/ Extension(t[k])}
<1>1. v \in 2..(Len(t) + 1) /\ Len(t) \in Nat
  BY ExtlangsTaken, PartsTaken
<1>2. AfterExtensions(t) = IF v <= Len(t) /\ Singleton(t[v]) THEN After(t, v, fit) ELSE v
  BY DEF AfterExtensions
<1> HIDE DEF v
<1>3. v \in 1..(Len(t) + 1) /\ fit \in SUBSET DOMAIN t
  BY <1>1
<1>4. After(t, v, fit) \in v..(Len(t) + 1) /\ \A k \in v..(After(t, v, fit) - 1) : k \in fit
  BY <1>3, AfterFits
<1>5. CASE v <= Len(t) /\ Singleton(t[v])
  BY <1>1, <1>2, <1>4, <1>5 DEF v
<1>6. CASE ~(v <= Len(t) /\ Singleton(t[v]))
  BY <1>1, <1>2, <1>6 DEF v
<1> QED
  BY <1>5, <1>6

LEMMA ParsedIsLangtag ==
    ASSUME NEW t \in Seq(Subtag), t # <<>>, ParsedLanguage(t)
    PROVE  Langtag(t)
<1> DEFINE e == AfterExtlangs(t)
           s == AfterScript(t)
           r == AfterRegion(t)
           v == AfterVariants(t)
           p == AfterExtensions(t)
           singletons == {k \in v..(p - 1) : t[k].size = 1}
<1>1. Len(t) \in Nat \ {0} /\ \A k \in 1..Len(t) : t[k] \in Subtag
  OBVIOUS
<1>2. /\ e \in 2..(Len(t) + 1) /\ e <= 5
      /\ e # 2 => t[1].size \in 2..3
      /\ \A k \in 2..(e - 1) : Extlang(t[k])
  BY ExtlangsTaken
<1>3. /\ s \in {e, e + 1} /\ s \in e..(Len(t) + 1) /\ r \in {s, s + 1} /\ r \in s..(Len(t) + 1)
      /\ v \in r..(Len(t) + 1)
      /\ \A k \in e..(s - 1) : Script(t[k])
      /\ \A k \in s..(r - 1) : Region(t[k])
      /\ \A k \in r..(v - 1) : Variant(t[k])
  BY PartsTaken
<1>4. /\ v \in 2..(Len(t) + 1) /\ p \in v..(Len(t) + 1)
      /\ \A k \in v..(p - 1) : Singleton(t[k]) \/ Extension(t[k])
      /\ v < p => Singleton(t[v])
  BY ExtensionsTaken
<1>5. /\ Alpha(t[1], 2..8)
      /\ NoneTwice(t, r..(v - 1))
      /\ NoneTwice(t, singletons)
      /\ \A k \in singletons : k + 1 \in (v..(p - 1)) \ singletons
      /\ AfterPrivateUse(t) # p + 1
      /\ AfterPrivateUse(t) = Len(t) + 1
  BY DEF ParsedLanguage
<1>6. p <= Len(t) => t[p].name = "x" /\ p < Len(t) /\ \A k \in (p + 1)..Len(t) : PrivateUse(t[k])
  <2> SUFFICES ASSUME p <= Len(t)
               PROVE  t[p].name = "x" /\ p < Len(t) /\ \A k \in (p + 1)..Len(t) : PrivateUse(t[k])
    OBVIOUS
  <2> DEFINE fit == {k \in DOMAIN t : PrivateUse(t[k])}
  <2>1. AfterPrivateUse(t) = IF p <= Len(t) /\ t[p].name = "x" THEN After(t, p + 1, fit) ELSE p
    BY DEF AfterPrivateUse
  <2> HIDE DEF p
  <2>2. t[p].name = "x"
    BY <1>1, <1>4, <1>5, <2>1
  <2>3. After(t, p + 1, fit) = Len(t) + 1 /\ Len(t) + 1 # p + 1
    BY <1>5, <2>1, <2>2
  <2>4. p + 1 \in 1..(Len(t) + 1) /\ fit \in SUBSET DOMAIN t
    BY <1>1, <1>4
  <2>5. \A k \in (p + 1)..(After(t, p + 1, fit) - 1) : k \in fit
    BY <2>4, AfterFits
  <2> QED
    BY <1>1, <1>4, <2>2, <2>3, <2>5
<1> HIDE DEF e, s, r, v, p
<1>7. \A k \in v..(p - 1) : Singleton(t[k]) <=> k \in singletons
  <2> SUFFICES ASSUME NEW k \in v..(p - 1)
               PROVE  Singleton(t[k]) <=> t[k].size = 1
    OBVIOUS
  <2>1. t[k] \in Subtag
    BY <1>1, <1>4
  <2> QED
    BY <1>4, <2>1, KindsDiffer
<1>8. \A k \in v..(p - 1) : k \notin singletons => Extension(t[k])
  BY <1>4, <1>7
<1>9. v < p => Singleton(t[v]) /\ Extension(t[p - 1])
  <2> SUFFICES ASSUME v < p
               PROVE  p - 1 \notin singletons
    BY <1>4, <1>8
  <2> QED
    BY <1>4, <1>5
<1>10. \A k \in v..(p - 2) : Singleton(t[k]) => Extension(t[k + 1])
  <2> SUFFICES ASSUME NEW k \in v..(p - 2), Singleton(t[k])
               PROVE  Extension(t[k + 1])
    OBVIOUS
  <2>1. k \in v..(p - 1) /\ k + 1 \in v..(p - 1)
    BY <1>4
  <2>2. k + 1 \notin singletons
    BY <1>5, <1>7, <2>1
  <2> QED
    BY <1>8, <2>1, <2>2
<1>11. \A k, l \in v..(p - 1) : Singleton(t[k]) /\ t[l].name = t[k].name => k = l
  <2> SUFFICES ASSUME NEW k \in v..(p - 1), NEW l \in v..(p - 1),
                      Singleton(t[k]), t[l].name = t[k].name
               PROVE  k = l
    OBVIOUS
  <2>1. t[k] \in Subtag /\ t[l] \in Subtag
    BY <1>1, <1>4
  <2>2. k \in singletons
    BY <1>7
  <2>3. l \in singletons
    BY <2>1, <2>2, NameTells
  <2> QED
    BY <1>5, <2>2, <2>3 DEF NoneTwice
<1>12. Rest(t, v)
  <2>1. \A k \in (p + 1)..Len(t) : PrivateUse(t[k])
    BY <1>1, <1>4, <1>6
  <2>2. /\ p \in v..(Len(t) + 1)
        /\ \A k \in v..(p - 1) : Singleton(t[k]) \/ Extension(t[k])
    BY <1>4
  <2> QED
    BY <1>6, <1>9, <1>10, <1>11, <2>1, <2>2, Zenon DEF Rest
<1>13. Alpha(t[1], IF e = 2 THEN 2..8 ELSE 2..3)
  <2>1. CASE e = 2
    BY <1>5, <2>1 DEF Alpha
  <2>2. CASE e # 2
    BY <1>2, <1>5, <2>2 DEF Alpha
  <2> QED
    BY <2>1, <2>2
<1>14. \A k, l \in r..(v - 1) : t[l].name = t[k].name => k = l
  BY <1>5 DEF NoneTwice
<1>15. s <= Len(t) + 1 /\ r <= Len(t) + 1
  BY <1>1, <1>2, <1>3
<1> QED
  BY <1>2, <1>3, <1>12, <1>13, <1>14, <1>15 DEF Langtag

-----------------------------------------------------------------------------
(* A tag of the grammar is taken by the parser, part by part.              *)

LEMMA OneIs ==
    ASSUME NEW t, NEW i \in Nat, NEW fit, NEW j \in {i, i + 1}, j = i + 1 <=> i \in fit
    PROVE  AfterOne(t, i, fit) = j
BY DEF AfterOne

LEMMA LangtagIsParsed ==
    ASSUME NEW t \in Seq(Subtag), t # <<>>, Langtag(t)
    PROVE  /\ ParsedLanguage(t)
           /\ t[1].name # "x"
           /\ \A k \in DOMAIN t : t[k].form # "other" /\ t[k].size # 0
<1>1. /\ Len(t) \in Nat \ {0} /\ DOMAIN t = 1..Len(t)
      /\ \A k \in 1..Len(t) : t[k] \in Subtag
  OBVIOUS
<1>2. PICK e, s, r, v :
         /\ e \in 2..(Len(t) + 1) /\ s \in {e, e + 1} /\ r \in {s, s + 1} /\ v \in r..(Len(t) + 1)
         /\ Alpha(t[1], IF e = 2 THEN 2..8 ELSE 2..3) /\ e <= 5
         /\ s <= Len(t) + 1 /\ r <= Len(t) + 1
         /\ \A k \in 2..(e - 1) : Extlang(t[k])
         /\ \A k \in e..(s - 1) : Script(t[k])
         /\ \A k \in s..(r - 1) : Region(t[k])
         /\ \A k \in r..(v - 1) : Variant(t[k])
         /\ \A k, l \in r..(v - 1) : t[l].name = t[k].name => k = l
         /\ Rest(t, v)
  BY ZenonT(40) DEF Langtag
<1>3. PICK p \in v..(Len(t) + 1) :
         /\ \A k \in v..(p - 1) : Singleton(t[k]) \/ Extension(t[k])
         /\ v < p => Singleton(t[v]) /\ Extension(t[p - 1])
         /\ \A k \in v..(p - 2) : Singleton(t[k]) => Extension(t[k + 1])
         /\ \A k, l \in v..(p - 1) : Singleton(t[k]) /\ t[l].name = t[k].name => k = l
         /\ p <= Len(t) => t[p].name = "x" /\ p < Len(t)
         /\ \A k \in (p + 1)..Len(t) : PrivateUse(t[k])
  BY <1>2, Zenon DEF Rest
<1>4. /\ e \in Nat /\ s \in Nat /\ r \in Nat /\ v \in Nat /\ p \in Nat
      /\ 2 <= e /\ e <= s /\ s <= r /\ r <= v /\ v <= p /\ p <= Len(t) + 1
      /\ s <= e + 1 /\ r <= s + 1
  BY <1>1, <1>2, <1>3
<1>5. /\ p <= Len(t) => t[p].name = "x"
      /\ v <= Len(t) => Singleton(t[v]) \/ t[v].name = "x"
      /\ r <= Len(t) => Variant(t[r]) \/ Singleton(t[r]) \/ t[r].name = "x"
      /\ s <= Len(t) => Region(t[s]) \/ Variant(t[s]) \/ Singleton(t[s]) \/ t[s].name = "x"
      /\ e <= Len(t) =>
            Script(t[e]) \/ Region(t[e]) \/ Variant(t[e]) \/ Singleton(t[e]) \/ t[e].name = "x"
  <2>1. p <= Len(t) => t[p].name = "x"
    BY <1>3
  <2>2. v <= Len(t) => Singleton(t[v]) \/ t[v].name = "x"
    BY <1>3, <1>4, <2>1
  <2>3. r <= Len(t) => Variant(t[r]) \/ Singleton(t[r]) \/ t[r].name = "x"
    BY <1>2, <1>4, <2>2
  <2>4. s <= Len(t) => Region(t[s]) \/ Variant(t[s]) \/ Singleton(t[s]) \/ t[s].name = "x"
    BY <1>2, <1>4, <2>3
  <2>5. e <= Len(t) =>
           Script(t[e]) \/ Region(t[e]) \/ Variant(t[e]) \/ Singleton(t[e]) \/ t[e].name = "x"
    BY <1>2, <1>4, <2>4
  <2> QED
    BY <2>1, <2>2, <2>3, <2>4, <2>5
<1>6. \A k \in DOMAIN t :
         /\ Extlang(t[k]) => ~Script(t[k]) /\ ~Region(t[k]) /\ ~Variant(t[k]) /\ ~Singleton(t[k])
                             /\ t[k].name # "x"
         /\ Script(t[k]) => ~Region(t[k]) /\ ~Variant(t[k]) /\ ~Singleton(t[k]) /\ t[k].name # "x"
         /\ Region(t[k]) => ~Variant(t[k]) /\ ~Singleton(t[k]) /\ t[k].name # "x"
         /\ Variant(t[k]) => ~Singleton(t[k]) /\ t[k].name # "x"
         /\ t[k].name = "x" => ~Singleton(t[k]) /\ ~Extension(t[k]) /\ t[k].form = "alpha"
                               /\ t[k].size = 1
         /\ Singleton(t[k]) => t[k].size = 1
         /\ Extension(t[k]) => t[k].size # 1
  BY <1>1, KindsDiffer
<1>7. AfterExtlangs(t) = e
  <2> DEFINE fit == {k \in DOMAIN t : Extlang(t[k])}
             a == After(t, 2, fit)
  <2>1. e \notin fit /\ \A k \in 2..(e - 1) : k \in fit
    BY <1>1, <1>2, <1>4, <1>5, <1>6
  <2>2. 2 \in 1..(Len(t) + 1) /\ fit \in SUBSET DOMAIN t
    BY <1>1
  <2>3. a = e
    BY <2>1, <2>2, <1>2, AfterIs
  <2>4. AfterExtlangs(t) = IF t[1].size \in 2..3 THEN Min({5, a}) ELSE 2
    BY DEF AfterExtlangs
  <2>5. Min({5, e}) = e
    <3> DEFINE S == {5, e}
    <3>1. S \in SUBSET Nat /\ S # {}
      BY <1>4
    <3>2. Min(S) \in S /\ \A y \in S : Min(S) <= y
      BY <3>1, LeastOf
    <3> QED
      BY <1>2, <1>4, <3>2
  <2>6. e # 2 => t[1].size \in 2..3
    BY <1>2 DEF Alpha
  <2> QED
    BY <2>3, <2>4, <2>5, <2>6
<1>8. AfterScript(t) = s
  <2> DEFINE fit == {k \in DOMAIN t : Script(t[k])}
  <2>1. s = e + 1 <=> e \in fit
    BY <1>1, <1>2, <1>4, <1>5, <1>6
  <2>2. AfterOne(t, e, fit) = s
    BY <1>2, <1>4, <2>1, OneIs
  <2> QED
    BY <1>7, <2>2 DEF AfterScript
<1>9. AfterRegion(t) = r
  <2> DEFINE fit == {k \in DOMAIN t : Region(t[k])}
  <2>1. r = s + 1 <=> s \in fit
    BY <1>1, <1>2, <1>4, <1>5, <1>6
  <2>2. AfterOne(t, s, fit) = r
    BY <1>2, <1>4, <2>1, OneIs
  <2> QED
    BY <1>8, <2>2 DEF AfterRegion
<1>10. AfterVariants(t) = v
  <2> DEFINE fit == {k \in DOMAIN t : Variant(t[k])}
  <2>1. v \notin fit /\ \A k \in r..(v - 1) : k \in fit
    BY <1>1, <1>2, <1>4, <1>5, <1>6
  <2>2. r \in 1..(Len(t) + 1) /\ fit \in SUBSET DOMAIN t
    BY <1>1, <1>2, <1>4
  <2>3. After(t, r, fit) = v
    BY <1>2, <2>1, <2>2, AfterIs
  <2> QED
    BY <1>9, <2>3 DEF AfterVariants
<1>11. AfterExtensions(t) = p
  <2> DEFINE fit == {k \in DOMAIN t : Singleton(t[k]) \/ Extension(t[k])}
  <2>1. p \notin fit /\ \A k \in v..(p - 1) : k \in fit
    BY <1>1, <1>3, <1>4, <1>6
  <2>2. v \in 1..(Len(t) + 1) /\ fit \in SUBSET DOMAIN t
    BY <1>1, <1>2, <1>4
  <2>3. After(t, v, fit) = p
    BY <1>3, <2>1, <2>2, AfterIs
  <2>4. AfterExtensions(t) = IF v <= Len(t) /\ Singleton(t[v]) THEN After(t, v, fit) ELSE v
    BY <1>10 DEF AfterExtensions
  <2>5. CASE v < p
    BY <1>3, <1>4, <2>3, <2>4, <2>5
  <2>6. CASE v = p
    BY <1>1, <1>3, <1>4, <1>6, <2>3, <2>4, <2>6
  <2> QED
    BY <1>4, <2>5, <2>6
<1>12. AfterPrivateUse(t) = Len(t) + 1 /\ AfterPrivateUse(t) # p + 1
  <2> DEFINE fit == {k \in DOMAIN t : PrivateUse(t[k])}
  <2>1. AfterPrivateUse(t) = IF p <= Len(t) /\ t[p].name = "x" THEN After(t, p + 1, fit) ELSE p
    BY <1>11 DEF AfterPrivateUse
  <2>2. CASE p <= Len(t)
    <3>1. /\ p + 1 \in 1..(Len(t) + 1) /\ Len(t) + 1 \in (p + 1)..(Len(t) + 1)
          /\ fit \in SUBSET DOMAIN t /\ Len(t) + 1 \notin fit
      BY <1>1, <1>4, <2>2
    <3>2. \A k \in (p + 1)..(Len(t) + 1 - 1) : k \in fit
      BY <1>1, <1>3, <1>4
    <3>3. After(t, p + 1, fit) = Len(t) + 1
      BY <3>1, <3>2, AfterIs
    <3> QED
      BY <1>1, <1>3, <1>4, <2>1, <2>2, <3>3
  <2>3. CASE p = Len(t) + 1
    BY <1>1, <1>4, <2>1, <2>3
  <2> QED
    BY <1>1, <1>4, <2>2, <2>3
<1> DEFINE singletons == {k \in v..(p - 1) : t[k].size = 1}
<1>13. \A k \in v..(p - 1) : k \in singletons <=> Singleton(t[k])
  BY <1>1, <1>3, <1>4, <1>6
<1>14. NoneTwice(t, r..(v - 1)) /\ NoneTwice(t, singletons)
  BY <1>2, <1>3, <1>13 DEF NoneTwice
<1>15. \A k \in singletons : k + 1 \in (v..(p - 1)) \ singletons
  <2> SUFFICES ASSUME NEW k \in singletons
               PROVE  k + 1 \in v..(p - 1) /\ k + 1 \notin singletons
    OBVIOUS
  <2>1. k \in v..(p - 1) /\ Singleton(t[k])
    BY <1>13
  <2>2. k # p - 1
    BY <1>1, <1>3, <1>4, <1>6, <2>1
  <2>3. k \in v..(p - 2) /\ k + 1 \in v..(p - 1) /\ k + 1 \in DOMAIN t
    BY <1>1, <1>4, <2>1, <2>2
  <2>4. t[k + 1].size # 1
    BY <1>3, <1>6, <2>1, <2>3
  <2> QED
    BY <2>3, <2>4
<1>16. Alpha(t[1], 2..8)
  BY <1>2 DEF Alpha
<1>17. ParsedLanguage(t)
  BY <1>9, <1>10, <1>11, <1>12, <1>14, <1>15, <1>16 DEF ParsedLanguage
<1>18. t[1].form = "alpha" /\ t[1].size # 0 /\ t[1].size # 1
  BY <1>16 DEF Alpha
<1>19. ASSUME NEW k \in DOMAIN t
       PROVE  t[k].form # "other" /\ t[k].size # 0
  <2>1. k \in 1..Len(t)
    BY <1>1
  <2>2. CASE k = 1
    BY <1>18, <2>2
  <2>3. CASE k \in 2..(e - 1)
    <3>1. Extlang(t[k])
      BY <1>2, <2>3, Zenon
    <3> QED
      BY <3>1 DEF Extlang, Alpha
  <2>4. CASE k \in e..(s - 1)
    <3>1. Script(t[k])
      BY <1>2, <2>4, Zenon
    <3> QED
      BY <3>1 DEF Script, Alpha
  <2>5. CASE k \in s..(r - 1)
    <3>1. Region(t[k])
      BY <1>2, <2>5, Zenon
    <3> QED
      BY <3>1 DEF Region, Alpha
  <2>6. CASE k \in r..(v - 1)
    <3>1. Variant(t[k])
      BY <1>2, <2>6, Zenon
    <3> QED
      BY <3>1 DEF Variant, Alnum
  <2>7. CASE k \in v..(p - 1)
    <3>1. Singleton(t[k]) \/ Extension(t[k])
      BY <1>3, <2>7, Zenon
    <3> QED
      BY <3>1 DEF Singleton, Extension, Alnum
  <2>8. CASE k = p
    BY <1>5, <1>6, <2>1, <2>8
  <2>9. CASE k \in (p + 1)..Len(t)
    BY <1>3, <2>9 DEF PrivateUse, Alnum
  <2> QED
    BY <1>1, <1>4, <2>1, <2>2, <2>3, <2>4, <2>5, <2>6, <2>7, <2>8, <2>9
<1> QED
  BY <1>1, <1>6, <1>17, <1>18, <1>19

-----------------------------------------------------------------------------
(* Tags with the same names are parsed alike.                              *)

LEMMA SameWords ==
    ASSUME NEW t \in Seq(Subtag), NEW u \in Seq(Subtag), Names(u) = Names(t)
    PROVE  /\ Len(u) = Len(t) /\ DOMAIN u = DOMAIN t
           /\ \A k \in DOMAIN t : /\ t[k] \in Subtag /\ u[k] \in Subtag /\ u[k].name = t[k].name
                                  /\ u[k].size = t[k].size /\ u[k].form = t[k].form
                                  /\ u[k].digit = t[k].digit
<1>1. DOMAIN Names(t) = DOMAIN t /\ DOMAIN Names(u) = DOMAIN u
  BY DEF Names
<1>2. DOMAIN u = DOMAIN t /\ Len(u) = Len(t)
  BY <1>1
<1>3. ASSUME NEW k \in DOMAIN t
      PROVE  t[k] \in Subtag /\ u[k] \in Subtag /\ u[k].name = t[k].name
  <2>1. Names(t)[k] = t[k].name /\ Names(u)[k] = u[k].name
    BY <1>2 DEF Names
  <2> QED
    BY <1>2, <2>1
<1> QED
  BY <1>2, <1>3, NameTells

LEMMA SameParts ==
    ASSUME NEW t \in Seq(Subtag), NEW u \in Seq(Subtag), Names(u) = Names(t), t # <<>>
    PROVE  /\ AfterExtlangs(u) = AfterExtlangs(t)
           /\ AfterScript(u) = AfterScript(t)
           /\ AfterRegion(u) = AfterRegion(t)
           /\ AfterVariants(u) = AfterVariants(t)
           /\ AfterExtensions(u) = AfterExtensions(t)
           /\ AfterPrivateUse(u) = AfterPrivateUse(t)
<1>1. /\ Len(u) = Len(t) /\ DOMAIN u = DOMAIN t /\ DOMAIN t = 1..Len(t) /\ 1 \in DOMAIN t
      /\ \A k \in DOMAIN t : /\ u[k].name = t[k].name /\ u[k].size = t[k].size
                             /\ u[k].form = t[k].form /\ u[k].digit = t[k].digit
  BY SameWords
<1>2. \A k \in DOMAIN t :
         /\ Extlang(u[k]) <=> Extlang(t[k])
         /\ Script(u[k]) <=> Script(t[k])
         /\ Region(u[k]) <=> Region(t[k])
         /\ Variant(u[k]) <=> Variant(t[k])
         /\ Singleton(u[k]) <=> Singleton(t[k])
         /\ Extension(u[k]) <=> Extension(t[k])
         /\ PrivateUse(u[k]) <=> PrivateUse(t[k])
  BY <1>1 DEF Alpha, Alnum, Extlang, Script, Region, Variant, Singleton, Extension, PrivateUse
<1>3. /\ {k \in DOMAIN u : Extlang(u[k])} = {k \in DOMAIN t : Extlang(t[k])}
      /\ {k \in DOMAIN u : Script(u[k])} = {k \in DOMAIN t : Script(t[k])}
      /\ {k \in DOMAIN u : Region(u[k])} = {k \in DOMAIN t : Region(t[k])}
      /\ {k \in DOMAIN u : Variant(u[k])} = {k \in DOMAIN t : Variant(t[k])}
      /\ {k \in DOMAIN u : Singleton(u[k]) \/ Extension(u[k])}
            = {k \in DOMAIN t : Singleton(t[k]) \/ Extension(t[k])}
      /\ {k \in DOMAIN u : PrivateUse(u[k])} = {k \in DOMAIN t : PrivateUse(t[k])}
  BY <1>1, <1>2
<1>4. \A i, fit : After(u, i, fit) = After(t, i, fit) /\ AfterOne(u, i, fit) = AfterOne(t, i, fit)
  BY <1>1 DEF After, AfterOne
<1>5. AfterExtlangs(u) = AfterExtlangs(t)
  <2>1. u[1].size = t[1].size
    BY <1>1
  <2> QED
    BY <1>3, <1>4, <2>1 DEF AfterExtlangs
<1>6. AfterScript(u) = AfterScript(t)
  BY <1>3, <1>4, <1>5 DEF AfterScript
<1>7. AfterRegion(u) = AfterRegion(t)
  BY <1>3, <1>4, <1>6 DEF AfterRegion
<1>8. AfterVariants(u) = AfterVariants(t)
  BY <1>3, <1>4, <1>7 DEF AfterVariants
<1>9. AfterVariants(t) \in 2..(Len(t) + 1) /\ AfterExtensions(t) \in 2..(Len(t) + 1)
  BY ExtensionsTaken
<1>10. AfterExtensions(u) = AfterExtensions(t)
  <2> DEFINE v == AfterVariants(t)
             fit == {k \in DOMAIN t : Singleton(t[k]) \/ Extension(t[k])}
  <2>1. /\ AfterExtensions(u) = IF v <= Len(t) /\ Singleton(u[v]) THEN After(t, v, fit) ELSE v
        /\ AfterExtensions(t) = IF v <= Len(t) /\ Singleton(t[v]) THEN After(t, v, fit) ELSE v
    BY <1>1, <1>3, <1>4, <1>8 DEF AfterExtensions
  <2>2. v <= Len(t) => (Singleton(u[v]) <=> Singleton(t[v]))
    BY <1>1, <1>2, <1>9
  <2> QED
    BY <2>1, <2>2
<1>11. AfterPrivateUse(u) = AfterPrivateUse(t)
  <2> DEFINE p == AfterExtensions(t)
             fit == {k \in DOMAIN t : PrivateUse(t[k])}
             other == {k \in DOMAIN u : PrivateUse(u[k])}
  <2>1. AfterPrivateUse(t) = IF p <= Len(t) /\ t[p].name = "x" THEN After(t, p + 1, fit) ELSE p
    BY DEF AfterPrivateUse
  <2>2. AfterPrivateUse(u) = IF p <= Len(u) /\ u[p].name = "x" THEN After(u, p + 1, other) ELSE p
    BY <1>10 DEF AfterPrivateUse
  <2>3. p <= Len(t) => u[p].name = t[p].name
    BY <1>1, <1>9
  <2>4. After(u, p + 1, other) = After(t, p + 1, fit)
    BY <1>3, <1>4
  <2>5. Len(u) = Len(t)
    BY <1>1
  <2> HIDE DEF fit, other, p
  <2> QED
    BY <2>1, <2>2, <2>3, <2>4, <2>5
<1> QED
  BY <1>5, <1>6, <1>7, <1>8, <1>10, <1>11

LEMMA SameVerdict ==
    ASSUME NEW t \in Seq(Subtag), NEW u \in Seq(Subtag), Names(u) = Names(t), t # <<>>
    PROVE  /\ TooLong(u) <=> TooLong(t)
           /\ (\E k \in DOMAIN u : u[k].form = "other") <=> \E k \in DOMAIN t : t[k].form = "other"
           /\ (\E k \in DOMAIN u : u[k].size = 0) <=> \E k \in DOMAIN t : t[k].size = 0
           /\ u # <<>> /\ u[1].name = t[1].name
           /\ ParsedPrivate(u) <=> ParsedPrivate(t)
           /\ ParsedLanguage(t) => ParsedLanguage(u)
           /\ \A k \in DOMAIN t : CaseAt(u, k) = CaseAt(t, k)
<1>1. /\ Len(u) = Len(t) /\ DOMAIN u = DOMAIN t /\ DOMAIN t = 1..Len(t) /\ 1 \in DOMAIN t
      /\ \A k \in DOMAIN t : /\ u[k].name = t[k].name /\ u[k].size = t[k].size
                             /\ u[k].form = t[k].form
  BY SameWords
<1>2. TooLong(u) <=> TooLong(t)
  <2>1. Sizes(u) = Sizes(t)
    BY <1>1 DEF Sizes
  <2> QED
    BY <1>1, <2>1 DEF TooLong
<1>3. ParsedPrivate(u) <=> ParsedPrivate(t)
  <2>1. \A k \in DOMAIN t : PrivateUse(u[k]) <=> PrivateUse(t[k])
    BY <1>1 DEF PrivateUse, Alnum
  <2>2. {k \in DOMAIN u : PrivateUse(u[k])} = {k \in DOMAIN t : PrivateUse(t[k])}
    BY <1>1, <2>1
  <2>3. After(u, 2, {k \in DOMAIN u : PrivateUse(u[k])}) = After(t, 2, {k \in DOMAIN t : PrivateUse(t[k])})
    BY <1>1, <2>2 DEF After
  <2> QED
    BY <1>1, <2>3 DEF ParsedPrivate
<1>4. ParsedLanguage(t) => ParsedLanguage(u)
  <2> SUFFICES ASSUME ParsedLanguage(t)
               PROVE  ParsedLanguage(u)
    OBVIOUS
  <2> DEFINE extensions == AfterVariants(t)..(AfterExtensions(t) - 1)
             singletons == {k \in extensions : t[k].size = 1}
             places == AfterRegion(t)..(AfterVariants(t) - 1)
  <2>1. /\ AfterRegion(u) = AfterRegion(t) /\ AfterVariants(u) = AfterVariants(t)
        /\ AfterExtensions(u) = AfterExtensions(t) /\ AfterPrivateUse(u) = AfterPrivateUse(t)
    BY SameParts
  <2>2. extensions \subseteq DOMAIN t /\ places \subseteq DOMAIN t
    <3>1. AfterVariants(t) \in 2..(Len(t) + 1) /\ AfterExtensions(t) \in 2..(Len(t) + 1)
      BY ExtensionsTaken
    <3>2. AfterRegion(t) \in 2..(Len(t) + 1)
      <4>1. AfterExtlangs(t) \in 2..(Len(t) + 1) /\ AfterScript(t) \in AfterExtlangs(t)..(Len(t) + 1)
        BY ExtlangsTaken, PartsTaken
      <4>2. AfterRegion(t) \in AfterScript(t)..(Len(t) + 1)
        BY PartsTaken
      <4> QED
        BY <4>1, <4>2
    <3>3. DOMAIN t = 1..Len(t) /\ Len(t) \in Nat
      OBVIOUS
    <3> QED
      BY <3>1, <3>2, <3>3
  <2>3. {k \in extensions : u[k].size = 1} = singletons /\ singletons \subseteq DOMAIN t
    BY <1>1, <2>2
  <2>4. \A S \in SUBSET DOMAIN t : NoneTwice(t, S) => NoneTwice(u, S)
    BY <1>1 DEF NoneTwice
  <2>5. /\ Alpha(t[1], 2..8) /\ NoneTwice(t, places) /\ NoneTwice(t, singletons)
        /\ \A k \in singletons : k + 1 \in extensions \ singletons
        /\ AfterPrivateUse(t) # AfterExtensions(t) + 1 /\ AfterPrivateUse(t) = Len(t) + 1
    BY DEF ParsedLanguage
  <2>6. Alpha(u[1], 2..8)
    BY <1>1, <2>5 DEF Alpha
  <2>7. NoneTwice(u, places) /\ NoneTwice(u, singletons)
    BY <2>2, <2>3, <2>4, <2>5
  <2> QED
    BY <1>1, <2>1, <2>3, <2>5, <2>6, <2>7 DEF ParsedLanguage
<1>5. ASSUME NEW k \in DOMAIN t
      PROVE  CaseAt(u, k) = CaseAt(t, k)
  <2>1. /\ AfterExtlangs(u) = AfterExtlangs(t) /\ AfterScript(u) = AfterScript(t)
        /\ AfterRegion(u) = AfterRegion(t)
    BY SameParts
  <2> QED
    BY <1>1, <2>1 DEF CaseAt
<1> QED
  BY <1>1, <1>2, <1>3, <1>4, <1>5

-----------------------------------------------------------------------------
(* The whole parser.                                                       *)

Refusal(t) == t = <<>> \/ TooLong(t) \/ \E k \in DOMAIN t : t[k].form = "other"
Listed(t) == \E g \in Grandfathered : Names(g) = Names(t)
Entry(t) == CHOOSE g \in Grandfathered : Names(g) = Names(t)
Recase(s, c) == [s EXCEPT !.case = c]
Lowered(t) == [k \in DOMAIN t |-> Recase(t[k], "lower")]
Cased(t) == [k \in DOMAIN t |-> Recase(t[k], CaseAt(t, k))]

LEMMA CanonicalIs ==
    ASSUME NEW t
    PROVE  Canonical(t) =
              IF Refusal(t) THEN None
              ELSE IF Listed(t) THEN Entry(t)
              ELSE IF \E k \in DOMAIN t : t[k].size = 0 THEN None
              ELSE IF t[1].name = "x" THEN IF ParsedPrivate(t) THEN Lowered(t) ELSE None
              ELSE IF ParsedLanguage(t) THEN Cased(t) ELSE None
BY DEF Canonical, Refusal, Listed, Entry, Lowered, Cased, Recase

LEMMA ListedIs ==
    ASSUME NEW t, Listed(t)
    PROVE  /\ Entry(t) \in Grandfathered /\ Entry(t) \in Seq(Subtag) /\ Names(Entry(t)) = Names(t)
           /\ \A k \in DOMAIN Entry(t) : Entry(t)[k].form # "other"
<1>1. Entry(t) \in Grandfathered /\ Names(Entry(t)) = Names(t)
  BY DEF Listed, Entry
<1> QED
  BY <1>1, TagAssumption

\* Another case at every place, and the same names.
LEMMA RecaseIs ==
    ASSUME NEW s \in Subtag, NEW c \in Case
    PROVE  /\ Recase(s, c) \in Subtag /\ Recase(s, c).name = s.name
           /\ Recase(Recase(s, c), c) = Recase(s, c)
<1>1. s = [name |-> s.name, size |-> s.size, form |-> s.form, digit |-> s.digit, case |-> s.case]
  BY SubtagFields
<1>2. Recase(s, c) =
         [name |-> s.name, size |-> s.size, form |-> s.form, digit |-> s.digit, case |-> c]
  BY <1>1 DEF Recase
<1>3. Recase(Recase(s, c), c) = Recase(s, c)
  BY <1>2 DEF Recase
<1>4. Recase(s, c) \in Subtag
  BY SubtagFields DEF Recase
<1> QED
  BY <1>2, <1>3, <1>4

LEMMA Recased ==
    ASSUME NEW t \in Seq(Subtag), NEW case, \A k \in DOMAIN t : case[k] \in Case
    PROVE  LET u == [k \in DOMAIN t |-> Recase(t[k], case[k])]
           IN  /\ u \in Seq(Subtag) /\ Names(u) = Names(t) /\ DOMAIN u = DOMAIN t
               /\ [k \in DOMAIN u |-> Recase(u[k], case[k])] = u
<1> DEFINE u == [k \in DOMAIN t |-> Recase(t[k], case[k])]
<1>1. \A k \in DOMAIN t : /\ u[k] \in Subtag /\ u[k].name = t[k].name
                          /\ Recase(u[k], case[k]) = u[k]
  BY RecaseIs
<1>2. DOMAIN u = 1..Len(t) /\ DOMAIN t = 1..Len(t) /\ Len(t) \in Nat
  OBVIOUS
<1>3. u \in Seq(Subtag)
  BY <1>1, <1>2
<1>4. Names(u) = Names(t)
  BY <1>1, <1>2 DEF Names
<1>5. [k \in DOMAIN u |-> Recase(u[k], case[k])] = u
  BY <1>1
<1> QED
  BY <1>2, <1>3, <1>4, <1>5

LEMMA LoweredIs ==
    ASSUME NEW t \in Seq(Subtag)
    PROVE  Lowered(t) \in Seq(Subtag) /\ Names(Lowered(t)) = Names(t) /\ Lowered(Lowered(t)) = Lowered(t)
<1> DEFINE case == [k \in DOMAIN t |-> "lower"]
           u == Lowered(t)
<1>1. u = [k \in DOMAIN t |-> Recase(t[k], case[k])] /\ \A k \in DOMAIN t : case[k] \in Case
  BY DEF Lowered, Case
<1>2. \A k \in DOMAIN t : case[k] = "lower"
  OBVIOUS
<1> HIDE DEF case, u
<1>3. /\ u \in Seq(Subtag) /\ Names(u) = Names(t) /\ DOMAIN u = DOMAIN t
      /\ [k \in DOMAIN u |-> Recase(u[k], case[k])] = u
  BY <1>1, Recased
<1>4. Lowered(u) = u
  BY <1>2, <1>3 DEF Lowered
<1> QED
  BY <1>3, <1>4 DEF u

LEMMA CasedIs ==
    ASSUME NEW t \in Seq(Subtag), t # <<>>
    PROVE  Cased(t) \in Seq(Subtag) /\ Names(Cased(t)) = Names(t) /\ Cased(Cased(t)) = Cased(t)
<1> DEFINE case == [k \in DOMAIN t |-> CaseAt(t, k)]
           u == Cased(t)
<1>1. \A k \in DOMAIN t : case[k] = CaseAt(t, k) /\ case[k] \in Case
  BY DEF CaseAt, Case
<1>2. u = [k \in DOMAIN t |-> Recase(t[k], case[k])]
  BY DEF Cased
<1> HIDE DEF case, u
<1>3. /\ u \in Seq(Subtag) /\ Names(u) = Names(t) /\ DOMAIN u = DOMAIN t
      /\ [k \in DOMAIN u |-> Recase(u[k], case[k])] = u
  BY <1>1, <1>2, Recased
<1>4. \A k \in DOMAIN u : CaseAt(u, k) = case[k]
  BY <1>1, <1>3, SameVerdict
<1>5. Cased(u) = u
  BY <1>3, <1>4 DEF Cased
<1> QED
  BY <1>3, <1>5 DEF u

LEMMA PrivateIsParsed ==
    ASSUME NEW t \in Seq(Subtag), t # <<>>
    PROVE  ParsedPrivate(t) <=> Len(t) > 1 /\ \A k \in 2..Len(t) : PrivateUse(t[k])
<1> DEFINE fit == {k \in DOMAIN t : PrivateUse(t[k])}
<1>1. /\ Len(t) \in Nat \ {0} /\ DOMAIN t = 1..Len(t) /\ fit \in SUBSET DOMAIN t
      /\ 2 \in 1..(Len(t) + 1) /\ Len(t) + 1 \in 2..(Len(t) + 1) /\ Len(t) + 1 \notin fit
  OBVIOUS
<1>2. ASSUME After(t, 2, fit) = Len(t) + 1, NEW k \in 2..Len(t)
      PROVE  PrivateUse(t[k])
  BY <1>1, <1>2, AfterFits
<1>3. ASSUME \A k \in 2..Len(t) : PrivateUse(t[k])
      PROVE  After(t, 2, fit) = Len(t) + 1
  <2>1. \A k \in 2..(Len(t) + 1 - 1) : k \in fit
    BY <1>1, <1>3
  <2> QED
    BY <1>1, <2>1, AfterIs
<1> QED
  BY <1>2, <1>3 DEF ParsedPrivate

\* What the grammar describes has letters and digits only, and no empty subtag.
LEMMA WellFormedIsSound ==
    ASSUME NEW t \in Seq(Subtag), WellFormed(t)
    PROVE  /\ ~Refusal(t)
           /\ \/ Listed(t)
              \/ /\ \A k \in DOMAIN t : t[k].size # 0
                 /\ IF t[1].name = "x" THEN ParsedPrivate(t) ELSE ParsedLanguage(t)
<1>1. t # <<>> /\ ~TooLong(t)
  BY DEF WellFormed
<1>2. CASE Listed(t)
  <2>1. PICK g \in Grandfathered : Names(g) = Names(t)
    BY <1>2 DEF Listed
  <2>2. g \in Seq(Subtag) /\ \A k \in DOMAIN g : g[k].form # "other"
    BY TagAssumption
  <2>3. \A k \in DOMAIN t : t[k].form # "other"
    BY <2>1, <2>2, SameWords
  <2> QED
    BY <1>1, <1>2, <2>3 DEF Refusal
<1>3. CASE Langtag(t)
  BY <1>1, <1>3, LangtagIsParsed DEF Refusal
<1>4. CASE t[1].name = "x" /\ Len(t) > 1 /\ \A k \in 2..Len(t) : PrivateUse(t[k])
  <2>1. t[1] \in Subtag /\ DOMAIN t = 1..Len(t) /\ Len(t) \in Nat
    BY <1>1
  <2>2. t[1].form = "alpha" /\ t[1].size = 1
    BY <1>4, <2>1, SubtagFields
  <2>3. \A k \in 2..Len(t) : t[k].form # "other" /\ t[k].size # 0
    BY <1>4 DEF PrivateUse, Alnum
  <2>4. \A k \in DOMAIN t : t[k].form # "other" /\ t[k].size # 0
    BY <2>1, <2>2, <2>3
  <2> QED
    BY <1>1, <1>4, <2>4, PrivateIsParsed DEF Refusal
<1> QED
  BY <1>2, <1>3, <1>4 DEF WellFormed, Listed

LEMMA TakenIsWellFormed ==
    ASSUME NEW t \in Seq(Subtag), ~Refusal(t),
           \/ Listed(t)
           \/ IF t[1].name = "x" THEN ParsedPrivate(t) ELSE ParsedLanguage(t)
    PROVE  WellFormed(t)
<1>1. t # <<>> /\ ~TooLong(t)
  BY DEF Refusal
<1> QED
  BY <1>1, PrivateIsParsed, ParsedIsLangtag DEF WellFormed, Listed

\* A tag is taken just if its grammar describes it; what is given back is the
\* same tag in the canonical case, and is given back as it is.
LEMMA EveryTagIsParsed ==
    ASSUME NEW t \in Seq(Subtag)
    PROVE  ParsedExactly(t)
<1> DEFINE c == Canonical(t)
           empty == \E k \in DOMAIN t : t[k].size = 0
<1>1. CASE Refusal(t)
  BY <1>1, CanonicalIs, WellFormedIsSound DEF ParsedExactly
<1>2. CASE ~Refusal(t) /\ Listed(t)
  <2>1. c = Entry(t)
    BY <1>2, CanonicalIs
  <2>2. c \in Seq(Subtag) /\ Names(c) = Names(t) /\ \A k \in DOMAIN c : c[k].form # "other"
    BY <1>2, <2>1, ListedIs
  <2>3. t # <<>> /\ ~TooLong(t)
    BY <1>2 DEF Refusal
  <2>4. ~Refusal(c)
    BY <2>2, <2>3, SameVerdict DEF Refusal
  <2>5. Listed(c) /\ Entry(c) = c
    BY <1>2, <2>1, <2>2 DEF Listed, Entry
  <2>6. Canonical(c) = c
    BY <2>4, <2>5, CanonicalIs
  <2>7. WellFormed(t) /\ c # None
    BY <1>2, <2>2, TakenIsWellFormed, TagAssumption
  <2> QED
    BY <2>2, <2>6, <2>7 DEF ParsedExactly
<1>3. CASE ~Refusal(t) /\ ~Listed(t) /\ empty
  BY <1>3, CanonicalIs, WellFormedIsSound DEF ParsedExactly
<1>4. CASE ~Refusal(t) /\ ~Listed(t) /\ ~empty /\ t[1].name = "x" /\ ParsedPrivate(t)
  <2>1. c = Lowered(t)
    BY <1>4, CanonicalIs
  <2>2. c \in Seq(Subtag) /\ Names(c) = Names(t) /\ Lowered(c) = c
    BY <2>1, LoweredIs
  <2>3. t # <<>>
    BY <1>4 DEF Refusal
  <2>4. /\ ~Refusal(c) /\ ~Listed(c) /\ ~(\E k \in DOMAIN c : c[k].size = 0)
        /\ c[1].name = "x" /\ ParsedPrivate(c)
    BY <1>4, <2>2, <2>3, SameVerdict DEF Refusal, Listed
  <2>5. Canonical(c) = c
    BY <2>2, <2>4, CanonicalIs
  <2>6. WellFormed(t) /\ c # None
    BY <1>4, <2>2, TakenIsWellFormed, TagAssumption
  <2> QED
    BY <2>2, <2>5, <2>6 DEF ParsedExactly
<1>5. CASE ~Refusal(t) /\ ~Listed(t) /\ ~empty /\ t[1].name # "x" /\ ParsedLanguage(t)
  <2>1. c = Cased(t)
    BY <1>5, CanonicalIs
  <2>2. t # <<>>
    BY <1>5 DEF Refusal
  <2>3. c \in Seq(Subtag) /\ Names(c) = Names(t) /\ Cased(c) = c
    BY <2>1, <2>2, CasedIs
  <2>4. /\ ~Refusal(c) /\ ~Listed(c) /\ ~(\E k \in DOMAIN c : c[k].size = 0)
        /\ c[1].name # "x" /\ ParsedLanguage(c)
    BY <1>5, <2>2, <2>3, SameVerdict DEF Refusal, Listed
  <2>5. Canonical(c) = c
    BY <2>3, <2>4, CanonicalIs
  <2>6. WellFormed(t) /\ c # None
    BY <1>5, <2>3, TakenIsWellFormed, TagAssumption
  <2> QED
    BY <2>3, <2>5, <2>6 DEF ParsedExactly
<1>6. CASE /\ ~Refusal(t) /\ ~Listed(t) /\ ~empty
           /\ ~(IF t[1].name = "x" THEN ParsedPrivate(t) ELSE ParsedLanguage(t))
  BY <1>6, CanonicalIs, WellFormedIsSound DEF ParsedExactly
<1> QED
  BY <1>1, <1>2, <1>3, <1>4, <1>5, <1>6

\* Whatever somebody types, one subtag after the other, is taken just if the
\* grammar of language tags describes it, and comes back as itself.
THEOREM TagsAlwaysParsed == TagSpec => []TagsAreParsed
<1> DEFINE Sound == typed \in Seq(Subtag)
<1>1. TagInit => Sound
  BY DEF TagInit
<1>2. Sound /\ [TagNext]_typed => Sound'
  <2> SUFFICES ASSUME Sound, [TagNext]_typed
               PROVE  Sound'
    OBVIOUS
  <2>1. ASSUME NEW s \in Subtag, Spell(s)
        PROVE  Sound'
    BY <2>1 DEF Spell
  <2>2. CASE Clear
    BY <2>2 DEF Clear
  <2>3. CASE UNCHANGED typed
    BY <2>3
  <2> QED
    BY <2>1, <2>2, <2>3 DEF TagNext
<1>3. Sound => TagsAreParsed
  BY EveryTagIsParsed DEF TagsAreParsed
<1> QED
  BY <1>1, <1>2, <1>3, PTL DEF TagSpec

-----------------------------------------------------------------------------
(* What the checks of a package say of the tables.                         *)

\* Rows that the checks told apart are told apart by the tables, except for the
\* date of a slice and the version of a schema.
LEMMA KeysOfTables ==
    ASSUME NEW section \in Section, NEW key \in TableKeys[section]
    PROVE  \/ key \in UniqueInPackage[section]
           \/ section = "time_slices" /\ key = {"cutoff"}
           \/ section = "schema_versions" /\ key = {"version"}
<1>1. section \in Section \cup Outside /\ section \notin Outside
  BY DEF Section, Outside, Refers
<1>2. CASE section = "time_slices"
  BY <1>1, <1>2 DEF TableKeys, UniqueInPackage
<1>3. CASE section = "schema_versions"
  BY <1>1, <1>3 DEF TableKeys, UniqueInPackage
<1>4. CASE section = "calculation_strategies"
  BY <1>1, <1>4 DEF TableKeys
<1>5. CASE section \notin {"time_slices", "schema_versions", "calculation_strategies"}
  <2>1. TableKeys[section] = {{"code"}} \cup PackageKeys[section]
    BY <1>1, <1>5 DEF TableKeys
  <2> QED
    BY <2>1 DEF UniqueInPackage
<1> QED
  BY <1>2, <1>3, <1>4, <1>5

LEMMA GapOrDistinct ==
    ASSUME NEW q, Valid(q)
    PROVE  /\ DistinctInTables(q.rows) <=>
                 /\ \A s, t \in Of(q.rows, "time_slices") : s # t => s.cutoff # t.cutoff
                 /\ \A s, t \in Of(q.rows, "schema_versions") : s # t => s.version # t.version
<1>1. /\ DistinctBy(q.rows, UniqueInPackage)
      /\ Cardinality({v \in Of(q.rows, "schema_versions") : v.current}) <= 1
      /\ \A r \in q.rows : r.section \in Section
  BY DEF Valid
<1>2. {"cutoff"} \in TableKeys["time_slices"] /\ {"version"} \in TableKeys["schema_versions"]
  <2>1. "time_slices" \in Section \cup Outside /\ "schema_versions" \in Section \cup Outside
    BY DEF Section, Refers
  <2>2. TableKeys["time_slices"] = {{"code"}, {"cutoff"}}
    BY <2>1 DEF TableKeys, Outside
  <2>3. TableKeys["schema_versions"] = {{"code"}, {"version"}}
    BY <2>1 DEF TableKeys, Outside
  <2> QED
    BY <2>2, <2>3
<1>3. ASSUME DistinctBy(q.rows, TableKeys),
             NEW s \in Of(q.rows, "time_slices"), NEW t \in Of(q.rows, "time_slices"), s # t
      PROVE  s.cutoff # t.cutoff
  <2>1. s \in q.rows /\ t \in q.rows /\ s.section = "time_slices" /\ t.section = "time_slices"
    BY DEF Of
  <2>2. ~Same(s, t, {"cutoff"})
    BY <1>2, <1>3, <2>1 DEF DistinctBy
  <2> QED
    BY <2>2 DEF Same
<1>4. ASSUME DistinctBy(q.rows, TableKeys),
             NEW s \in Of(q.rows, "schema_versions"), NEW t \in Of(q.rows, "schema_versions"), s # t
      PROVE  s.version # t.version
  <2>1. /\ s \in q.rows /\ t \in q.rows
        /\ s.section = "schema_versions" /\ t.section = "schema_versions"
    BY DEF Of
  <2>2. ~Same(s, t, {"version"})
    BY <1>2, <1>4, <2>1 DEF DistinctBy
  <2> QED
    BY <2>2 DEF Same
<1>5. ASSUME \A s, t \in Of(q.rows, "time_slices") : s # t => s.cutoff # t.cutoff,
             \A s, t \in Of(q.rows, "schema_versions") : s # t => s.version # t.version
      PROVE  DistinctBy(q.rows, TableKeys)
  <2> SUFFICES ASSUME NEW r \in q.rows, NEW s \in q.rows, r.section = s.section, r # s,
                      NEW key \in TableKeys[r.section]
               PROVE  ~Same(r, s, key)
    BY DEF DistinctBy
  <2>1. r.section \in Section
    BY <1>1
  <2>2. CASE key \in UniqueInPackage[r.section]
    BY <1>1, <2>2 DEF DistinctBy
  <2>3. CASE r.section = "time_slices" /\ key = {"cutoff"}
    BY <1>5, <2>3 DEF Of, Same
  <2>4. CASE r.section = "schema_versions" /\ key = {"version"}
    BY <1>5, <2>4 DEF Of, Same
  <2> QED
    BY <2>1, <2>2, <2>3, <2>4, KeysOfTables
<1> QED
  BY <1>1, <1>3, <1>4, <1>5 DEF DistinctInTables

LEMMA GapOrClean ==
    ASSUME NEW q, Valid(q)
    PROVE  /\ \A r \in q.rows : Resolved(r, q.rows)
           /\ Clean(q.rows, q.rows) <=>
                 /\ \A r \in q.rows : r.fits
                 /\ \A d \in Of(q.rows, "parameter_definitions") : d.upper \notin Reserved
                 /\ \A m \in Of(q.rows, "parameter_values") :
                       m.value # None => NamedBounds(DefinitionOf(q.rows, m), m.value)
<1>1. ASSUME NEW r \in q.rows PROVE Resolved(r, q.rows)
  BY DEF Valid, Closed, Resolved
<1>2. ASSUME NEW m \in MeasuredRows(q.rows)
      PROVE  /\ m.target[1] = DefinitionOf(q.rows, m).target_type
             /\ Measured(DefinitionOf(q.rows, m), m, {"PROVISIONAL", "DISPUTED"}, 0..100)
  <2>1. /\ m.status \in {"ABSENT", "PROVISIONAL"}
        /\ Measured(DefinitionOf(q.rows, m), m, {"PROVISIONAL"}, 0..1)
        /\ m.target[1] = DefinitionOf(q.rows, m).target_type
    BY DEF Valid, MeasurementsOK
  <2> QED
    BY <2>1 DEF Measured
<1>3. /\ \A d \in Of(q.rows, "parameter_definitions") : ScaleOK(d)
      /\ SourcesOK(q.rows) /\ LockOK(q.rows) /\ ScenariosOK(q.rows, q.rows)
      /\ EventSetsOK(q.rows, q.rows)
  BY DEF Valid, EventsOK
<1>4. \A m \in MeasuredRows(q.rows) :
         m.section = "parameter_values" <=> m \in Of(q.rows, "parameter_values")
  BY DEF MeasuredRows, Of
<1>5. Of(q.rows, "parameter_values") \subseteq MeasuredRows(q.rows)
  BY DEF MeasuredRows
<1> QED
  BY <1>1, <1>2, <1>3, <1>4, <1>5 DEF Clean

\* A valid package is storable but for its gaps and the identities it meets.
LEMMA CheckedIsStorable ==
    ASSUME NEW q, Valid(q), NEW ps, NEW stored
    PROVE  Storable(q, ps, stored) <=> Free(q, ps, stored) /\ ~Gap(q)
<1>1. Gap(q) <=> \/ ~q.project.fits
                 \/ ~DistinctInTables(q.rows)
                 \/ ~Clean(q.rows, q.rows)
                 \/ ~CompanionsFit(q.rows)
  <2>1. DistinctInTables(q.rows) <=>
           /\ \A s, t \in Of(q.rows, "time_slices") : s # t => s.cutoff # t.cutoff
           /\ \A s, t \in Of(q.rows, "schema_versions") : s # t => s.version # t.version
    BY GapOrDistinct
  <2>2. Clean(q.rows, q.rows) <=>
           /\ \A r \in q.rows : r.fits
           /\ \A d \in Of(q.rows, "parameter_definitions") : d.upper \notin Reserved
           /\ \A m \in Of(q.rows, "parameter_values") :
                 m.value # None => NamedBounds(DefinitionOf(q.rows, m), m.value)
    BY GapOrClean
  <2> QED
    BY <2>1, <2>2 DEF Gap
<1> QED
  BY <1>1, GapOrClean DEF Storable

-----------------------------------------------------------------------------
(* Packages that passed their checks.                                      *)

Checked(q) == Valid(q) /\ q.format = "1.1"

\* All that an import works with and all that was given out.
FileInv ==
    /\ DOMAIN imports = Importer
    /\ \A i \in Importer : imports[i] # None => Checked(imports[i])
    /\ \A f \in files : Checked(f)

\* The checks read no more of a package than its seal, its format, its language,
\* the UUID of its Project and its rows.
LEMMA SameContent ==
    ASSUME NEW q, NEW r, Valid(q), r.sealed, r.rows = q.rows, r.project.id = q.project.id,
           LanguagePair(r.tag, r.assignment)
    PROVE  Valid(r)
<1>1. \A t : HasTarget(r, t) <=> HasTarget(q, t)
  BY DEF HasTarget
<1>2. Closed(r)
  BY DEF Valid, Closed
<1>3. MeasurementsOK(r)
  BY <1>1 DEF Valid, MeasurementsOK
<1>4. LinksOK(r)
  BY DEF Valid, LinksOK
<1>5. EventsOK(r)
  BY <1>1 DEF Valid, EventsOK
<1> QED
  BY <1>2, <1>3, <1>4, <1>5 DEF Valid

LEMMA UpgradedIsChecked ==
    ASSUME NEW q \in Package, NEW tag, NEW assignment, Valid(q), LanguagePair(tag, assignment)
    PROVE  Checked(Upgraded(q, tag, assignment))
<1>1. DOMAIN q = {"format", "sealed", "project", "tag", "assignment", "rows"}
  BY PackageAssumption
<1> DEFINE r == Upgraded(q, tag, assignment)
<1>2. /\ r.format = "1.1" /\ r.tag = tag /\ r.assignment = assignment
      /\ r.sealed = q.sealed /\ r.rows = q.rows /\ r.project = q.project
  BY <1>1 DEF Upgraded
<1> HIDE DEF r
<1>3. q.sealed
  BY DEF Valid
<1>4. Valid(r)
  BY <1>2, <1>3, SameContent
<1> QED
  BY <1>2, <1>4 DEF Checked, r

LEMMA NormalIsChecked ==
    ASSUME NEW q \in Package \cup files, \A f \in files : Checked(f), Normal(q) # None
    PROVE  Checked(Normal(q))
<1>1. Valid(q)
  BY DEF Normal
<1>2. CASE q.format = "1.1"
  BY <1>1, <1>2 DEF Normal, Checked
<1>3. CASE q.format # "1.1"
  <2>1. q \in Package
    BY <1>3 DEF Checked
  <2>2. Normal(q) = Upgraded(q, Ru, "EXPLICIT")
    BY <1>1, <1>3 DEF Normal
  <2>3. LanguagePair(Ru, "EXPLICIT")
    BY PackageAssumption
  <2> QED
    BY <1>1, <2>1, <2>2, <2>3, UpgradedIsChecked
<1> QED
  BY <1>2, <1>3

LEMMA FilesStart == PackageInit => FileInv
BY DEF PackageInit, FileInv

LEMMA FilesStay == FileInv /\ [PackageNext]_<<languageVars, packageVars>> => FileInv'
<1> SUFFICES ASSUME FileInv, [PackageNext]_<<languageVars, packageVars>> PROVE FileInv'
  OBVIOUS
<1> USE DEF FileInv
<1>1. CASE UNCHANGED <<imports, files>>
  BY <1>1
<1>2. ASSUME NEW i \in Importer, NEW q \in Package \cup files, CheckImport(i, q) PROVE FileInv'
  <2>1. Checked(Normal(q))
    BY <1>2, NormalIsChecked DEF CheckImport
  <2>2. imports' = [imports EXCEPT ![i] = Normal(q)] /\ files' = files
    BY <1>2 DEF CheckImport
  <2> QED
    BY <2>1, <2>2
<1>3. ASSUME NEW i \in Importer, WriteImport(i) PROVE FileInv'
  <2>1. imports' = [imports EXCEPT ![i] = None] /\ files' = files
    BY <1>3 DEF WriteImport
  <2> QED
    BY <2>1
<1>4. ASSUME NEW q \in Package, NEW tag, NEW a, Upgrade(q, tag, a) PROVE FileInv'
  <2>1. Checked(Upgraded(q, tag, a))
    BY <1>4, UpgradedIsChecked DEF Upgrade
  <2>2. files' = files \cup {Upgraded(q, tag, a)} /\ imports' = imports
    BY <1>4 DEF Upgrade
  <2> QED
    BY <2>1, <2>2
<1>5. ASSUME NEW p, Export(p) PROVE FileInv'
  <2>1. Valid(Payload(p)) /\ Payload(p).format = "1.1"
    BY <1>5 DEF Export, Payload
  <2>2. files' = files \cup {Payload(p)} /\ imports' = imports
    BY <1>5 DEF Export
  <2> QED
    BY <2>1, <2>2 DEF Checked
<1>6. ASSUME NEW p, NEW at, NEW r, AddRow(p, at, r) PROVE UNCHANGED <<imports, files>>
  BY <1>6 DEF AddRow
<1>7. Seed => UNCHANGED <<imports, files>>
  BY DEF Seed
<1>8. CASE LanguageNext /\ UNCHANGED packageVars
  BY <1>1, <1>8 DEF packageVars
<1>9. CASE UNCHANGED <<languageVars, packageVars>>
  BY <1>1, <1>9 DEF packageVars
<1> QED
  BY <1>1, <1>2, <1>3, <1>4, <1>5, <1>6, <1>7, <1>8, <1>9 DEF PackageNext

\* Of any packages, callers and rows: whatever an import found in order is stored,
\* unless one of its identities was taken before it was written, or its package has
\* what Gap names.  So the checks of a package, of which no line is shared with the
\* models, miss nothing else that relates two of its rows, or two fields of a row.
THEOREM ImportsArePredicted == PackageSpec => []ChecksPredictWrites
<1>1. FileInv => ChecksPredictWrites
  BY CheckedIsStorable DEF FileInv, Checked, ChecksPredictWrites
<1> QED
  BY <1>1, FilesStart, FilesStay, PTL DEF PackageSpec

-----------------------------------------------------------------------------
(* What is stored of a package, and what comes back.                       *)

\* The companions of the rows are in tables that no package has.
LEMMA RowsComeBack ==
    ASSUME NEW q, Valid(q)
    PROVE  {x.row : x \in {y \in NewRows(q) : y.row.section \in Section}} = q.rows
<1> DEFINE Back == {x.row : x \in {y \in NewRows(q) : y.row.section \in Section}}
           Put(r) == [project |-> q.project.id, at |-> "PACKAGE", row |-> r]
<1>1. \A r \in Companions(q.rows) : r.section \notin Section
  BY DEF Companions, Section, Refers
<1>2. \A r \in q.rows : r.section \in Section
  BY DEF Valid
<1>3. ASSUME NEW r \in Back PROVE r \in q.rows
  <2>1. PICK x \in NewRows(q) : x.row.section \in Section /\ r = x.row
    OBVIOUS
  <2>2. PICK s \in q.rows \cup Companions(q.rows) : x = Put(s)
    BY <2>1 DEF NewRows
  <2>3. r = s
    BY <2>1, <2>2
  <2> QED
    BY <1>1, <2>1, <2>2, <2>3
<1>4. ASSUME NEW r \in q.rows PROVE r \in Back
  <2>1. Put(r) \in NewRows(q)
    BY DEF NewRows
  <2>2. Put(r).row = r
    OBVIOUS
  <2> QED
    BY <1>2, <2>1, <2>2
<1> QED
  BY <1>3, <1>4

\* Every file that was given out passes the checks of an import; an empty database
\* takes it if and only if it has nothing of Gap, and stores its rows as they are.
THEOREM FilesAlwaysGood == PackageSpec => []FilesAreGood
<1>1. ASSUME FileInv PROVE FilesAreGood
  <2> SUFFICES ASSUME NEW f \in files
               PROVE  /\ Valid(f) /\ Normal(f) = f
                      /\ Storable(f, {}, {}) <=> ~Gap(f)
                      /\ {x.row : x \in {y \in NewRows(f) : y.row.section \in Section}} = f.rows
    BY DEF FilesAreGood
  <2>1. Valid(f) /\ f.format = "1.1"
    BY <1>1 DEF FileInv, Checked
  <2>2. Free(f, {}, {})
    BY DEF Free, Taken
  <2>3. Normal(f) = f
    BY <2>1 DEF Normal
  <2> QED
    BY <2>1, <2>2, <2>3, CheckedIsStorable, RowsComeBack
<1> QED
  BY <1>1, FilesStart, FilesStay, PTL DEF PackageSpec

-----------------------------------------------------------------------------
(* Projects and their languages.                                           *)

Shaped(p) ==
    p = [id |-> p.id, code |-> p.code, name |-> p.name, tag |-> p.tag, assignment |-> p.assignment]

\* One Project has a UUID, one has a code, and its pair is one the table takes.
IdentityInv ==
    /\ \A p \in projects : Shaped(p) /\ PairOK(p)
    /\ \A p, q \in projects : p.id = q.id \/ p.code = q.code => p = q

\* A call at its step keeps what it found out at the one before.
StepOK(a) ==
    /\ a.call \in Call
    /\ a.step \in {"create", "insert", "again", "loaded", "write"}
    /\ a.step = "insert" => \A r \in a.call.rows : Insertable(r)
    /\ a.step \in {"again", "loaded", "write"} => a.call.op # "create"
    /\ a.step = "write" => Persisted(The(a.call.rows))

SessionInv ==
    /\ DOMAIN sessions = Session
    /\ \A s \in Session : sessions[s] # None => StepOK(sessions[s])

\* A Project that is there will be there, with its language.
Keeps(p) == \E q \in projects : q.id = p.id /\ q.tag = p.tag /\ q.assignment = p.assignment

LanguageInv == IdentityInv /\ SessionInv /\ AnswersHold

LEMMA OneRow ==
    ASSUME NEW c \in Call, c.op # "create"
    PROVE  The(c.rows) \in c.rows /\ c.rows = {The(c.rows)} /\ The(c.rows) \in Draft
<1>1. PICK r \in c.rows : c.rows = {r}
  BY LanguageAssumption
<1>2. The(c.rows) = r
  BY <1>1 DEF The
<1> QED
  BY <1>1, <1>2, LanguageAssumption

LEMMA DraftIsShaped == ASSUME NEW r \in Draft PROVE Shaped(r)
BY DEF Draft, Shaped

LEMMA RenamedKeeps ==
    ASSUME NEW c, NEW p, Shaped(p), NEW n, n = Renamed(c, p)
    PROVE  /\ n.id = p.id /\ n.code = p.code /\ n.tag = p.tag /\ n.assignment = p.assignment
           /\ Shaped(n)
<1>1. CASE n = p
  BY <1>1
<1>2. CASE n = [p EXCEPT !.name = The(c.rows).name]
  BY <1>2 DEF Shaped
<1> QED
  BY <1>1, <1>2 DEF Renamed

\* A row in the place of another of the same UUID, code and language.
LEMMA ReplacedKeeps ==
    ASSUME IdentityInv, NEW p \in projects, NEW n, Shaped(n),
           n.id = p.id, n.code = p.code, n.tag = p.tag, n.assignment = p.assignment,
           projects' = (projects \ {p}) \cup {n}
    PROVE  IdentityInv' /\ \A x \in projects : Keeps(x)'
<1>1. \A x \in projects : Keeps(x)'
  BY DEF Keeps
<1>2. \A x \in projects' : Shaped(x) /\ PairOK(x)
  BY DEF IdentityInv, PairOK
<1>3. \A x, y \in projects' : x.id = y.id \/ x.code = y.code => x = y
  BY DEF IdentityInv
<1> QED
  BY <1>1, <1>2, <1>3 DEF IdentityInv

\* Rows that clash with none.
LEMMA AddedKeeps ==
    ASSUME IdentityInv, NEW N, \A n \in N : Shaped(n) /\ PairOK(n),
           \A n, m \in N : n.id = m.id \/ n.code = m.code => n = m,
           \A n \in N : \A p \in projects : p.id # n.id /\ p.code # n.code,
           projects' = projects \cup N
    PROVE  IdentityInv' /\ \A x \in projects : Keeps(x)'
<1>1. \A x \in projects : Keeps(x)'
  BY DEF Keeps
<1>2. \A x \in projects' : Shaped(x) /\ PairOK(x)
  BY DEF IdentityInv
<1>3. \A x, y \in projects' : x.id = y.id \/ x.code = y.code => x = y
  BY DEF IdentityInv
<1> QED
  BY <1>1, <1>2, <1>3 DEF IdentityInv

LEMMA UnchangedKeeps ==
    ASSUME IdentityInv, projects' = projects
    PROVE  IdentityInv' /\ \A x \in projects : Keeps(x)'
BY DEF IdentityInv, Keeps

-----------------------------------------------------------------------------
(* What calls write.                                                       *)

LEMMA GetKeeps ==
    ASSUME LanguageInv, NEW s \in Session, NEW c \in Call, c.op # "create", Get(s, c)
    PROVE  IdentityInv' /\ \A x \in projects : Keeps(x)'
<1>1. PICK p \in Found(c) :
         \/ projects' = (projects \ {p}) \cup {Renamed(c, p)}
         \/ projects' = projects
  BY DEF Get
<1>2. p \in projects /\ Shaped(p)
  BY DEF Found, LanguageInv, IdentityInv
<1>3. PICK n : n = Renamed(c, p)
  OBVIOUS
<1> QED
  BY <1>1, <1>2, <1>3, RenamedKeeps, ReplacedKeeps, UnchangedKeeps DEF LanguageInv

LEMMA StoredIsShaped ==
    ASSUME NEW r \in Draft, Insertable(r), NEW n, n = Stored(r)
    PROVE  /\ n.id = r.id /\ n.code = r.code /\ n.tag = Canonical(r.tag) /\ n.assignment = "EXPLICIT"
           /\ Shaped(n) /\ PairOK(n)
<1>1. Shaped(r)
  BY DraftIsShaped
<1>2. n = [r EXCEPT !.tag = Canonical(r.tag), !.assignment = "EXPLICIT"]
  BY DEF Stored
<1>3. /\ n.id = r.id /\ n.code = r.code /\ n.tag = Canonical(r.tag) /\ n.assignment = "EXPLICIT"
      /\ Shaped(n)
  BY <1>1, <1>2 DEF Shaped
<1>4. PairOK(n)
  BY <1>3 DEF PairOK, Insertable
<1> QED
  BY <1>3, <1>4

LEMMA InsertKeeps ==
    ASSUME LanguageInv, NEW s \in Session, Insert(s)
    PROVE  IdentityInv' /\ \A x \in projects : Keeps(x)'
<1> DEFINE c == sessions[s].call
           N == {Stored(r) : r \in c.rows}
<1>1. c \in Call /\ \A r \in c.rows : Insertable(r)
  BY DEF Insert, LanguageInv, SessionInv, StepOK
<1>2. \A r \in c.rows : r \in Draft
  BY <1>1, LanguageAssumption
<1>3. CASE Distinct(c.rows) /\ \A r \in c.rows : Clash(r) = {}
  <2>1. projects' = projects \cup N
    BY <1>3 DEF Insert
  <2>2. ASSUME NEW n \in N
        PROVE  \E r \in c.rows : /\ n = Stored(r) /\ n.id = r.id /\ n.code = r.code
                                 /\ Shaped(n) /\ PairOK(n)
    <3>1. PICK r \in c.rows : n = Stored(r)
      OBVIOUS
    <3> QED
      BY <1>1, <1>2, <3>1, StoredIsShaped
  <2>3. \A n, m \in N : n.id = m.id \/ n.code = m.code => n = m
    BY <1>3, <2>2 DEF Distinct
  <2>4. \A n \in N : \A p \in projects : p.id # n.id /\ p.code # n.code
    BY <1>3, <2>2 DEF Clash
  <2>5. \A n \in N : Shaped(n) /\ PairOK(n)
    BY <2>2
  <2> HIDE DEF N
  <2> QED
    BY <2>1, <2>3, <2>4, <2>5, AddedKeeps DEF LanguageInv
<1>4. CASE ~(Distinct(c.rows) /\ \A r \in c.rows : Clash(r) = {})
  <2>1. projects' = projects
    BY <1>4 DEF Insert
  <2> QED
    BY <2>1, UnchangedKeeps DEF LanguageInv
<1> QED
  BY <1>3, <1>4

LEMMA WriteKeeps ==
    ASSUME LanguageInv, NEW s \in Session, Write(s)
    PROVE  IdentityInv' /\ \A x \in projects : Keeps(x)'
<1> DEFINE r == The(sessions[s].call.rows)
           n == [r EXCEPT !.tag = Canonical(r.tag)]
<1>1. sessions[s].call \in Call /\ sessions[s].call.op # "create" /\ Persisted(r)
  BY DEF Write, LanguageInv, SessionInv, StepOK
<1>2. Shaped(r)
  BY <1>1, OneRow, DraftIsShaped
<1>3. /\ n.id = r.id /\ n.code = r.code /\ n.tag = Canonical(r.tag)
      /\ n.assignment = r.assignment /\ Shaped(n)
  BY <1>2 DEF Shaped
<1>4. PICK p \in projects : p.id = r.id /\ p.tag = Canonical(r.tag) /\ p.assignment = r.assignment
  BY <1>1 DEF Persisted
<1>5. CASE \A q \in Clash(r) : q.id = r.id
  <2>1. projects' = {q \in projects : q.id # r.id} \cup {n}
    BY <1>5 DEF Write
  <2>2. \A q \in projects : q.id = r.id => q = p
    BY <1>4 DEF LanguageInv, IdentityInv
  <2>3. \A q \in projects : q.code = r.code => q.id = r.id
    BY <1>5 DEF Clash
  <2>4. PairOK(p)
    BY DEF LanguageInv, IdentityInv
  <2>5. PairOK(n)
    BY <1>3, <1>4, <2>4 DEF PairOK
  <2> HIDE DEF n, r
  <2>6. \A x \in projects : Keeps(x)'
    BY <1>3, <1>4, <2>1, <2>2 DEF Keeps
  <2>7. \A x \in projects' : Shaped(x) /\ PairOK(x)
    BY <1>3, <2>1, <2>5 DEF LanguageInv, IdentityInv
  <2>8. \A x, y \in projects' : x.id = y.id \/ x.code = y.code => x = y
    BY <1>3, <2>1, <2>3 DEF LanguageInv, IdentityInv
  <2> QED
    BY <2>6, <2>7, <2>8 DEF IdentityInv
<1>6. CASE ~\A q \in Clash(r) : q.id = r.id
  <2>1. projects' = projects
    BY <1>6 DEF Write
  <2> QED
    BY <2>1, UnchangedKeeps DEF LanguageInv
<1> QED
  BY <1>5, <1>6

LEMMA SeedKeeps ==
    ASSUME IdentityInv, Seed
    PROVE  IdentityInv' /\ \A x \in projects : Keeps(x)'
<1> DEFINE n == [id |-> DemoId, code |-> DemoCode, name |-> DemoName, tag |-> Ru,
                 assignment |-> "EXPLICIT"]
<1>1. Ru # Und
  BY PackageAssumption DEF LanguagePair
<1>2. projects' = {p \in projects : p.id # DemoId} \cup {n}
  BY DEF Seed
<1>3. n.id = DemoId /\ n.code = DemoCode /\ n.tag = Ru /\ n.assignment = "EXPLICIT" /\ Shaped(n)
  BY DEF Shaped
<1>4. PairOK(n)
  BY <1>1, <1>3 DEF PairOK
<1> HIDE DEF n
<1>5. \A p \in projects : p.id = DemoId => p.tag = Ru /\ p.code = DemoCode
  <2>1. (\E p \in projects : p.id = DemoId) =>
           \E q \in projects : q.id = DemoId /\ q.code = DemoCode /\ q.tag = Ru
    BY DEF Seed
  <2> QED
    BY <2>1 DEF IdentityInv
<1>6. \A p \in projects : p.code = DemoCode => p.id = DemoId
  BY DEF IdentityInv, Seed
<1>7. \A p \in projects : p.id = DemoId => p.assignment = "EXPLICIT"
  BY <1>1, <1>5 DEF IdentityInv, PairOK
<1>8. \A x \in projects : Keeps(x)'
  BY <1>2, <1>3, <1>5, <1>7 DEF Keeps
<1>9. \A x \in projects' : Shaped(x) /\ PairOK(x)
  BY <1>2, <1>3, <1>4 DEF IdentityInv
<1>10. \A x, y \in projects' : x.id = y.id \/ x.code = y.code => x = y
  BY <1>2, <1>3, <1>6 DEF IdentityInv
<1> QED
  BY <1>8, <1>9, <1>10 DEF IdentityInv

LEMMA ImportKeeps ==
    ASSUME IdentityInv, FileInv, NEW i \in Importer, WriteImport(i)
    PROVE  IdentityInv' /\ \A x \in projects : Keeps(x)'
<1> DEFINE q == imports[i]
           n == ProjectRow(q)
<1>1. Checked(q)
  BY DEF FileInv, WriteImport
<1>2. /\ n.id = q.project.id /\ n.code = q.project.code /\ n.tag = q.tag
      /\ n.assignment = q.assignment /\ Shaped(n)
  BY DEF ProjectRow, Shaped
<1>3. LanguagePair(q.tag, q.assignment)
  BY <1>1 DEF Checked, Valid
<1>4. PairOK(n)
  BY <1>2, <1>3 DEF LanguagePair, PairOK
<1>5. CASE Storable(q, projects, rows)
  <2>1. projects' = projects \cup {n}
    BY <1>5 DEF WriteImport
  <2>2. \A p \in projects : p.id # n.id /\ p.code # n.code
    BY <1>2, <1>5 DEF Storable, Free
  <2> HIDE DEF n
  <2>3. PICK N : N = {n}
    OBVIOUS
  <2>4. /\ \A m \in N : Shaped(m) /\ PairOK(m)
        /\ \A m, o \in N : m.id = o.id \/ m.code = o.code => m = o
        /\ \A m \in N : \A p \in projects : p.id # m.id /\ p.code # m.code
    BY <1>2, <1>4, <2>2, <2>3
  <2> QED
    BY <2>1, <2>3, <2>4, AddedKeeps
<1>6. CASE ~Storable(q, projects, rows)
  <2>1. projects' = projects
    BY <1>6 DEF WriteImport
  <2> QED
    BY <2>1, UnchangedKeeps
<1> QED
  BY <1>5, <1>6

-----------------------------------------------------------------------------
(* Every step.                                                             *)

\* No step takes a Project away or gives it another language, and no two of them
\* are told apart by less than their UUIDs and codes.
LEMMA ProjectsStay ==
    ASSUME LanguageInv, FileInv, [PackageNext]_<<languageVars, packageVars>>
    PROVE  IdentityInv' /\ \A x \in projects : Keeps(x)'
<1> DEFINE Goal == IdentityInv' /\ \A x \in projects : Keeps(x)'
<1>0. projects' = projects => Goal
  BY UnchangedKeeps DEF LanguageInv
<1>1. ASSUME NEW s \in Session, NEW c \in Call, BeginGet(s, c) PROVE Goal
  <2>1. c.op # "create"
    BY <1>1 DEF BeginGet
  <2>2. projects' = projects \/ Get(s, c)
    BY <1>1 DEF BeginGet
  <2> QED
    BY <1>0, <2>1, <2>2, GetKeeps
<1>2. ASSUME NEW s \in Session, Again(s) PROVE Goal
  <2>1. sessions[s].call \in Call /\ sessions[s].call.op # "create"
    BY <1>2 DEF Again, LanguageInv, SessionInv, StepOK
  <2>2. projects' = projects \/ Get(s, sessions[s].call)
    BY <1>2 DEF Again
  <2> QED
    BY <1>0, <2>1, <2>2, GetKeeps
<1>3. ASSUME NEW s \in Session, NEW c \in Call, BeginCreate(s, c) \/ Load(s, c) PROVE Goal
  BY <1>0, <1>3 DEF BeginCreate, Load
<1>4. ASSUME NEW s \in Session, Check(s) \/ Save(s) PROVE Goal
  BY <1>0, <1>4 DEF Check, Save
<1>5. ASSUME NEW p \in projects, NEW name, Update(p, name) PROVE Goal
  <2>1. PICK n : n = [p EXCEPT !.name = name]
    OBVIOUS
  <2>2. Shaped(p)
    BY DEF LanguageInv, IdentityInv
  <2>3. /\ n.id = p.id /\ n.code = p.code /\ n.tag = p.tag /\ n.assignment = p.assignment
        /\ Shaped(n)
    BY <2>1, <2>2 DEF Shaped
  <2>4. projects' = (projects \ {p}) \cup {n}
    BY <1>5, <2>1 DEF Update
  <2> QED
    BY <2>3, <2>4, ReplacedKeeps DEF LanguageInv
<1>6. LanguageNext => Goal
  BY <1>1, <1>2, <1>3, <1>4, <1>5, InsertKeeps, WriteKeeps DEF LanguageNext
<1>7. ASSUME NEW i \in Importer, NEW q, CheckImport(i, q) PROVE Goal
  BY <1>0, <1>7 DEF CheckImport, languageVars
<1>8. ASSUME NEW q, NEW tag, NEW a, Upgrade(q, tag, a) PROVE Goal
  BY <1>0, <1>8 DEF Upgrade, languageVars
<1>9. ASSUME NEW p, Export(p) PROVE Goal
  BY <1>0, <1>9 DEF Export, languageVars
<1>10. ASSUME NEW p, NEW at, NEW r, AddRow(p, at, r) PROVE Goal
  BY <1>0, <1>10 DEF AddRow, languageVars
<1>11. UNCHANGED <<languageVars, packageVars>> => Goal
  BY <1>0 DEF languageVars
<1> QED
  BY <1>6, <1>7, <1>8, <1>9, <1>10, <1>11, ImportKeeps, SeedKeeps DEF PackageNext, LanguageInv

LEMMA StepStaysOK ==
    ASSUME NEW a, StepOK(a), \A x \in projects : Keeps(x)'
    PROVE  StepOK(a)'
<1>1. Persisted(The(a.call.rows)) => Persisted(The(a.call.rows))'
  BY DEF Persisted, Keeps
<1> QED
  BY <1>1 DEF StepOK

LEMMA LeaveStays ==
    ASSUME SessionInv, \A x \in projects : Keeps(x)', NEW s \in Session, Leave(s)
    PROVE  SessionInv'
<1>1. sessions' = [sessions EXCEPT ![s] = None]
  BY DEF Leave
<1>2. DOMAIN sessions' = Session
  BY <1>1 DEF SessionInv
<1>3. ASSUME NEW t \in Session, sessions'[t] # None PROVE StepOK(sessions[t])' 
  <2>1. PICK a : a = sessions[t]
    OBVIOUS
  <2>2. sessions'[t] = a /\ StepOK(a)
    BY <1>1, <1>3, <2>1 DEF SessionInv
  <2>3. StepOK(a)'
    BY <2>2, StepStaysOK
  <2> QED
    BY <2>2, <2>3
<1> QED
  BY <1>2, <1>3 DEF SessionInv

LEMMA EnterStays ==
    ASSUME SessionInv, \A x \in projects : Keeps(x)', NEW s \in Session, NEW c, NEW step,
           Enter(s, c, step), NEW a, a = [call |-> c, step |-> step], StepOK(a)'
    PROVE  SessionInv'
<1>1. sessions' = [sessions EXCEPT ![s] = a]
  BY DEF Enter
<1>2. DOMAIN sessions' = Session
  BY <1>1 DEF SessionInv
<1>3. ASSUME NEW t \in Session, sessions'[t] # None PROVE StepOK(sessions[t])'
  <2>1. CASE t = s
    <3>1. sessions'[t] = a
      BY <1>1, <2>1 DEF SessionInv
    <3> QED
      BY <3>1
  <2>2. CASE t # s
    <3>1. PICK b : b = sessions[t]
      OBVIOUS
    <3>2. sessions'[t] = b /\ StepOK(b)
      BY <1>1, <1>3, <2>2, <3>1 DEF SessionInv
    <3>3. StepOK(b)'
      BY <3>2, StepStaysOK
    <3> QED
      BY <3>2, <3>3
  <2> QED
    BY <2>1, <2>2
<1> QED
  BY <1>2, <1>3 DEF SessionInv

LEMMA SessionsUnchanged ==
    ASSUME SessionInv, \A x \in projects : Keeps(x)', sessions' = sessions
    PROVE  SessionInv'
<1>1. DOMAIN sessions' = Session
  BY DEF SessionInv
<1>2. ASSUME NEW t \in Session, sessions'[t] # None PROVE StepOK(sessions[t])'
  <2>1. PICK a : a = sessions[t]
    OBVIOUS
  <2>2. sessions'[t] = a /\ StepOK(a)
    BY <1>2, <2>1 DEF SessionInv
  <2>3. StepOK(a)'
    BY <2>2, StepStaysOK
  <2> QED
    BY <2>2, <2>3
<1> QED
  BY <1>1, <1>2 DEF SessionInv

\* A step that has nothing to remember yet.
LEMMA EasyStep ==
    ASSUME SessionInv, \A x \in projects : Keeps(x)', NEW s \in Session, NEW c \in Call,
           NEW step, \/ step = "create"
                     \/ step \in {"again", "loaded"} /\ c.op # "create",
           Enter(s, c, step)
    PROVE  SessionInv'
<1>1. PICK a : a = [call |-> c, step |-> step]
  OBVIOUS
<1>2. StepOK(a)'
  BY <1>1 DEF StepOK
<1> QED
  BY <1>1, <1>2, EnterStays

LEMMA CallsStay ==
    ASSUME LanguageInv, \A x \in projects : Keeps(x)', LanguageNext
    PROVE  SessionInv'
<1>0. SessionInv
  BY DEF LanguageInv
<1>1. ASSUME NEW s \in Session, NEW c \in Call, BeginGet(s, c) PROVE SessionInv'
  <2>1. c.op # "create"
    BY <1>1 DEF BeginGet
  <2>2. CASE Enter(s, c, "create")
    BY <1>0, <2>2, EasyStep
  <2>3. CASE Leave(s)
    BY <1>0, <2>3, LeaveStays
  <2> QED
    BY <1>1, <2>2, <2>3 DEF BeginGet, Get
<1>2. ASSUME NEW s \in Session, NEW c \in Call, BeginCreate(s, c) PROVE SessionInv'
  <2>1. Enter(s, c, "create")
    BY <1>2 DEF BeginCreate
  <2> QED
    BY <1>0, <2>1, EasyStep
<1>3. ASSUME NEW s \in Session, NEW c \in Call, Load(s, c) PROVE SessionInv'
  <2>1. Enter(s, c, "loaded") /\ c.op # "create"
    BY <1>3 DEF Load
  <2> QED
    BY <1>0, <2>1, EasyStep
<1>4. ASSUME NEW s \in Session, Check(s) PROVE SessionInv'
  <2>1. PICK c : c = sessions[s].call
    OBVIOUS
  <2>2. c \in Call
    BY <1>0, <1>4, <2>1 DEF Check, SessionInv, StepOK
  <2>3. CASE Leave(s)
    BY <1>0, <2>3, LeaveStays
  <2>4. CASE Enter(s, c, "insert") /\ \A r \in c.rows : Insertable(r)
    <3>1. PICK a : a = [call |-> c, step |-> "insert"]
      OBVIOUS
    <3>2. StepOK(a)'
      BY <2>2, <2>4, <3>1 DEF StepOK
    <3> QED
      BY <1>0, <2>4, <3>1, <3>2, EnterStays
  <2> QED
    BY <1>4, <2>1, <2>3, <2>4 DEF Check
<1>5. ASSUME NEW s \in Session, Insert(s) PROVE SessionInv'
  <2>1. PICK c : c = sessions[s].call
    OBVIOUS
  <2>2. c \in Call
    BY <1>0, <1>5, <2>1 DEF Insert, SessionInv, StepOK
  <2>3. CASE Leave(s)
    BY <1>0, <2>3, LeaveStays
  <2>4. CASE Enter(s, c, "again") /\ c.op # "create"
    BY <1>0, <2>2, <2>4, EasyStep
  <2> QED
    BY <1>5, <2>1, <2>3, <2>4 DEF Insert
<1>6. ASSUME NEW s \in Session, Again(s) PROVE SessionInv'
  <2>1. Leave(s)
    BY <1>6 DEF Again, Get
  <2> QED
    BY <1>0, <2>1, LeaveStays
<1>7. ASSUME NEW s \in Session, Save(s) PROVE SessionInv'
  <2>1. PICK c : c = sessions[s].call
    OBVIOUS
  <2>2. c \in Call /\ c.op # "create"
    BY <1>0, <1>7, <2>1 DEF Save, SessionInv, StepOK
  <2>3. CASE Leave(s)
    BY <1>0, <2>3, LeaveStays
  <2>4. CASE Enter(s, c, "write") /\ Persisted(The(c.rows))
    <3>1. PICK a : a = [call |-> c, step |-> "write"]
      OBVIOUS
    <3>2. StepOK(a)
      BY <2>2, <2>4, <3>1 DEF StepOK
    <3> QED
      BY <1>0, <2>4, <3>1, <3>2, StepStaysOK, EnterStays
  <2> QED
    BY <1>7, <2>1, <2>3, <2>4 DEF Save
<1>8. ASSUME NEW s \in Session, Write(s) PROVE SessionInv'
  <2>1. Leave(s)
    BY <1>8 DEF Write
  <2> QED
    BY <1>0, <2>1, LeaveStays
<1>9. ASSUME NEW p, NEW name, Update(p, name) PROVE SessionInv'
  BY <1>0, <1>9, SessionsUnchanged DEF Update
<1> QED
  BY <1>1, <1>2, <1>3, <1>4, <1>5, <1>6, <1>7, <1>8, <1>9 DEF LanguageNext

LEMMA AnswersStay ==
    ASSUME LanguageInv, \A x \in projects : Keeps(x)', NEW added, answers' = answers \cup added,
           \A a \in added : /\ a.asked.tag # None => Canonical(a.asked.tag) = a.got.tag
                            /\ a.got \in projects'
    PROVE  AnswersHold'
BY DEF LanguageInv, AnswersHold, Keeps

LEMMA AnswersUnchanged ==
    ASSUME LanguageInv, \A x \in projects : Keeps(x)', answers' = answers
    PROVE  AnswersHold'
BY DEF LanguageInv, AnswersHold, Keeps

\* Whoever gets a row was told its language, or asked for none.
LEMMA GotAnswers ==
    ASSUME LanguageInv, \A x \in projects : Keeps(x)', NEW s \in Session, NEW c \in Call,
           c.op # "create", Get(s, c)
    PROVE  AnswersHold'
<1>1. PICK p \in Found(c) :
         \/ /\ SameLanguage(The(c.rows), p)
            /\ projects' = (projects \ {p}) \cup {Renamed(c, p)}
            /\ answers' = answers \cup Answered(c.rows, {Renamed(c, p)})
         \/ answers' = answers
  BY DEF Get
<1>2. Shaped(p)
  BY DEF Found, LanguageInv, IdentityInv
<1>3. PICK n : n = Renamed(c, p)
  OBVIOUS
<1>4. n.tag = p.tag
  BY <1>2, <1>3, RenamedKeeps
<1>5. CASE answers' = answers
  BY <1>5, AnswersUnchanged
<1>6. CASE /\ SameLanguage(The(c.rows), p)
           /\ projects' = (projects \ {p}) \cup {n}
           /\ answers' = answers \cup Answered(c.rows, {n})
  <2>1. ASSUME NEW a \in Answered(c.rows, {n})
        PROVE  /\ a.asked.tag # None => Canonical(a.asked.tag) = a.got.tag
               /\ a.got \in projects'
    <3>1. a.asked \in c.rows /\ a.got = n
      BY <2>1 DEF Answered
    <3>2. a.asked = The(c.rows)
      BY <3>1, OneRow
    <3> QED
      BY <1>4, <1>6, <3>1, <3>2 DEF SameLanguage
  <2> QED
    BY <1>6, <2>1, AnswersStay
<1> QED
  BY <1>1, <1>3, <1>5, <1>6

LEMMA InsertedAnswers ==
    ASSUME LanguageInv, \A x \in projects : Keeps(x)', NEW s \in Session, Insert(s)
    PROVE  AnswersHold'
<1> DEFINE c == sessions[s].call
           added == UNION {Answered({r}, {Stored(r)}) : r \in c.rows}
<1>1. CASE UNCHANGED answers
  BY <1>1, AnswersUnchanged
<1>2. CASE /\ projects' = projects \cup {Stored(r) : r \in c.rows}
           /\ answers' = answers \cup added
  <2>1. c \in Call /\ \A r \in c.rows : Insertable(r)
    BY DEF Insert, LanguageInv, SessionInv, StepOK
  <2>2. ASSUME NEW a \in added
        PROVE  /\ a.asked.tag # None => Canonical(a.asked.tag) = a.got.tag
               /\ a.got \in projects'
    <3>1. PICK r \in c.rows : a \in Answered({r}, {Stored(r)})
      OBVIOUS
    <3>2. PICK n : n = Stored(r)
      OBVIOUS
    <3>3. a.asked = r /\ a.got = n
      BY <3>1, <3>2 DEF Answered
    <3>4. r \in Draft /\ Insertable(r)
      BY <2>1, LanguageAssumption
    <3>5. n.tag = Canonical(r.tag)
      BY <3>2, <3>4, StoredIsShaped
    <3>6. n \in projects'
      BY <1>2, <3>2
    <3> QED
      BY <3>3, <3>5, <3>6
  <2> HIDE DEF added
  <2> QED
    BY <1>2, <2>2, AnswersStay
<1> QED
  BY <1>1, <1>2 DEF Insert

LEMMA LanguageStarts == PackageInit => LanguageInv
BY DEF PackageInit, LanguageInit, LanguageInv, IdentityInv, SessionInv, AnswersHold

LEMMA LanguageStays ==
    LanguageInv /\ FileInv /\ [PackageNext]_<<languageVars, packageVars>> => LanguageInv'
<1> SUFFICES ASSUME LanguageInv, FileInv, [PackageNext]_<<languageVars, packageVars>>
             PROVE  LanguageInv'
  OBVIOUS
<1>1. IdentityInv' /\ \A x \in projects : Keeps(x)'
  BY ProjectsStay
<1>2. CASE UNCHANGED <<sessions, answers>>
  <2>1. SessionInv'
    BY <1>1, <1>2, SessionsUnchanged DEF LanguageInv
  <2>2. AnswersHold'
    BY <1>1, <1>2, AnswersUnchanged
  <2> QED
    BY <1>1, <2>1, <2>2 DEF LanguageInv
<1>3. CASE LanguageNext
  <2>1. SessionInv'
    BY <1>1, <1>3, CallsStay
  <2>2. answers' = answers => AnswersHold'
    BY <1>1, AnswersUnchanged
  <2>3. ASSUME NEW s \in Session, NEW c \in Call, BeginGet(s, c) PROVE AnswersHold'
    <3>1. answers' = answers \/ (Get(s, c) /\ c.op # "create")
      BY <2>3 DEF BeginGet
    <3> QED
      BY <1>1, <2>2, <3>1, GotAnswers
  <2>4. ASSUME NEW s \in Session, Again(s) PROVE AnswersHold'
    <3>1. sessions[s].call \in Call /\ sessions[s].call.op # "create"
      BY <2>4 DEF Again, LanguageInv, SessionInv, StepOK
    <3>2. answers' = answers \/ Get(s, sessions[s].call)
      BY <2>4 DEF Again
    <3> QED
      BY <1>1, <2>2, <3>1, <3>2, GotAnswers
  <2>5. ASSUME NEW s \in Session, Insert(s) PROVE AnswersHold'
    BY <1>1, <2>5, InsertedAnswers
  <2>6. ASSUME NEW s \in Session, Check(s) \/ Save(s) \/ Write(s) PROVE AnswersHold'
    BY <2>2, <2>6 DEF Check, Save, Write
  <2>7. ASSUME NEW s \in Session, NEW c \in Call, BeginCreate(s, c) \/ Load(s, c) PROVE AnswersHold'
    BY <2>2, <2>7 DEF BeginCreate, Load
  <2>8. ASSUME NEW p, NEW name, Update(p, name) PROVE AnswersHold'
    BY <2>2, <2>8 DEF Update
  <2>9. AnswersHold'
    BY <1>3, <2>3, <2>4, <2>5, <2>6, <2>7, <2>8 DEF LanguageNext
  <2> QED
    BY <1>1, <2>1, <2>9 DEF LanguageInv
<1>4. ASSUME NEW i, NEW q, CheckImport(i, q) PROVE UNCHANGED <<sessions, answers>>
  BY <1>4 DEF CheckImport, languageVars
<1>5. ASSUME NEW i, WriteImport(i) PROVE UNCHANGED <<sessions, answers>>
  BY <1>5 DEF WriteImport
<1>6. ASSUME NEW q, NEW tag, NEW a, Upgrade(q, tag, a) PROVE UNCHANGED <<sessions, answers>>
  BY <1>6 DEF Upgrade, languageVars
<1>7. ASSUME NEW p, Export(p) PROVE UNCHANGED <<sessions, answers>>
  BY <1>7 DEF Export, languageVars
<1>8. ASSUME NEW p, NEW at, NEW r, AddRow(p, at, r) PROVE UNCHANGED <<sessions, answers>>
  BY <1>8 DEF AddRow, languageVars
<1>9. Seed => UNCHANGED <<sessions, answers>>
  BY DEF Seed
<1>10. UNCHANGED <<languageVars, packageVars>> => UNCHANGED <<sessions, answers>>
  BY DEF languageVars
<1> QED
  BY <1>2, <1>3, <1>4, <1>5, <1>6, <1>7, <1>8, <1>9, <1>10 DEF PackageNext

\* Whoever asked for a Project and a language has it in that language, for good.
THEOREM LanguagesAreKept == PackageSpec => []AnswersHold
<1>1. LanguageInv => AnswersHold
  BY DEF LanguageInv
<1> QED
  BY <1>1, FilesStart, FilesStay, LanguageStarts, LanguageStays, PTL DEF PackageSpec

-----------------------------------------------------------------------------
(* What is stored of a language.                                           *)

\* What a package says of its Project.
Named(q) ==
    /\ q.project \in [id : ProjectId, code : ProjectCode, name : ProjectName, fits : BOOLEAN]
    /\ q.tag \in {None} \cup Seq(Subtag)

Settled(p) == p \in Draft /\ p.tag # None /\ Canonical(p.tag) = p.tag

TagInv ==
    /\ \A p \in projects : Settled(p)
    /\ \A i \in Importer : imports[i] # None => Named(imports[i])
    /\ \A f \in files : Named(f)

LEMMA CanonicalIsTag ==
    ASSUME NEW t \in Seq(Subtag), Canonical(t) # None
    PROVE  Canonical(t) \in Seq(Subtag)
<1>1. t # <<>> \/ Canonical(t) = None
  BY CanonicalIs DEF Refusal
<1> QED
  BY <1>1, CanonicalIs, ListedIs, LoweredIs, CasedIs

\* A canonical tag is given back as it is.
LEMMA CanonicalTwice ==
    ASSUME NEW r \in Draft, r.tag # None, Canonical(r.tag) # None
    PROVE  Canonical(r.tag) \in Seq(Subtag) /\ Canonical(Canonical(r.tag)) = Canonical(r.tag)
<1>1. r.tag \in Seq(Subtag)
  BY DEF Draft
<1> QED
  BY <1>1, EveryTagIsParsed, CanonicalIsTag DEF ParsedExactly

LEMMA SettledRow ==
    ASSUME NEW r \in Draft, r.tag # None, Canonical(r.tag) # None,
           NEW n, n = [id |-> r.id, code |-> r.code, name |-> r.name, tag |-> Canonical(r.tag),
                       assignment |-> n.assignment],
           n.assignment \in Assignment
    PROVE  Settled(n)
<1>1. n \in Draft
  BY CanonicalTwice DEF Draft
<1>2. n.tag = Canonical(r.tag)
  OBVIOUS
<1> QED
  BY <1>1, <1>2, CanonicalTwice DEF Settled

LEMMA ProjectsAreSettled ==
    ASSUME LanguageInv, FileInv, TagInv, [PackageNext]_<<languageVars, packageVars>>
    PROVE  \A p \in projects' : Settled(p)
<1> DEFINE Goal == \A p \in projects' : Settled(p)
<1>0. projects' = projects => Goal
  BY DEF TagInv
\* A row with another name.
<1>1. ASSUME NEW p \in projects, NEW name \in ProjectName, NEW n, n = [p EXCEPT !.name = name]
      PROVE  Settled(n)
  <2>1. p \in Draft
    BY DEF TagInv, Settled
  <2>2. n \in Draft /\ n.tag = p.tag
    BY <1>1, <2>1 DEF Draft
  <2> QED
    BY <2>2 DEF TagInv, Settled
<1>2. ASSUME NEW s \in Session, NEW c \in Call, c.op # "create", Get(s, c) PROVE Goal
  <2>1. PICK p \in Found(c) :
           \/ projects' = (projects \ {p}) \cup {Renamed(c, p)}
           \/ projects' = projects
    BY <1>2 DEF Get
  <2>2. p \in projects /\ Settled(p)
    BY DEF Found, TagInv
  <2>3. The(c.rows).name \in ProjectName
    BY <1>2, OneRow DEF Draft
  <2>4. Settled(Renamed(c, p))
    BY <1>1, <2>2, <2>3 DEF Renamed
  <2> QED
    BY <1>0, <2>1, <2>4 DEF TagInv
<1>3. ASSUME NEW s \in Session, NEW c \in Call, BeginGet(s, c) PROVE Goal
  BY <1>0, <1>2, <1>3 DEF BeginGet
<1>4. ASSUME NEW s \in Session, Again(s) PROVE Goal
  <2>1. sessions[s].call \in Call /\ sessions[s].call.op # "create"
    BY <1>4 DEF Again, LanguageInv, SessionInv, StepOK
  <2> QED
    BY <1>0, <1>2, <1>4, <2>1 DEF Again
<1>5. ASSUME NEW s \in Session, Insert(s) PROVE Goal
  <2>1. sessions[s].call \in Call /\ \A r \in sessions[s].call.rows : r \in Draft /\ Insertable(r)
    BY <1>5, LanguageAssumption DEF Insert, LanguageInv, SessionInv, StepOK
  <2>2. ASSUME NEW r \in Draft, Insertable(r) PROVE Settled(Stored(r))
    <3>1. PICK n : n = Stored(r)
      OBVIOUS
    <3>2. r = [id |-> r.id, code |-> r.code, name |-> r.name, tag |-> r.tag,
               assignment |-> r.assignment]
      BY DEF Draft
    <3>3. n = [id |-> r.id, code |-> r.code, name |-> r.name, tag |-> Canonical(r.tag),
               assignment |-> "EXPLICIT"]
      BY <3>1, <3>2 DEF Stored
    <3>4. r.tag # None /\ Canonical(r.tag) # None
      BY <2>2 DEF Insertable
    <3>5. Settled(n)
      BY <3>3, <3>4, SettledRow DEF Assignment
    <3> QED
      BY <3>1, <3>5
  <2>3. \/ projects' = projects
        \/ projects' = projects \cup {Stored(r) : r \in sessions[s].call.rows}
    BY <1>5 DEF Insert
  <2> QED
    BY <1>0, <2>1, <2>2, <2>3 DEF TagInv
<1>6. ASSUME NEW s \in Session, Write(s) PROVE Goal
  <2>1. PICK r : r = The(sessions[s].call.rows)
    OBVIOUS
  <2>2. r \in Draft /\ Persisted(r)
    BY <1>6, <2>1, OneRow DEF Write, LanguageInv, SessionInv, StepOK
  <2>3. PICK p \in projects : r.tag # None /\ Canonical(r.tag) = p.tag /\ r.assignment = p.assignment
    BY <2>2 DEF Persisted
  <2>4. Settled(p) /\ PairOK(p)
    BY DEF TagInv, LanguageInv, IdentityInv
  <2>5. Canonical(r.tag) # None /\ r.assignment \in Assignment
    BY <2>3, <2>4 DEF Settled, PairOK, Assignment
  <2>6. PICK n : n = [r EXCEPT !.tag = Canonical(r.tag)]
    OBVIOUS
  <2>7. n = [id |-> r.id, code |-> r.code, name |-> r.name, tag |-> Canonical(r.tag),
             assignment |-> r.assignment]
    BY <2>2, <2>6 DEF Draft
  <2>8. Settled(n)
    BY <2>2, <2>3, <2>5, <2>7, SettledRow
  <2>9. projects' = projects \/ projects' = {q \in projects : q.id # r.id} \cup {n}
    BY <1>6, <2>1, <2>6 DEF Write
  <2> QED
    BY <1>0, <2>8, <2>9 DEF TagInv
<1>7. ASSUME NEW p \in projects, NEW name \in ProjectName, Update(p, name) PROVE Goal
  BY <1>1, <1>7 DEF Update, TagInv
<1>8. LanguageNext => Goal
  <2>1. ASSUME NEW s \in Session, NEW c \in Call, BeginCreate(s, c) \/ Load(s, c) PROVE Goal
    BY <1>0, <2>1 DEF BeginCreate, Load
  <2>2. ASSUME NEW s \in Session, Check(s) \/ Save(s) PROVE Goal
    BY <1>0, <2>2 DEF Check, Save
  <2> QED
    BY <1>3, <1>4, <1>5, <1>6, <1>7, <2>1, <2>2 DEF LanguageNext
<1>9. ASSUME NEW i \in Importer, WriteImport(i) PROVE Goal
  <2>1. PICK q : q = imports[i]
    OBVIOUS
  <2>2. Checked(q) /\ Named(q)
    BY <1>9, <2>1 DEF FileInv, TagInv, WriteImport
  <2>3. LanguagePair(q.tag, q.assignment)
    BY <2>2 DEF Checked, Valid
  <2>4. ProjectRow(q) \in Draft /\ ProjectRow(q).tag = q.tag
    BY <2>2, <2>3 DEF ProjectRow, Draft, Named, LanguagePair, Assignment
  <2>5. Settled(ProjectRow(q))
    BY <2>3, <2>4 DEF Settled, LanguagePair
  <2>6. projects' = projects \/ projects' = projects \cup {ProjectRow(q)}
    BY <1>9, <2>1 DEF WriteImport
  <2> QED
    BY <1>0, <2>5, <2>6 DEF TagInv
<1>10. Seed => Goal
  <2> DEFINE n == [id |-> DemoId, code |-> DemoCode, name |-> DemoName, tag |-> Ru,
                   assignment |-> "EXPLICIT"]
  <2>1. n \in Draft /\ n.tag = Ru
    BY PackageAssumption DEF Draft, Assignment
  <2>2. Settled(n)
    BY <2>1, PackageAssumption DEF Settled, LanguagePair
  <2>3. Seed => projects' = {p \in projects : p.id # DemoId} \cup {n}
    BY DEF Seed
  <2> HIDE DEF n
  <2> QED
    BY <2>2, <2>3 DEF TagInv
<1>11. ASSUME NEW i, NEW q, CheckImport(i, q) PROVE Goal
  BY <1>0, <1>11 DEF CheckImport, languageVars
<1>12. ASSUME NEW q, NEW tag, NEW a, Upgrade(q, tag, a) PROVE Goal
  BY <1>0, <1>12 DEF Upgrade, languageVars
<1>13. ASSUME NEW p, Export(p) PROVE Goal
  BY <1>0, <1>13 DEF Export, languageVars
<1>14. ASSUME NEW p, NEW at, NEW r, AddRow(p, at, r) PROVE Goal
  BY <1>0, <1>14 DEF AddRow, languageVars
<1>15. UNCHANGED <<languageVars, packageVars>> => Goal
  BY <1>0 DEF languageVars
<1> QED
  BY <1>8, <1>9, <1>10, <1>11, <1>12, <1>13, <1>14, <1>15 DEF PackageNext

LEMMA PackagesAreNamed ==
    ASSUME FileInv, TagInv, [PackageNext]_<<languageVars, packageVars>>
    PROVE  /\ \A i \in Importer : imports'[i] # None => Named(imports'[i])
           /\ \A f \in files' : Named(f)
<1> DEFINE Goal == /\ \A i \in Importer : imports'[i] # None => Named(imports'[i])
                   /\ \A f \in files' : Named(f)
<1>0. UNCHANGED <<imports, files>> => Goal
  BY DEF TagInv
<1>1. Ru \in Seq(Subtag) /\ Und \in Seq(Subtag)
  BY PackageAssumption, LanguageAssumption
<1>2. \A q \in Package : Named(q)
  BY PackageAssumption DEF Named
<1>3. ASSUME NEW q \in Package, NEW tag \in {Und, Ru}, NEW a
      PROVE  Named(Upgraded(q, tag, a))
  <2>1. DOMAIN q = {"format", "sealed", "project", "tag", "assignment", "rows"}
    BY PackageAssumption
  <2>2. Upgraded(q, tag, a).tag = tag /\ Upgraded(q, tag, a).project = q.project
    BY <2>1 DEF Upgraded
  <2> QED
    BY <1>1, <1>2, <2>2 DEF Named
<1>4. ASSUME NEW i \in Importer, NEW q \in Package \cup files, CheckImport(i, q) PROVE Goal
  <2>1. Normal(q) # None /\ imports' = [imports EXCEPT ![i] = Normal(q)] /\ files' = files
    BY <1>4 DEF CheckImport
  <2>2. CASE Normal(q) = q
    <3>1. Named(q)
      BY <1>2 DEF TagInv
    <3> QED
      BY <2>1, <2>2, <3>1 DEF TagInv, FileInv
  <2>3. CASE Normal(q) # q
    <3>1. Normal(q) = Upgraded(q, Ru, "EXPLICIT") /\ q.format # "1.1"
      BY <2>1, <2>3 DEF Normal
    <3>2. q \in Package
      BY <3>1 DEF FileInv, Checked
    <3>3. Named(Normal(q))
      BY <1>3, <3>1, <3>2
    <3> QED
      BY <2>1, <3>3 DEF TagInv, FileInv
  <2> QED
    BY <2>2, <2>3
<1>5. ASSUME NEW i \in Importer, WriteImport(i) PROVE Goal
  <2>1. imports' = [imports EXCEPT ![i] = None] /\ files' = files
    BY <1>5 DEF WriteImport
  <2> QED
    BY <2>1 DEF TagInv, FileInv
<1>6. ASSUME NEW q \in Package, NEW tag \in {Und, Ru}, NEW a, Upgrade(q, tag, a) PROVE Goal
  <2>1. files' = files \cup {Upgraded(q, tag, a)} /\ imports' = imports
    BY <1>6 DEF Upgrade
  <2> QED
    BY <1>3, <2>1 DEF TagInv
<1>7. ASSUME NEW p \in projects, Export(p) PROVE Goal
  <2>1. p \in Draft
    BY DEF TagInv, Settled
  <2>2. Named(Payload(p))
    BY <2>1 DEF Named, Payload, Draft
  <2>3. files' = files \cup {Payload(p)} /\ imports' = imports
    BY <1>7 DEF Export
  <2> QED
    BY <2>2, <2>3 DEF TagInv
<1>8. ASSUME NEW p, NEW at, NEW r, AddRow(p, at, r) PROVE Goal
  BY <1>0, <1>8 DEF AddRow
<1>9. Seed => Goal
  BY <1>0 DEF Seed
<1>10. LanguageNext /\ UNCHANGED packageVars => Goal
  BY <1>0 DEF packageVars
<1>11. UNCHANGED <<languageVars, packageVars>> => Goal
  BY <1>0 DEF packageVars
<1> QED
  BY <1>4, <1>5, <1>6, <1>7, <1>8, <1>9, <1>10, <1>11 DEF PackageNext

LEMMA TagsStart == PackageInit => TagInv
BY DEF PackageInit, LanguageInit, TagInv

LEMMA TagsStay ==
    LanguageInv /\ FileInv /\ TagInv /\ [PackageNext]_<<languageVars, packageVars>> => TagInv'
BY ProjectsAreSettled, PackagesAreNamed DEF TagInv

\* Whoever writes a Project, in whatever order: its language is a tag in the canonical
\* spelling, its pair is one the table takes, and UUIDs and codes are unique.
THEOREM ProjectsAreTyped == PackageSpec => []LanguageTypeOK
<1>1. LanguageInv /\ TagInv => LanguageTypeOK
  BY DEF LanguageInv, IdentityInv, SessionInv, StepOK, TagInv, Settled, LanguageTypeOK
<1> QED
  BY <1>1, FilesStart, FilesStay, LanguageStarts, LanguageStays, TagsStart, TagsStay, PTL
  DEF PackageSpec

-----------------------------------------------------------------------------
(* Imported Projects.                                                      *)

ImportInv ==
    /\ \A q \in imported :
          /\ Checked(q)
          /\ \E p \in projects : p.id = q.project.id /\ p.tag = q.tag /\ p.assignment = q.assignment
          /\ NewRows(q) \subseteq rows
    /\ \A x \in rows : \E p \in projects : p.id = x.project

\* Of a Project with the rows of its package and no others all of them are exported,
\* in a file that the checks of an import take.
LEMMA ComesBack ==
    ASSUME NEW q, Checked(q), NEW p, p.id = q.project.id, p.tag = q.tag,
           p.assignment = q.assignment, NewRows(q) = {x \in rows : x.project = p.id}
    PROVE  Payload(p).rows = q.rows /\ Valid(Payload(p))
<1>1. \A x \in NewRows(q) : x.at = "PACKAGE"
  BY DEF NewRows
<1>2. Typed(p.id) = {}
  BY <1>1 DEF Typed
<1>3. \A x \in rows : x.project = p.id => (InScope(x) <=> x.row.section \in Section)
  BY <1>2 DEF InScope
<1>4. {y \in rows : y.project = p.id /\ InScope(y)} = {y \in NewRows(q) : y.row.section \in Section}
  BY <1>3
<1>5. Payload(p).rows = q.rows
  BY <1>4, RowsComeBack DEF Payload, Checked
<1> DEFINE r == Payload(p)
<1>6. r.sealed /\ r.project.id = p.id /\ r.tag = p.tag /\ r.assignment = p.assignment
  BY DEF Payload
<1>7. LanguagePair(q.tag, q.assignment)
  BY DEF Checked, Valid
<1>8. Valid(q)
  BY DEF Checked
<1> HIDE DEF r
<1>9. Valid(r)
  BY <1>5, <1>6, <1>7, <1>8, SameContent DEF r
<1> QED
  BY <1>5, <1>9 DEF r

LEMMA ImportsStart == PackageInit => ImportInv
BY DEF PackageInit, ImportInv

LEMMA ImportsStay ==
    LanguageInv /\ FileInv /\ ImportInv /\ [PackageNext]_<<languageVars, packageVars>> => ImportInv'
<1> SUFFICES ASSUME LanguageInv, FileInv, ImportInv, [PackageNext]_<<languageVars, packageVars>>
             PROVE  ImportInv'
  OBVIOUS
<1>1. \A x \in projects : \E y \in projects' :
         y.id = x.id /\ y.tag = x.tag /\ y.assignment = x.assignment
  BY ProjectsStay DEF Keeps
\* Rows only grow, and whoever adds one knows its Project.
<1>2. ASSUME NEW new, rows' = rows \cup new, \A x \in new : \E p \in projects' : p.id = x.project,
             imported' = imported
      PROVE  ImportInv'
  <2>1. \A x \in rows' : \E p \in projects' : p.id = x.project
    BY <1>1, <1>2 DEF ImportInv
  <2>2. ASSUME NEW q \in imported'
        PROVE  /\ Checked(q)
               /\ \E p \in projects' : p.id = q.project.id /\ p.tag = q.tag /\ p.assignment = q.assignment
               /\ NewRows(q) \subseteq rows'
    BY <1>1, <1>2, <2>2 DEF ImportInv
  <2> QED
    BY <2>1, <2>2 DEF ImportInv
<1>3. CASE UNCHANGED <<rows, imported>>
  <2>1. PICK new : new = {}
    OBVIOUS
  <2>2. rows' = rows \cup new
    BY <1>3, <2>1
  <2> QED
    BY <1>2, <1>3, <2>1, <2>2
<1>4. ASSUME NEW i \in Importer, WriteImport(i) PROVE ImportInv'
  <2>1. PICK q : q = imports[i]
    OBVIOUS
  <2>2. Checked(q)
    BY <1>4, <2>1 DEF FileInv, WriteImport
  <2>3. CASE /\ projects' = projects \cup {ProjectRow(q)}
             /\ rows' = rows \cup NewRows(q)
             /\ imported' = imported \cup {q}
    <3>1. PICK n : n = ProjectRow(q)
      OBVIOUS
    <3>2. n \in projects' /\ n.id = q.project.id /\ n.tag = q.tag /\ n.assignment = q.assignment
      BY <2>3, <3>1 DEF ProjectRow
    <3>3. \A x \in NewRows(q) : x.project = q.project.id
      BY DEF NewRows
    <3>4. \A x \in rows' : \E p \in projects' : p.id = x.project
      BY <1>1, <2>3, <3>2, <3>3 DEF ImportInv
    <3>5. ASSUME NEW t \in imported'
          PROVE  /\ Checked(t)
                 /\ \E p \in projects' : p.id = t.project.id /\ p.tag = t.tag /\ p.assignment = t.assignment
                 /\ NewRows(t) \subseteq rows'
      <4>1. CASE t \in imported
        BY <1>1, <2>3, <4>1 DEF ImportInv
      <4>2. CASE t = q
        BY <2>2, <2>3, <3>2, <4>2
      <4> QED
        BY <2>3, <3>5, <4>1, <4>2
    <3> QED
      BY <3>4, <3>5 DEF ImportInv
  <2> QED
    BY <1>3, <1>4, <2>1, <2>3 DEF WriteImport
<1>5. ASSUME NEW p \in projects, NEW at, NEW r, AddRow(p, at, r) PROVE ImportInv'
  <2>1. PICK x : x = [project |-> p.id, at |-> at, row |-> r]
    OBVIOUS
  <2>2. PICK new : new = {x}
    OBVIOUS
  <2>3. rows' = rows \cup new /\ imported' = imported
    BY <1>5, <2>1, <2>2 DEF AddRow
  <2>4. x.project = p.id
    BY <2>1
  <2> QED
    BY <1>1, <1>2, <2>2, <2>3, <2>4
<1>6. CASE Seed
  <2> DEFINE new == {[project |-> DemoId, at |-> "SEED", row |-> r] : r \in SeedRow}
                       \cup {[project |-> DemoId, at |-> "TYPED", row |-> r] : r \in TypedRow}
             n == [id |-> DemoId, code |-> DemoCode, name |-> DemoName, tag |-> Ru,
                   assignment |-> "EXPLICIT"]
  <2>1. rows' = rows \cup new /\ imported' = imported
    BY <1>6 DEF Seed
  <2>2. n \in projects'
    BY <1>6 DEF Seed
  <2>3. n.id = DemoId /\ \A x \in new : x.project = DemoId
    OBVIOUS
  <2> HIDE DEF new, n
  <2> QED
    BY <1>2, <2>1, <2>2, <2>3
<1>7. ASSUME NEW i, NEW q, CheckImport(i, q) PROVE UNCHANGED <<rows, imported>>
  BY <1>7 DEF CheckImport
<1>8. ASSUME NEW q, NEW tag, NEW a, Upgrade(q, tag, a) PROVE UNCHANGED <<rows, imported>>
  BY <1>8 DEF Upgrade
<1>9. ASSUME NEW p, Export(p) PROVE UNCHANGED <<rows, imported>>
  BY <1>9 DEF Export
<1>10. UNCHANGED packageVars => UNCHANGED <<rows, imported>>
  BY DEF packageVars
<1> QED
  BY <1>3, <1>4, <1>5, <1>6, <1>7, <1>8, <1>9, <1>10 DEF PackageNext

\* An imported Project has its language, its rows and their companions for good, is
\* exported as it came while nobody adds a row, and no row is without a Project.
THEOREM ImportsAlwaysComeBack == PackageSpec => []ImportsComeBack
<1>1. ASSUME ImportInv PROVE ImportsComeBack
  <2>1. \A x \in rows : \E p \in projects : p.id = x.project
    BY <1>1 DEF ImportInv
  <2>2. ASSUME NEW q \in imported
        PROVE  \E p \in projects :
                  /\ p.id = q.project.id /\ p.tag = q.tag /\ p.assignment = q.assignment
                  /\ NewRows(q) \subseteq rows
                  /\ NewRows(q) = {x \in rows : x.project = p.id} =>
                        Payload(p).rows = q.rows /\ Valid(Payload(p))
    <3>1. Checked(q) /\ NewRows(q) \subseteq rows
      BY <1>1 DEF ImportInv
    <3>2. PICK p \in projects :
             p.id = q.project.id /\ p.tag = q.tag /\ p.assignment = q.assignment
      BY <1>1 DEF ImportInv
    <3> QED
      BY <3>1, <3>2, ComesBack
  <2> QED
    BY <2>1, <2>2 DEF ImportsComeBack
<1> QED
  BY <1>1, FilesStart, FilesStay, LanguageStarts, LanguageStays, ImportsStart, ImportsStay, PTL
     DEF PackageSpec
=============================================================================
