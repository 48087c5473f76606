----------------------- MODULE PolarizationEnvelope -----------------------
(***************************************************************************)
(* Version 1.1 of the polarization index: what is missing or disputed in a *)
(* snapshot leaves an envelope of the values that its completions have.    *)
(* An offline scenario replaces empirical inputs by known ones and asks    *)
(* whether the index goes up or down whatever the completion.              *)
(*                                                                         *)
(* An empirical input is the set of the numbers it may be: one if known,   *)
(* several if disputed, none if missing.  A ratio is a pair <<n, d>> with  *)
(* d > 0, in shares of the full index; fractions are compared exactly, as  *)
(* the code's are.                                                         *)
(***************************************************************************)
EXTENDS Integers, FiniteSetsExt, TLC

CONSTANTS
    Top,         \* end of the scales: 10 in the code
    Budget,      \* evaluations up to which the upper end is exact: 2^20
    Digit,       \* published units in the full index: 10^10
    Grain,       \* parts of a unit of weight at which completions are tried
    Ptn, Actor,
    Snapshot,    \* the snapshots that are calculated
    Overridden,  \* the cells that scenarios override
    Missing

ASSUME ScaleAssumption ==
    /\ {Top, Budget, Digit, Grain} \subseteq Nat \ {0}
    /\ \A i \in 1..Top : Grain % i = 0

Position == -Top..Top
Share == 0..Top
RowType == [attitude : SUBSET Position, kvs : SUBSET Share, rgu : Share \cup {Missing}]

\* An actor has one rgu in all PTNs; it takes no part in those it is excluded from
\* or has no relation to.
SnapshotType ==
    {s \in [kvptn : [Ptn -> Share \cup {Missing}], rows : [Ptn -> [Actor -> RowType]],
            excluded : SUBSET (Ptn \X Actor)] :
        \A a \in Actor, p, q \in Ptn : s.rows[p][a].rgu = s.rows[q][a].rgu}

ASSUME SnapshotAssumption ==
    /\ Snapshot \subseteq SnapshotType
    /\ Overridden \subseteq Ptn \X Actor

VARIABLES base, scenario

envelopeVars == <<base, scenario>>

-----------------------------------------------------------------------------
\* Ratios and rounding.
Less(r, s) == r[1] * s[2] < s[1] * r[2]
AtMost(r, s) == ~Less(s, r)
Same(r, s) == r[1] * s[2] = s[1] * r[2]
Least(S) == CHOOSE r \in S : \A s \in S : AtMost(r, s)
Greatest(S) == CHOOSE r \in S : \A s \in S : AtMost(s, r)
Minus(r, s) == <<r[1] * s[2] - s[1] * r[2], r[2] * s[2]>>

Down(r) == (r[1] * Digit) \div r[2]
Up(r) == -((-r[1] * Digit) \div r[2])

\* Sums over actors.
Above(x) == IF x > 0 THEN x ELSE 0
Total(S, Op(_)) == MapThenSumSet(Op, S)
Product(S, Op(_)) ==
    MapThenFoldSet(LAMBDA i, j : i * j, 1, Op, LAMBDA T : CHOOSE a \in T : TRUE, S)

\* The index of actors at given positions with given weights.
Index(S, x, w) ==
    <<2 * Min({Total(S, LAMBDA a : w[a] * Above(x[a])), Total(S, LAMBDA a : w[a] * Above(-x[a]))}),
      Top * Total(S, LAMBDA a : w[a])>>

-----------------------------------------------------------------------------
Active(s, p) == {a \in Actor : <<p, a>> \notin s.excluded}

Known(v) == Cardinality(v) = 1
The(v) == CHOOSE i \in v : TRUE
Eligible(row) == Known(row.attitude) /\ Known(row.kvs) /\ row.rgu # Missing

Options(v) == IF v = {} THEN {Missing} ELSE v

MaximumWeight(row) == row.rgu * (IF row.kvs = {} THEN Top ELSE Max(row.kvs))

\* The functions that take one of Of(a) for each actor a.
Picks(S, Of(_)) ==
    FoldSet(LAMBDA a, F : {f @@ (a :> o) : f \in F, o \in Of(a)}, {<<>>}, S)

\* One choice for each input that is disputed; what is missing stays Missing.
Completions(rows, S) ==
    Picks(S, LAMBDA a : Options(rows[a].attitude) \X Options(rows[a].kvs))

\* The ends of the candidates for one row of the lower end, as [w, n]: weight and
\* share of the position on one side.
LowerCandidates(row, side) ==
    {[w |-> row.rgu * c, n |-> Above(side * x)] :
        x \in IF row.attitude = {} THEN {-Top * side} ELSE row.attitude,
        c \in IF row.kvs = {} THEN {0, Top} ELSE row.kvs}

\* Mutant: of equally good candidates the lighter one.
PrecedesLighter(i, j, rho) ==
    LET ki == i.w * (i.n * rho[2] - rho[1])
        kj == j.w * (j.n * rho[2] - rho[1])
    IN  ki < kj \/ (ki = kj /\ i.w <= j.w)

\* The order in which a row prefers its candidates at the ratio rho.
Precedes(i, j, rho) ==
    LET ki == i.w * (i.n * rho[2] - rho[1])
        kj == j.w * (j.n * rho[2] - rho[1])
    IN  \/ ki < kj
        \/ ki = kj /\ i.w > j.w
        \/ ki = kj /\ i.w = j.w /\ i.n <= j.n

FirstChoice(i, j) == i.n < j.n \/ (i.n = j.n /\ i.w >= j.w)

RatioOf(S, pick) ==
    <<Total(S, LAMBDA a : pick[a].w * pick[a].n), Total(S, LAMBDA a : pick[a].w)>>

\* Dinkelbach's iteration: Missing where the code raises.
RECURSIVE LowerFrom(_, _, _, _)
LowerFrom(S, candidates, rho, seen) ==
    LET pick == [a \in S |-> CHOOSE i \in candidates[a] :
                                \A j \in candidates[a] : Precedes(i, j, rho)]
        next == RatioOf(S, pick)
    IN  IF next[2] = 0 \/ \E r \in seen : Same(r, rho) THEN Missing
        ELSE IF Same(next, rho) THEN rho
        ELSE LowerFrom(S, candidates, next, seen \cup {rho})

LowerOfSide(rows, S, side) ==
    LET candidates == [a \in S |-> LowerCandidates(rows[a], side)]
        start == RatioOf(S, [a \in S |-> CHOOSE i \in candidates[a] :
                                            \A j \in candidates[a] : FirstChoice(i, j)])
    IN  LowerFrom(S, candidates, start, {})

\* The lower end, without trying the choices of all rows together.
LowerAll(rows, S) ==
    LET ends == {LowerOfSide(rows, S, side) : side \in {1, -1}}
    IN  IF Missing \in ends THEN Missing
        ELSE LET rho == Least(ends) IN <<2 * rho[1], Top * rho[2]>>

\* The best of one completion and one choice of signs: corners of the box of the
\* missing weights, and the points of its edges where both sides are equal.
Corner(S, x, w) == IF Index(S, x, w)[2] = 0 THEN {} ELSE {Index(S, x, w)}

Crossing(S, x, w, a, cap) ==
    LET A == Total(S, LAMBDA b : w[b] * Above(x[b]))
        B == Total(S, LAMBDA b : w[b] * Above(-x[b]))
        gap == Max({A - B, B - A})
        size == Max({x[a], -x[a]})
    IN  IF (B - A) * x[a] > 0 /\ gap < cap * size
        THEN {<<2 * Max({A, B}) * size, Top * (Total(S, LAMBDA b : w[b]) * size + gap)>>}
        ELSE {}

Uppers(rows, S, f) ==
    LET free == {a \in S : f[a][1] = Missing}
        variable == {a \in S : f[a][2] = Missing}
        Cap(a) == rows[a].rgu * (IF a \in variable THEN Top ELSE f[a][2])
    IN  UNION {LET x == [a \in S |-> IF a \in plus THEN Top ELSE IF a \in free THEN -Top ELSE f[a][1]]
                   w == [a \in S |-> IF a \in variable \ full THEN 0 ELSE Cap(a)]
               IN  Corner(S, x, w) \cup UNION {Crossing(S, x, w, a, Cap(a)) : a \in variable \ full} :
                  plus \in SUBSET free, full \in SUBSET variable}

EvaluationCount(rows, S) ==
    LET Ways(v) == IF v = {} THEN 1 ELSE Cardinality(v)
        signs == Cardinality({a \in S : rows[a].attitude = {}})
        k == Cardinality({a \in S : rows[a].kvs = {}})
    IN  Product(S, LAMBDA a : Ways(rows[a].attitude) * Ways(rows[a].kvs))
            * 2^signs * (2^k + IF k = 0 THEN 0 ELSE k * 2^(k - 1))

\* What all that is not observed could add to the smaller side.
Outer(rows, S) ==
    LET seen == {a \in S : Eligible(rows[a])}
        W(a) == rows[a].rgu * The(rows[a].kvs)
        A == Total(seen, LAMBDA a : W(a) * Above(The(rows[a].attitude)))
        B == Total(seen, LAMBDA a : W(a) * Above(-The(rows[a].attitude)))
        maximum == Total(S, LAMBDA a : MaximumWeight(rows[a]))
        omega == Top * (maximum - Total(seen, W))
    IN  <<Min({2 * (Min({A, B}) + omega), A + B + omega}), Top * maximum>>

NotComputable(reason) == [status |-> "NOT_COMPUTABLE", reason |-> reason]

\* The envelope of one PTN.
PtnResult(s, p) ==
    LET rows == s.rows[p]
        S == Active(s, p)
        sharp == EvaluationCount(rows, S) <= Budget
    IN  IF \E a \in S : rows[a].rgu = Missing THEN NotComputable("DESIGN_WEIGHT_MISSING")
        ELSE IF S = {} THEN NotComputable("EMPTY_TOPOLOGY")
        ELSE IF Total(S, LAMBDA a : MaximumWeight(rows[a])) = 0 THEN NotComputable("ZERO_WEIGHT")
        ELSE [status |-> IF \A a \in S : Eligible(rows[a]) THEN "COMPLETE" ELSE "BOUNDED",
              lo |-> LowerAll(rows, S),
              hi |-> IF sharp THEN Greatest(UNION {Uppers(rows, S, f) : f \in Completions(rows, S)})
                     ELSE Outer(rows, S),
              sharp |-> sharp]

\* The area index: the mean of the PTNs by their weights.
Mean(q, r) ==
    LET P == {p \in DOMAIN q : q[p] > 0}
    IN  <<Total(P, LAMBDA p : q[p] * r[p][1] * Product(P \ {p}, LAMBDA o : r[o][2])),
          Total(P, LAMBDA p : q[p]) * Product(P, LAMBDA o : r[o][2])>>

AreaResult(s) ==
    LET P == {p \in Ptn : s.kvptn[p] # Missing /\ s.kvptn[p] > 0}
        result == [p \in P |-> PtnResult(s, p)]
    IN  IF \/ \E p \in Ptn : s.kvptn[p] = Missing
           \/ P = {}
           \/ \E p \in P : result[p].status = "NOT_COMPUTABLE"
        THEN [status |-> "NOT_COMPUTABLE"]
        ELSE [status |-> IF \A p \in P : result[p].status = "COMPLETE" THEN "COMPLETE" ELSE "BOUNDED",
              lo |-> Mean([p \in P |-> s.kvptn[p]], [p \in P |-> result[p].lo]),
              hi |-> Mean([p \in P |-> s.kvptn[p]], [p \in P |-> result[p].hi])]

\* Mutant: like ends are compared.
DirectionOfEnds(from, to) ==
    IF "NOT_COMPUTABLE" \in {from.status, to.status} \/ {from.status, to.status} = {"COMPLETE"}
    THEN "DIRECTION_NOT_ESTABLISHED"
    ELSE IF Down(Minus(to.lo, from.lo)) > 0 THEN "INCREASE_ON_ALL_COMPLETIONS"
    ELSE IF Up(Minus(to.hi, from.hi)) < 0 THEN "DECREASE_ON_ALL_COMPLETIONS"
    ELSE "DIRECTION_NOT_ESTABLISHED"

\* What a scenario is told of its change, from the published ends of the difference.
Direction(from, to) ==
    IF "NOT_COMPUTABLE" \in {from.status, to.status} \/ {from.status, to.status} = {"COMPLETE"}
    THEN "DIRECTION_NOT_ESTABLISHED"
    ELSE IF Down(Minus(to.lo, from.hi)) > 0 THEN "INCREASE_ON_ALL_COMPLETIONS"
    ELSE IF Up(Minus(to.hi, from.lo)) < 0 THEN "DECREASE_ON_ALL_COMPLETIONS"
    ELSE "DIRECTION_NOT_ESTABLISHED"

-----------------------------------------------------------------------------
\* Version 1.0: only rows that are known count; PARTIAL values stand for the rest.
PolarizationV1(s, p) ==
    LET rows == s.rows[p]
        S == {a \in Active(s, p) : Eligible(rows[a])}
    IN  Index(S, [a \in S |-> The(rows[a].attitude)],
              [a \in S |-> rows[a].rgu * The(rows[a].kvs)])

AreaV1(s) == Mean(s.kvptn, [p \in Ptn |-> PolarizationV1(s, p)])

-----------------------------------------------------------------------------
EnvelopeInit == base \in Snapshot /\ scenario = base

\* A scenario may put a known number in the place of an empirical input, and
\* nothing else.
OverrideAttitude(p, a, x) ==
    /\ scenario' = [scenario EXCEPT !.rows[p][a].attitude = {x}]
    /\ UNCHANGED base

OverrideKvs(p, a, c) ==
    /\ scenario' = [scenario EXCEPT !.rows[p][a].kvs = {c}]
    /\ UNCHANGED base

EnvelopeNext ==
    \E cell \in Overridden :
        \/ \E x \in Position : OverrideAttitude(cell[1], cell[2], x)
        \/ \E c \in Share : OverrideKvs(cell[1], cell[2], c)

EnvelopeSpec == EnvelopeInit /\ [][EnvelopeNext]_envelopeVars

-----------------------------------------------------------------------------
\* The index of every completion of a PTN, on a grid of positions and weights that
\* holds all corners and crossings.
Completed(s, p) ==
    LET rows == s.rows[p]
        S == Active(s, p)
        Of(a) ==
            (IF rows[a].attitude = {} THEN Position ELSE rows[a].attitude)
              \X (IF rows[a].kvs = {} THEN 0..(Grain * Top * rows[a].rgu)
                  ELSE {Grain * rows[a].rgu * c : c \in rows[a].kvs})
        index == {Index(S, [a \in S |-> f[a][1]], [a \in S |-> f[a][2]]) : f \in Picks(S, Of)}
    IN  {r \in index : r[2] > 0}

(* The two ends hold whatever is missing or disputed turns out to be, the    *)
(* lower end is the index of some completion, and so is the upper one unless *)
(* the budget left only the outer bound: factoring the minimum by rows, and  *)
(* looking for the maximum at corners and crossings only, loses nothing.     *)
(* Where nothing is missing both are the index of version 1.0, and there is  *)
(* no envelope only where no completion has an index, or a design weight is  *)
(* missing.                                                                  *)
EnvelopeIsExact ==
    /\ \A p \in Ptn :
        LET result == PtnResult(scenario, p)
            index == Completed(scenario, p)
        IN  IF result.status = "NOT_COMPUTABLE"
            THEN result.reason # "DESIGN_WEIGHT_MISSING" => index = {}
            ELSE /\ result.lo # Missing
                 /\ \A r \in index : AtMost(result.lo, r) /\ AtMost(r, result.hi)
                 /\ \E r \in index : Same(r, result.lo)
                 /\ result.sharp => \E r \in index : Same(r, result.hi)
                 /\ result.status = "COMPLETE" =>
                       /\ Same(result.lo, PolarizationV1(scenario, p))
                       /\ Same(result.hi, PolarizationV1(scenario, p))
    /\ AreaResult(scenario).status = "COMPLETE" =>
           Same(AreaResult(scenario).lo, AreaV1(scenario))

(* A direction that a scenario is told is that of the area index, whatever   *)
(* completion of the base is compared with whatever completion of the        *)
(* scenario, although each end was bounded and rounded on its own.           *)
DirectionIsCertain ==
    LET from == AreaResult(base)
        to == AreaResult(scenario)
        P == {p \in Ptn : base.kvptn[p] # Missing /\ base.kvptn[p] > 0}
        End(s, Pick(_)) == Mean([p \in P |-> s.kvptn[p]], [p \in P |-> Pick(Completed(s, p))])
    IN  CASE Direction(from, to) = "INCREASE_ON_ALL_COMPLETIONS" ->
                Less(End(base, Greatest), End(scenario, Least))
          [] Direction(from, to) = "DECREASE_ON_ALL_COMPLETIONS" ->
                Less(End(scenario, Greatest), End(base, Least))
          [] OTHER -> TRUE
=============================================================================
