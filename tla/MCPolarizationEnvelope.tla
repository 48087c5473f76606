----------------------- MODULE MCPolarizationEnvelope -----------------------
(***************************************************************************)
(* Areas of two PTNs on a scale of two: in the first any two of the rows   *)
(* that a calculation tells apart meet a known row, in the second a known  *)
(* row meets a known or a missing one.                                     *)
(***************************************************************************)
EXTENDS PolarizationEnvelope

CONSTANTS Q1, Q2, A1, A2, A3

MCPtn == {Q1, Q2}
MCActor == {A1, A2, A3}

Input(x, c, r) == [attitude |-> x, kvs |-> c, rgu |-> r]

Rivals == {Input({1}, {2}, 1), Input({-2}, {1}, 2), Input({2}, {0}, 1),
           Input({}, {1}, 1), Input({-1}, {}, 1), Input({}, {}, 1),
           Input({-1, 2}, {1}, 1), Input({-2}, {0, 2}, 1), Input({-2, 1}, {1, 2}, 1),
           Input({1}, {1}, Missing)}
Others == {Input({2}, {1}, 1), Input({-1}, {2}, 2), Input({-2}, {0}, 2),
           Input({}, {2}, 1), Input({1}, {}, 2), Input({-2}, {}, 1), Input({}, {}, 1),
           Input({-2, 0, 1}, {2}, 1), Input({0, 2}, {1, 2}, 1)}
Witness == Input({-1}, {1}, 1)

\* Rows a and b in the first PTN; in the second the first actor has a known row
\* and the other the attitude x.
Area(q, a, b, x, out) ==
    [kvptn |-> q, excluded |-> out,
     rows |-> Q1 :> (A1 :> a @@ A2 :> b @@ A3 :> Witness)
           @@ Q2 :> (A1 :> Input({-2}, {1}, a.rgu) @@ A2 :> Input(x, {1}, b.rgu) @@ A3 :> Witness)]

\* Nobody takes part.
Nowhere == Area(Q1 :> 1 @@ Q2 :> 1, Witness, Witness, {}, MCPtn \X MCActor)

MCSnapshot ==
    {Nowhere}
      \cup {Area(Q1 :> 2 @@ Q2 :> 1, a, b, {}, {<<Q2, A3>>}) : a \in Rivals, b \in Others}
      \cup {Area(Q1 :> 1 @@ Q2 :> 0, a, b, {2}, {}) : a \in Rivals, b \in Others}
      \cup {Area(Q1 :> 1 @@ Q2 :> 1, a, b, {2}, {<<Q1, A3>>, <<Q2, A1>>, <<Q2, A2>>}) :
               a \in Rivals, b \in Others}
      \cup {Area(Q1 :> 1 @@ Q2 :> Missing, a, Witness, {2}, {<<Q1, A1>>, <<Q1, A2>>, <<Q1, A3>>}) :
               a \in Rivals}
MCOverridden == {<<Q1, A1>>}

EnvelopeRest == base = Nowhere /\ scenario = Nowhere
=============================================================================
