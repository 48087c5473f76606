------------------------- MODULE MCPlayerWorkspaces -------------------------
(***************************************************************************)
(* Project P1 with a first draft D1 that Studio publishes, or a package    *)
(* that brings D2 as a published definition, and a successor D3 that comes *)
(* as a draft package; workspaces W1 (first), W2 and W3 (derived, W2 also  *)
(* wanted by P2 and by the package).  Manifests M1 and M2 are both valid;  *)
(* M1 is used by both projects and names one Help binding.  E1 is a Studio *)
(* editor, E2 a Studio publisher.                                          *)
(***************************************************************************)
EXTENDS PlayerWorkspaces

CONSTANTS D1, D2, D3, D4, P1, P2, W1, W2, W3, M1, M2, A1, A2, K1, K2, C0, C1, C2,
          S1, S2, T1, B1, X2, X3, E1, E2

MCProject == {P1, P2}
MCDefinition == {D1, D2, D3, D4}
MCWorkspace == {W1, W2, W3}
MCManifest == {M1, M2}
MCName == MCDefinition \cup MCProject \cup {C0, C1, C2}
MCActor == {A1, A2}
MCBindingsOf == [m \in MCManifest |-> IF m = M1 THEN {B1} ELSE {}]
MCCapability ==
    [h \in {E1, E2} |-> IF h = E1 THEN {"DRAFT_CREATE"}
                        ELSE {"DEFINITION_VALIDATE", "DEFINITION_PUBLISH"}]

Intent(op, d) ==
    [op |-> op, key |-> <<op, d>>, actor |-> A1, project |-> P1,
     projectCode |-> None, target |-> d, source |-> None, ifMatch |-> None,
     manifest |-> None, code |-> None, version |-> None, workspace |-> None]

MCRequest ==
    {[Intent("BOOTSTRAP_DRAFT", D1) EXCEPT !.projectCode = P1, !.manifest = M1,
                                           !.code = D1, !.version = D1],
     [Intent("BOOTSTRAP_DRAFT", D4) EXCEPT !.project = P2, !.projectCode = P2,
                                           !.manifest = M1, !.code = D4, !.version = D4],
     [Intent("INITIAL", D1) EXCEPT !.ifMatch = M1, !.workspace = W1],
     [Intent("INITIAL", D4) EXCEPT !.project = P2, !.ifMatch = M1, !.workspace = W2],
     [Intent("CLONE_DRAFT", D3) EXCEPT !.source = D1, !.ifMatch = M1,
                                       !.code = D3, !.version = D3],
     [Intent("SAVE_DRAFT", D3) EXCEPT !.ifMatch = M1, !.manifest = M2],
     [Intent("VALIDATE_DEFINITION", D3) EXCEPT !.key = <<K1, W2>>, !.ifMatch = M2],
     [Intent("SUCCESSOR", D3) EXCEPT !.ifMatch = M2]}

Row(d, m, status) ==
    [project |-> P1, code |-> d, version |-> d, status |-> status, manifest |-> m,
     supersedes |-> None, current |-> status = "PUBLISHED"]

Brought(x, d, m, status, parent) ==
    [id |-> x, definition |-> d, row |-> Row(d, m, status), supersedesCode |-> parent,
     foreign |-> TRUE, workspace |-> W2, default |-> TRUE]

MCPackage ==
    {Brought(X2, D2, M2, "PUBLISHED", None), Brought(X3, D3, M1, "DRAFT", D1)}

\* The package's first workspace is not to be the default one.
AsidePackage ==
    {[Brought(X2, D2, M2, "PUBLISHED", None) EXCEPT !.default = FALSE]}

Creating(k, a, w, d, m, c) ==
    [contract |-> "WORKSPACE_CREATE", key |-> k, actor |-> a, project |-> P1,
     workspace |-> w, definition |-> d, ifMatch |-> m, code |-> c]

Slicing(k, w, m, c, s) ==
    [contract |-> "SLICE_CREATE", key |-> k, actor |-> A1, workspace |-> w,
     ifMatch |-> m, slice |-> s, code |-> c, cutoff |-> T1]

MCPlayerRequest ==
    {Creating(K1, A1, W2, D1, M1, C1), Creating(K1, A2, W2, D1, M1, C0),
     Creating(K2, A1, W3, D3, M2, C2), Creating(K2, A1, W3, D2, M2, C2),
     Creating(K2, A1, W3, D1, M1, C1), Creating(<<K2, C2>>, A1, W3, D1, M1, C2),
     Slicing(K1, W1, M1, C1, S1), Slicing(<<K1, W2>>, W2, M1, C1, S1),
     Slicing(<<K2, W2>>, W2, M1, C0, S2)}

\* At most one attempt at a time and two receipts, one of a refusal.
Bounded ==
    /\ Cardinality({x \in Package : attempt[x] # None}) <= 1
    /\ Cardinality(imports) <= 2
    /\ Cardinality({run \in imports : run.status # "COMMITTED"}) <= 1

\* The packages of both configurations.
MCOrigin == MCRequest \cup MCPackage \cup AsidePackage

MCKey == {r.key : r \in MCRequest} \cup {q.key : q \in MCPlayerRequest} \cup {X2, X3}
=============================================================================
