-------------------------- MODULE MCStudioGateway --------------------------
(***************************************************************************)
(* Small sets of requests for the gateway.  Any worker may be sent any     *)
(* request at any time, again after it has been answered, and the same     *)
(* request at the same time as another worker.                             *)
(***************************************************************************)
EXTENDS StudioGateway

CONSTANTS D1, D2, D3, D4, P1, P2, W1, M1, M2, A1, A2, K1, K2, K3, K4, K5, K6, K7, Worker1, Worker2

MCProject == {P1, P2}
MCDefinition == {D1, D2, D3, D4}
MCWorkspace == {W1}
MCManifest == {M1, M2}
MCValidManifest == {M1}
MCName == MCDefinition \cup MCProject
MCActor == {A1, A2}
MCKey == {K1, K2, K3, K4, K5, K6, K7}
MCWorker == {Worker1, Worker2}

Intent(op, k, p, d) ==
    [op |-> op, key |-> k, actor |-> A1, project |-> p, projectCode |-> None,
     target |-> d, source |-> None, ifMatch |-> None, manifest |-> None,
     code |-> None, version |-> None, workspace |-> None]

Creating(op, k, p, d) ==
    [Intent(op, k, p, d) EXCEPT !.manifest = M1, !.code = d, !.version = d]

Bootstrap(k, p, d) == [Creating("BOOTSTRAP_DRAFT", k, p, d) EXCEPT !.projectCode = p]

\* Two projects race: for one Project UUID (by two users), for one definition
\* UUID, for one operation UUID and for one workspace UUID.
RaceRequests ==
    {Bootstrap(K1, P1, D1),
     [Bootstrap(K2, P1, D2) EXCEPT !.actor = A2],
     [Bootstrap(K3, P2, D2) EXCEPT !.actor = A2],
     Creating("CREATE_DRAFT", K4, P1, D3),
     [Creating("CREATE_DRAFT", K5, P2, D3) EXCEPT !.actor = A2],
     [Creating("CREATE_DRAFT", K4, P2, D4) EXCEPT !.actor = A2],
     [Intent("INITIAL", K1, P1, D1) EXCEPT !.ifMatch = M1, !.workspace = W1],
     [Intent("INITIAL", K1, P2, D2) EXCEPT !.actor = A2, !.ifMatch = M1,
                                           !.workspace = W1]}

\* One project: an edit and its undoing, validations, and publications that
\* race with them; K3 is first used with one definition and then with another.
Save(k, d, old, new) ==
    [Intent("SAVE_DRAFT", k, P1, d) EXCEPT !.ifMatch = old, !.manifest = new]
Validate(k, d, m) == [Intent("VALIDATE_DEFINITION", k, P1, d) EXCEPT !.ifMatch = m]
Clone(k, s, d) ==
    [Intent("CLONE_DRAFT", k, P1, d) EXCEPT !.source = s, !.ifMatch = M1,
                                            !.code = d, !.version = d]
Initial(k, d) == [Intent("INITIAL", k, P1, d) EXCEPT !.ifMatch = M1, !.workspace = W1]
Succeed(k, d) == [Intent("SUCCESSOR", k, P1, d) EXCEPT !.ifMatch = M1]

EditRequests ==
    {Bootstrap(K1, P1, D1), Save(K2, D1, M1, M2), Save(K3, D1, M2, M1),
     Validate(K4, D1, M1), Initial(K1, D1)}

ChainRequests ==
    {Clone(K2, D1, D2), Clone(K3, D1, D3),
     Validate(K6, D2, M1), Validate(K7, D3, M1),
     Succeed(K2, D2), Succeed(K2, D3)}

\* Edits and rival publications, and a second bootstrap that waits for its own
\* user row and for the uncommitted Project of the first.
LifecycleRequests ==
    (EditRequests \ {Validate(K4, D1, M1)}) \cup ChainRequests
       \cup {[Bootstrap(K5, P1, D4) EXCEPT !.actor = A2]}

\* Both manifests are validated while the draft is edited back and forth.
ReportRequests == EditRequests \cup {Validate(K5, D1, M2)}

\* A1 may lose and regain the scope of the project it bootstrapped.
NoScopeChange == {}
RaceScopeChange == {<<A1, P1>>}
=============================================================================
