------------------------ MODULE MCPlayerExperiments ------------------------
(***************************************************************************)
(* Three populations of clients for the assessment experiments and their   *)
(* calculations; each behaviour serves one of them.  Any request may       *)
(* arrive at any time and again after it was answered; an If-Match is what *)
(* its client has read, and may be out of date when the request arrives.   *)
(* A fourth behaviour has no clients: it calculates envelopes.             *)
(***************************************************************************)
EXTENDS CalculationRuns, MCPolarizationEnvelope

CONSTANTS W1, W2, E1, E2, P1, P2, I1, I2, L1, L2, U1, U2, T1, T2,
          K1, K2, K3, K4, K5, K6, K7, K8, K9, K10, K11, K12, K13,
          K14, K15, K16, S1, S2, S3, G1, G2, N1, F1

MCWorkspace == {W1, W2}
MCExperiment == {E1, E2}
MCProfile == {P1, P2}
MCIdentity == {I1, I2}
MCLabel == {L1, L2}
MCUser == {U1, U2}
MCTarget == {T1, T2}
MCKey == {K1, K2, K3, K4, K5, K6, K7, K8, K9, K10, K11, K12, K13,
          K14, K15, K16}

Blank == [op |-> "PROFILE", key |-> K1, user |-> U1, workspace |-> None,
          experiment |-> None, profile |-> None, identity |-> None, kind |-> None,
          title |-> None, label |-> None, target |-> None, parameter |-> None,
          status |-> None, category |-> None, supersedes |-> None, rows |-> {},
          ifMatch |-> None]

Manifest(w) == [manifest |-> w]
Expert(k, w, p, i, n, t) ==
    [Blank EXCEPT !.key = k, !.workspace = w, !.profile = p, !.identity = i,
                  !.kind = n, !.title = t, !.ifMatch = Manifest(w)]
Create(k, w, e, p, i, n, t) ==
    [Expert(k, w, p, i, n, t) EXCEPT !.op = "CREATE", !.experiment = e, !.label = L1]
Seen(e, l, s, f) == [experiment |-> e, label |-> l, status |-> s, frozen |-> f]
Transit(op, k, e, etag) ==
    [Blank EXCEPT !.op = op, !.key = k, !.experiment = e, !.ifMatch = etag]
First(k, e, t, p, s, c) ==
    [Blank EXCEPT !.op = "VALUE", !.key = k, !.experiment = e, !.target = t,
                  !.parameter = p, !.status = s, !.category = c,
                  !.ifMatch = Seen(e, L1, "DRAFT", FALSE)]
Correct(k, v, e, t, p, s, c) ==
    [First(k, e, t, p, s, c) EXCEPT !.supersedes = v, !.ifMatch = [value |-> v]]
Row(t, p, s, c) == [target |-> t, parameter |-> p, status |-> s, category |-> c]
Import(k, e, n, rows) ==
    [Blank EXCEPT !.op = "IMPORT", !.key = k, !.experiment = e, !.kind = n, !.rows = rows]

Draft == Seen(E1, L1, "DRAFT", FALSE)
Frozen == Seen(E1, L1, "FROZEN", TRUE)

\* One experiment.  Two first values race for POS of T1; POS and SAL are corrected
\* in chains and by rivals, from a number to none and back; two workbooks compete
\* with the manual entries; a correction names the wrong target; the experiment
\* is renamed back and forth, frozen and archived meanwhile; K3 is used by another
\* user, K8 for two corrections, K10 for an import and a correction.
ValueRequests ==
    {Create(K1, W1, E1, P1, I1, "AI", L1),
     First(K2, E1, T1, "POS", "PROVISIONAL", "HIGH"),
     First(K3, E1, T1, "POS", "UNKNOWN", "UNKNOWN"),
     [First(K3, E1, T1, "POS", "UNKNOWN", "UNKNOWN") EXCEPT !.user = U2],
     First(K4, E1, T1, "SAL", "PROVISIONAL", "LOW"),
     Correct(K5, <<K2, T1, "POS">>, E1, T1, "POS", "UNKNOWN", "HIGH"),
     Correct(K6, <<K2, T1, "POS">>, E1, T1, "POS", "PROVISIONAL", "HIGH"),
     Correct(K7, <<K4, T1, "SAL">>, E1, T1, "SAL", "UNKNOWN", "UNKNOWN"),
     Correct(K8, <<K5, T1, "POS">>, E1, T1, "POS", "UNKNOWN", "MEDIUM"),
     Correct(K8, <<K4, T1, "SAL">>, E1, T2, "SAL", "UNKNOWN", "LOW"),
     Import(K9, E1, "AI", {Row(T1, "POS", "PROVISIONAL", "LOW"),
                           Row(T1, "SAL", "UNKNOWN", "UNKNOWN"),
                           Row(T2, "POS", "UNKNOWN", "HIGH")}),
     Import(K10, E1, "AI", {Row(T2, "POS", "PROVISIONAL", "LOW"),
                            Row(T2, "SAL", "UNKNOWN", "HIGH")}),
     Correct(K10, <<K9, T1, "POS">>, E1, T1, "POS", "UNKNOWN", "LOW"),
     Transit("FREEZE", K11, E1, Draft),
     Transit("ARCHIVE", K12, E1, Draft),
     Transit("ARCHIVE", K11, E1, Frozen),
     Correct(K13, <<K6, T1, "POS">>, E1, T1, "POS", "UNKNOWN", "UNKNOWN"),
     Correct(K13, <<K9, T1, "SAL">>, E1, T1, "SAL", "PROVISIONAL", "UNKNOWN"),
     Correct(K14, <<K7, T1, "SAL">>, E1, T1, "SAL", "PROVISIONAL", "MEDIUM"),
     First(K14, E1, T2, "SAL", "PROVISIONAL", "LOW"),
     [Transit("UPDATE", K15, E1, Draft) EXCEPT !.label = L2],
     [Transit("UPDATE", K16, E1, Seen(E1, L2, "DRAFT", FALSE)) EXCEPT !.label = L1]}

\* Two workspaces and two experts: profiles are made, edited and used, with
\* identities and UUIDs that collide; E1 is claimed by both workspaces; one of
\* the users loses and regains the scope; operation keys are used twice.
ProfileSeen(p, i, n, t, used) ==
    [profile |-> p, identity |-> i, kind |-> n, title |-> t, used |-> used]
IdentityRequests ==
    {Expert(K1, W1, P1, I1, "AI", L1),
     [Expert(K2, W1, P1, I1, "HUMAN", L1)
         EXCEPT !.ifMatch = ProfileSeen(P1, I1, "AI", L1, FALSE)],
     [Expert(K3, W1, P1, I2, "AI", L2) EXCEPT !.user = U2,
         !.ifMatch = ProfileSeen(P1, I1, "AI", L1, FALSE)],
     [Expert(K4, W1, P1, I1, "HUMAN", L2)
         EXCEPT !.ifMatch = ProfileSeen(P1, I1, "AI", L1, TRUE)],
     Expert(K5, W1, P2, I2, "HUMAN", L1),
     Expert(K5, W2, P1, I1, "AI", L1),
     Create(K6, W1, E1, P1, I1, "AI", L1),
     [Create(K7, W2, E1, P1, I1, "AI", L1) EXCEPT !.user = U2],
     Create(K8, W1, E2, P2, I1, "AI", L1),
     Create(K8, W1, E2, P1, I1, "HUMAN", L1),
     [Transit("UPDATE", K9, E1, Draft) EXCEPT !.label = L2],
     [Transit("UPDATE", K10, E1, Seen(E1, L2, "DRAFT", FALSE)) EXCEPT !.label = L1],
     Transit("FREEZE", K11, E1, Draft),
     Transit("ARCHIVE", K11, E1, Frozen),
     Transit("ARCHIVE", K12, E1, Seen(E1, L2, "DRAFT", FALSE)),
     Import(K12, E1, "AI", {Row(T1, "POS", "PROVISIONAL", "LOW")}),
     Import(K9, E2, "AI", {Row(T1, "POS", "PROVISIONAL", "LOW")})}

\* One experiment, calculated while its values are entered and corrected: POS
\* stays with an older assessment when SAL is corrected, the experiment is
\* frozen; the key of a run is used for other weights, by another user, for the
\* slice of another workspace, for a value and for a scenario.
Run(k, s, g) ==
    [key |-> k, user |-> U1, experiment |-> E1, slice |-> s,
     weightsFor |-> <<E1, s>>, weights |-> g]
RunRequests ==
    {Create(K1, W1, E1, P1, I1, "AI", L1),
     First(K2, E1, T1, "POS", "PROVISIONAL", "HIGH"),
     First(K3, E1, T1, "SAL", "UNKNOWN", "LOW"),
     Correct(K5, <<K2, T1, "POS">>, E1, T1, "POS", "PROVISIONAL", "LOW"),
     Correct(K10, <<K3, T1, "SAL">>, E1, T1, "SAL", "PROVISIONAL", "HIGH"),
     Transit("FREEZE", K11, E1, Draft)}
RunCalculations ==
    {Run(K9, S1, G1), Run(K10, S1, G1), Run(K9, S1, G2),
     [Run(K9, S1, G1) EXCEPT !.user = U2],
     Run(K7, S3, G1),
     [Run(K7, S1, G1) EXCEPT !.weightsFor = <<E1, S2>>]}

MCSlice == {S1, S2, S3}
MCSliceOf == [t \in MCTarget |-> IF t = T1 THEN S1 ELSE S2]
MCHomeOf == [s \in MCSlice |-> IF s = S3 THEN W2 ELSE W1]
MCWeights == {G1, G2}
MCScenario == {N1}
MCFigure == {F1}
MCReworkKey == {K10}

\* Who may send what, and whose membership changes.
ValueClients == [requests |-> ValueRequests, calculations |-> {}, reworkKeys |-> {}, scope |-> {}]
IdentityClients == [requests |-> IdentityRequests, calculations |-> {}, reworkKeys |-> {},
                scope |-> {U2}]
RunClients == [requests |-> RunRequests, calculations |-> RunCalculations,
          reworkKeys |-> MCReworkKey, scope |-> {}]

MCRequest == ValueRequests \cup IdentityRequests \cup RunRequests
MCScopeChange == {U2}

VARIABLE clients

NoClients == [requests |-> {}, calculations |-> {}, reworkKeys |-> {}, scope |-> {}]

MCInit ==
    /\ RunsInit
    /\ \/ clients \in {ValueClients, IdentityClients, RunClients} /\ EnvelopeRest
       \/ clients = NoClients /\ EnvelopeInit

MCRuns ==
    \/ \E r \in clients.requests : PlayerStep(r)
    \/ \E u \in clients.scope : ScopeStep(u)
    \/ \E c \in clients.calculations : Calculate(c) \/ ReplayRun(c)
    \/ ReworkStep

MCNext ==
    /\ UNCHANGED clients
    /\ \/ clients # NoClients /\ MCRuns /\ UNCHANGED envelopeVars
       \/ clients = NoClients /\ EnvelopeNext /\ UNCHANGED runVars

MCSpec == MCInit /\ [][MCNext]_<<runVars, envelopeVars, clients>>
=============================================================================
