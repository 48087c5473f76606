----------------------- MODULE MCDefinitionLifecycle -----------------------
(***************************************************************************)
(* Project P1 with its first draft and three more definitions: long enough *)
(* for a chain of three publications, for two rival successors of the same *)
(* predecessor, for a clone of an unpublished draft, for a standalone      *)
(* draft in a published project, and for edits that are undone.  Project   *)
(* P2 competes for a definition UUID, for operation keys and for the       *)
(* workspace UUID.  M1 is valid, M2 parses and is not; M3 and M4 are       *)
(* for P2 under either code.                                               *)
(*                                                                         *)
(* Project P3, apart from the others, tries the manifests of Variants as   *)
(* its first draft: each is one change away from a valid manifest with two *)
(* actors, two elements, two roles and three parameters.  W3 is its        *)
(* initial workspace and W4 a sibling of it; when the unchanged manifest   *)
(* is published, D6 succeeds D5 with other applicabilities and W5 pins it. *)
(***************************************************************************)
EXTENDS ManifestProjection, TLC

CONSTANTS D1, D2, D3, D4, D5, D6, P1, P2, P3, W1, W2, W3, W4, W5, M1, M2, M3, M4,
          A1, K1, K2, K3

MCProject == {P1, P2, P3}
MCDefinition == {D1, D2, D3, D4, D5, D6}
MCWorkspace == {W1, W2, W3, W4, W5}
MCName == MCDefinition \cup MCProject
MCActor == {A1}

-----------------------------------------------------------------------------
(* Manifests.                                                              *)

Id(uuid) == [uuid |-> uuid, upper |-> FALSE]
UpperId(uuid) == [uuid |-> uuid, upper |-> TRUE]
Number(size) == [negative |-> FALSE, size |-> size, fits |-> TRUE]
Minus(size) == [negative |-> TRUE, size |-> size, fits |-> TRUE]

MCPublishedTopic == {[key |-> "map", version |-> "1", stable |-> "s1", hash |-> "h1"]}
MCOrderLimit == 9

Node(code, parent, order) ==
    [id |-> Id(code), code |-> code, label |-> "label", parent |-> parent,
     order |-> order, statement |-> "text"]
Role(code, actor, element) ==
    [id |-> Id(code), code |-> code, actor |-> Id(actor), element |-> Id(element),
     role |-> "PRIMARY", order |-> 1]
Parameter(code, target) ==
    [id |-> Id(code), code |-> code, name |-> "name", type |-> "DECIMAL",
     target |-> target, minimum |-> Minus(3), maximum |-> Number(3), step |-> None,
     statuses |-> <<"KNOWN">>, actors |-> <<>>, elements |-> <<>>, roles |-> <<>>,
     statement |-> "text"]

Empty(p, code) ==
    [wrong |-> {}, shape |-> {}, keys |-> {}, project |-> [id |-> p, code |-> code],
     actors |-> <<>>, elements |-> <<>>, roles |-> <<>>, parameters |-> <<>>, help |-> <<>>]

Good ==
    [Empty(P3, P3) EXCEPT
        !.actors = <<Node("a2", Id("a1"), 1), Node("a1", None, 1)>>,
        !.elements = <<Node("e1", None, 1), Node("e2", Id("e1"), 2)>>,
        !.roles = <<Role("r1", "a1", "e1"), Role("r2", "a2", "e2")>>,
        !.parameters =
            <<[Parameter("p1", "ACTOR_ELEMENT_ASSESSMENT") EXCEPT
                 !.actors = <<Id("a1"), Id("a2")>>, !.elements = <<Id("e1")>>,
                 !.roles = <<Id("r1")>>],
              [Parameter("p2", "ACTOR") EXCEPT !.actors = <<Id("a2")>>],
              [Parameter("p3", "ACTOR_ELEMENT_ROLE") EXCEPT !.roles = <<Id("r2")>>]>>,
        !.help = <<[id |-> Id("h1"), code |-> "h1", version |-> "1", topicVersion |-> "1",
                    key |-> "map", stable |-> "s1", hash |-> "h1"]>>]

\* The published one, and a successor for which other targets are declared.
Chained(good) ==
    "good" :> good @@
    "widened" :> [good EXCEPT !.parameters[2].actors = <<Id("a1")>>,
                              !.parameters[1].elements = <<Id("e1"), Id("e2")>>,
                              !.parameters[1].roles = <<Id("r1"), Id("r2")>>]

\* What a column or a later read cannot take, though FD01 can.
Unprojectable(good) ==
    "upper" :> [good EXCEPT !.elements[2].id = UpperId("e2"), !.roles[2].element = UpperId("e2")] @@
    "twin" :> [good EXCEPT !.elements[2].id = UpperId("e1"), !.roles[2].element = UpperId("e1")] @@
    "long label" :> [good EXCEPT !.actors[1].label = "LONG"] @@
    "long name" :> [good EXCEPT !.parameters[2].name = "LONG"] @@
    "far order" :> [good EXCEPT !.roles[2].order = 10] @@
    "digits" :> [good EXCEPT !.parameters[1].maximum.fits = FALSE] @@
    "power" :> [good EXCEPT !.parameters[3].code = "POW"] @@
    "text scale" :> [good EXCEPT !.parameters[2].type = "TEXT"] @@
    "minus zero" :> [good EXCEPT !.parameters[2].minimum = Minus(0)]

\* What one of the passes of FD01 reports.
Refused(good) ==
    "format" :> [good EXCEPT !.wrong = {"format"}] @@
    "field" :> [good EXCEPT !.shape = {"FIELD_REQUIRED"}] @@
    "no statuses" :> [good EXCEPT !.parameters[1].statuses = <<>>] @@
    "forbidden" :> [good EXCEPT !.keys = {"formula"}] @@
    "other project" :> [good EXCEPT !.project.id = P1] @@
    "same id" :> [good EXCEPT !.actors[1].id = Id("a1"), !.actors[1].parent = None,
                              !.roles[2].actor = Id("a1")] @@
    "same code" :> [good EXCEPT !.actors[1].code = "a1"] @@
    "same parameter" :> [good EXCEPT !.parameters[3].code = "p1"] @@
    "own parent" :> [good EXCEPT !.actors[1].parent = Id("a2")] @@
    "cycle" :> [good EXCEPT !.actors[2].parent = Id("a2")] @@
    "orphan" :> [good EXCEPT !.elements[2].parent = Id("a1")] @@
    "same order" :> [good EXCEPT !.elements[2].parent = None, !.elements[2].order = 1] @@
    "no such element" :> [good EXCEPT !.roles[1].element = Id("a1")] @@
    "same role" :> [good EXCEPT !.roles[2].actor = Id("a1"), !.roles[2].element = Id("e1")] @@
    "applies to nothing" :> [good EXCEPT !.parameters[2].actors = <<Id("e1")>>] @@
    "applies twice" :> [good EXCEPT !.parameters[2].actors = <<Id("a2"), Id("a2")>>] @@
    "upside down" :> [good EXCEPT !.parameters[1].maximum = Minus(4)] @@
    "no step" :> [good EXCEPT !.parameters[1].step = Number(0)] @@
    "blank" :> [good EXCEPT !.parameters[1].statement = "BLANK"] @@
    "no label" :> [good EXCEPT !.actors[1].label = "EMPTY"] @@
    "statuses" :> [good EXCEPT !.parameters[1].statuses = <<"KNOWN", "KNOWN">>] @@
    "help hash" :> [good EXCEPT !.help[1].hash = "h2"] @@
    "help version" :> [good EXCEPT !.help[1].topicVersion = "2"]

Variants == Chained(Good) @@ Unprojectable(Good) @@ Refused(Good)

MCContent ==
    M1 :> Empty(P1, P1) @@ M2 :> [Empty(P1, P1) EXCEPT !.roles = <<Role("r1", "a1", "e1")>>]
    @@ M3 :> Empty(P2, P2) @@ M4 :> Empty(P2, P1) @@ Variants
MCManifest == DOMAIN MCContent
Reported == [m \in MCManifest |-> Diagnostics(MCContent[m], MCContent[m].project)]
MCValidManifest == {m \in MCManifest : Reported[m] = {}}

-----------------------------------------------------------------------------
(* Requests.                                                               *)

\* Unless a request says otherwise, its key is its own.
Intent(op, d) ==
    [op |-> op, key |-> <<op, d>>, actor |-> A1, project |-> P1,
     projectCode |-> None, target |-> d, source |-> None, ifMatch |-> None,
     manifest |-> None, code |-> None, version |-> None, workspace |-> None]

Creating(op, d, m) ==
    [Intent(op, d) EXCEPT !.manifest = m, !.code = d, !.version = d]

FirstProject ==
    {[Creating("BOOTSTRAP_DRAFT", D1, M1) EXCEPT !.projectCode = P1],
     [Creating("BOOTSTRAP_DRAFT", D4, M3) EXCEPT !.project = P2, !.projectCode = P2],
     [Creating("BOOTSTRAP_DRAFT", D4, M4) EXCEPT !.project = P2, !.projectCode = P1,
                                                 !.key = <<"CODE", P1>>]}

OtherProject ==
    {[Creating("CREATE_DRAFT", D3, M3) EXCEPT !.project = P2],
     [Intent("INITIAL", D4) EXCEPT !.project = P2, !.key = K1, !.ifMatch = M3,
                                   !.workspace = W1]}

Drafts ==
    {Creating("CREATE_DRAFT", D3, M1),
     [Creating("CREATE_DRAFT", D3, M1) EXCEPT !.key = <<"CODE", D3>>, !.code = D2]}
    \cup {[Intent("CLONE_DRAFT", sd[2]) EXCEPT !.key = <<"CLONE_DRAFT", sd>>,
            !.source = sd[1], !.ifMatch = M1, !.code = sd[2], !.version = sd[2]] :
            sd \in {<<D1, D2>>, <<D1, D3>>, <<D2, D3>>}}
    \cup {[Intent("SAVE_DRAFT", d) EXCEPT !.key = <<"SAVE_DRAFT", d, m>>,
            !.ifMatch = IF m = M1 THEN M2 ELSE M1, !.manifest = m] :
            d \in {D1, D2}, m \in {M1, M2}}
    \cup {[Intent("VALIDATE_DEFINITION", d) EXCEPT !.ifMatch = M1] : d \in {D1, D2, D3}}
    \cup {[Intent("VALIDATE_DEFINITION", D1) EXCEPT !.key = <<"STALE", D1>>, !.ifMatch = M2]}

Publications ==
    {[Intent("INITIAL", d) EXCEPT !.key = K1, !.ifMatch = m, !.workspace = w] :
        d \in {D1, D2}, m \in {M1, M2}, w \in {W1, W2}}
    \cup {[Intent("SUCCESSOR", d) EXCEPT !.key = k, !.ifMatch = M1] :
            d \in {D1, D2, D3}, k \in {K1, K2, K3}}

ThirdProject ==
    {[Creating("BOOTSTRAP_DRAFT", D5, m) EXCEPT !.project = P3, !.projectCode = P3] :
        m \in DOMAIN Variants}
    \cup {[Intent("INITIAL", D5) EXCEPT !.project = P3, !.ifMatch = m, !.workspace = W3] :
            m \in DOMAIN Variants}
    \cup {[Intent("CLONE_DRAFT", D6) EXCEPT !.project = P3, !.source = D5,
             !.ifMatch = "good", !.code = D6, !.version = D6],
           [Intent("SAVE_DRAFT", D6) EXCEPT !.project = P3, !.ifMatch = "good",
             !.manifest = "widened"]}
    \cup {[Intent(op, D6) EXCEPT !.project = P3, !.ifMatch = "widened"] :
            op \in {"VALIDATE_DEFINITION", "SUCCESSOR"}}

MCRequest == FirstProject \cup OtherProject \cup Drafts \cup Publications \cup ThirdProject
MCKey == {r.key : r \in MCRequest}

MCProjecting == {[key |-> K1, actor |-> A1, workspace |-> W3]}
MCCreation ==
    {[key |-> K2, actor |-> A1, workspace |-> W4, definition |-> D5],
     [key |-> K3, actor |-> A1, workspace |-> W5, definition |-> D6]}
MCLegacy ==
    {[id |-> <<W3, "2.0", "l1">>, workspace |-> W3, family |-> "ACTOR", code |-> "a1"],
     [id |-> <<W3, "2.0", "l2">>, workspace |-> W3, family |-> "ANALYTICAL_ELEMENT", code |-> "e9"]}

\* P3 has nothing to do with the others.
Apart == projects[P3] # None => projects[P1] = None /\ projects[P2] = None
=============================================================================
