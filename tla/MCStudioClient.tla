--------------------------- MODULE MCStudioClient ---------------------------
(***************************************************************************)
(* One project.  Its first draft D1 comes from an entry page and is        *)
(* published elsewhere; its successor D2 is cloned elsewhere, then edited  *)
(* in one editor tab, saved elsewhere too, and validated and published at  *)
(* one desk.  M1 is valid, M2 and M3 parse and are not; M3 is a proposal   *)
(* that nobody saves.                                                      *)
(*                                                                         *)
(* OnePage bounds the interleaving: one page is open at a time, but what   *)
(* an earlier page has sent may still arrive, and others act at any time.  *)
(***************************************************************************)
EXTENDS StudioClient

CONSTANTS D1, D2, P1, W1, M1, M2, M3, A1, TabB, TabE, TabP,
          SaveKeys, DeskKeys  \* how many UUIDs each page may draw

MCProject == {P1}
MCDefinition == {D1, D2}
MCManifest == {M1, M2, M3}
Saved == {M1, M2}
MCValidManifest == {M1}
MCName == {D1, D2, P1}

Intent(op, d, k) ==
    [op |-> op, key |-> <<op, k>>, actor |-> A1, project |-> P1,
     projectCode |-> None, target |-> d, source |-> None, ifMatch |-> None,
     manifest |-> None, code |-> None, version |-> None, workspace |-> None]

Bootstrap ==
    {[Intent("BOOTSTRAP_DRAFT", D1, 1) EXCEPT !.projectCode = P1, !.manifest = M1,
                                              !.code = D1, !.version = D1]}
Others ==
    {[Intent("INITIAL", D1, 1) EXCEPT !.ifMatch = M1, !.workspace = W1],
     [Intent("CLONE_DRAFT", D2, 1) EXCEPT !.source = D1, !.ifMatch = M1,
                                          !.code = D2, !.version = D2],
     [Intent("SAVE_DRAFT", D2, 0) EXCEPT !.ifMatch = M1, !.manifest = M2]}
Saves ==
    {[Intent("SAVE_DRAFT", D2, k) EXCEPT !.ifMatch = bm[1], !.manifest = bm[2]] :
        k \in 1..SaveKeys, bm \in {<<M1, M2>>, <<M2, M1>>}}
Sealings ==
    {[Intent("VALIDATE_DEFINITION", D2, k) EXCEPT !.ifMatch = m] :
        k \in 1..DeskKeys, m \in Saved}
    \cup {[Intent("SUCCESSOR", D2, k) EXCEPT !.ifMatch = M1] : k \in 1..DeskKeys}

MCRequest == Bootstrap \cup Others \cup Saves \cup Sealings
MCKey == {r.key : r \in MCRequest}
MCEntry == {TabB}
MCEditor == IF SaveKeys = 0 THEN {} ELSE {TabE}
MCPublisher == IF DeskKeys = 0 THEN {} ELSE {TabP}
MCPageOf == [t \in MCEditor \cup MCPublisher |-> D2]
MCPoolOf ==
    [t \in MCEntry \cup MCEditor \cup MCPublisher |->
        {r.key : r \in IF t = TabB THEN Bootstrap ELSE IF t = TabE THEN Saves ELSE Sealings}]

OnePage ==
    Cardinality({t \in MCEntry \cup MCEditor : page[t] # Blank}
                \cup {t \in MCPublisher : desk[t] # Cleared}) <= 1
=============================================================================
