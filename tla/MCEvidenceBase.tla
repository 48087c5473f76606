---------------------------- MODULE MCEvidenceBase ----------------------------
(***************************************************************************)
(* The documents of a workspace and the database that guards its rows, one *)
(* part at a time: a behaviour captures and translates documents, or it    *)
(* imports packages next to the Player, or it migrates and guards the      *)
(* tables.  The parts share no row here, so that running them together     *)
(* would only multiply their states.                                       *)
(***************************************************************************)
EXTENDS MCDocumentLineage, MCEvidenceImport, MCDatabaseGuards

EvidenceBaseInit == LineageInit /\ EvidenceInit /\ DatabaseInit

EvidenceBaseNext ==
    \/ /\ EvidenceInit /\ DatabaseRest
       /\ LineageNext /\ TwoFragments'
       /\ UNCHANGED <<evidenceVars, databaseVars>>
    \/ LineageInit /\ DatabaseRest /\ EvidenceNext /\ UNCHANGED <<vars, databaseVars>>
    \/ LineageInit /\ EvidenceInit /\ DatabaseNext /\ UNCHANGED <<vars, evidenceVars>>

EvidenceBaseSpec ==
    EvidenceBaseInit /\ [][EvidenceBaseNext]_<<vars, evidenceVars, databaseVars>>
=============================================================================
