------------------------- MODULE PublishedSnapshots -------------------------
(***************************************************************************)
(* What Foundation Studio promises the readers of published definitions    *)
(* (Player workspaces, exporters, evidence):                               *)
(*                                                                         *)
(*   - a published snapshot is written once and never changes;             *)
(*   - a project has at most one head, which moves only from a snapshot    *)
(*     to one that names it as its parent, so that its history is a line;  *)
(*   - a workspace pins one exact snapshot, for ever.                      *)
(*                                                                         *)
(* Nothing here knows of drafts, validation, operation keys or locks.      *)
(***************************************************************************)
CONSTANTS Project, Definition, Workspace, Manifest, None

VARIABLES
    head,      \* Project -> its current published definition, or None
    snapshot,  \* Definition -> its published [project, manifest, parent], or None
    pin        \* Workspace -> the [project, definition, manifest] it pins, or None

svars == <<head, snapshot, pin>>

SnapshotInit ==
    /\ head = [p \in Project |-> None]
    /\ snapshot = [d \in Definition |-> None]
    /\ pin = [w \in Workspace |-> None]

Write(p, d, m) ==
    /\ snapshot[d] = None
    /\ snapshot' = [snapshot EXCEPT ![d] = [project |-> p, manifest |-> m,
                                            parent |-> head[p]]]
    /\ head' = [head EXCEPT ![p] = d]

\* The first publication of a project also creates its one initial workspace.
First(p, d, m, w) ==
    /\ head[p] = None
    /\ pin[w] = None
    /\ Write(p, d, m)
    /\ pin' = [pin EXCEPT ![w] = [project |-> p, definition |-> d, manifest |-> m]]

\* A later one never touches an existing pin.
Successor(p, d, m) ==
    /\ head[p] # None
    /\ Write(p, d, m)
    /\ UNCHANGED pin

SnapshotNext ==
    \E p \in Project, d \in Definition, m \in Manifest :
        \/ \E w \in Workspace : First(p, d, m, w)
        \/ Successor(p, d, m)

SnapshotSpec == SnapshotInit /\ [][SnapshotNext]_svars
=============================================================================
