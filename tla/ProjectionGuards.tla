--------------------------- MODULE ProjectionGuards ---------------------------
(***************************************************************************)
(* Who may write the rows of a projection.  Actors, elements, roles and    *)
(* parameter definitions are canonical once they name the manifest entity  *)
(* they stand for; others keep their old lifecycle.  The models guard      *)
(* them, and so do triggers, for whoever goes past the models; migrations  *)
(* install the triggers, replace them and take them away again.  The       *)
(* events of the audit have such triggers too, on PostgreSQL alone.        *)
(*                                                                         *)
(* All of them are triggers of rows.  TRUNCATE fires none, nor do the rows *)
(* that REPLACE displaces on SQLite, nor a workspace that is deleted and   *)
(* inserted anew.  Whoever owns the tables may drop them, and is trusted.  *)
(***************************************************************************)
EXTENDS Integers

CONSTANTS
    Entity,     \* identities of actors, elements and roles
    Parameter,  \* identities of parameter definitions
    TableOf,    \* identity -> the one of the four tables that it is of
    Content,    \* what else a row says
    Pin,        \* definitions that the workspace may be pinned to
    Event       \* what the audit may say

VARIABLES
    vendor,      \* of the database
    generation,  \* the last migration applied
    entries,     \* the rows of the four tables
    pinned,      \* the workspace: its pin, and whether its projection is proven
    events,      \* of the audit
    bypassed     \* the last statement changed rows without firing their triggers

guardVars == <<vendor, generation, entries, pinned, events, bypassed>>

Entry == [id : Entity \cup Parameter, canonical : BOOLEAN, content : Content]
PinnedWorkspace == [pin : Pin, complete : BOOLEAN]

ASSUME GuardAssumption ==
    /\ Entity \cap Parameter = {}
    /\ \A i \in Entity, j \in Parameter : TableOf[i] # TableOf[j]

GuardsTypeOK ==
    /\ vendor \in {"sqlite", "postgresql"}
    /\ generation \in 17..22
    /\ entries \subseteq Entry
    /\ pinned \in PinnedWorkspace
    /\ events \subseteq Event
    /\ bypassed \in BOOLEAN

EntryOf(i) == {r \in entries : r.id = i}

-----------------------------------------------------------------------------
(* The triggers.                                                           *)

\* What the service presents under its lease opens the triggers of the last
\* generation; those before it ask PostgreSQL for a setting it no longer makes.
LeaseOpens == vendor = "sqlite" \/ generation = 22

RowEnters(r, leased) == generation >= 19 /\ r.canonical => leased /\ LeaseOpens
RowChanges(old, new) ==
    (generation >= 18 => ~old.canonical) /\ (generation >= 19 => ~new.canonical)
RowLeaves(old) == generation >= 18 => ~old.canonical

WorkspaceChanges(new, leased) ==
    generation >= 19 =>
       /\ new.pin = pinned.pin
       /\ new.complete # pinned.complete => leased /\ LeaseOpens

EventsLeave == ~(vendor = "postgresql" /\ generation >= 21)

-----------------------------------------------------------------------------
(* Direct SQL meets the triggers alone.                                    *)

AddEntry(r) == EntryOf(r.id) = {} /\ RowEnters(r, FALSE) /\ entries' = entries \cup {r}
ReplaceEntry(old, new) == RowChanges(old, new) /\ entries' = (entries \ {old}) \cup {new}
RemoveEntry(old) == RowLeaves(old) /\ entries' = entries \ {old}

\* Before its migration there is no column that could make a row canonical, or
\* a workspace complete.
HasColumns(r) == generation = 17 => ~r.canonical

SqlRow ==
    /\ \/ \E r \in Entry : HasColumns(r) /\ AddEntry(r)
       \/ \E old \in entries, new \in Entry :
             old.id = new.id /\ HasColumns(new) /\ ReplaceEntry(old, new)
       \/ \E old \in entries : RemoveEntry(old)
    /\ UNCHANGED <<vendor, generation, pinned, events>>

SqlWorkspace ==
    /\ \E w \in PinnedWorkspace :
          (generation = 17 => ~w.complete) /\ WorkspaceChanges(w, FALSE) /\ pinned' = w
    /\ UNCHANGED <<vendor, generation, entries, events>>

SqlEvents ==
    /\ \/ \E e \in Event \ events : events' = events \cup {e}
       \/ \E e \in events : EventsLeave /\ events' = events \ {e}
       \/ \E e \in events, new \in Event :
             EventsLeave /\ events' = (events \ {e}) \cup {new}
    /\ UNCHANGED <<vendor, generation, entries, pinned>>

-----------------------------------------------------------------------------
(* Direct SQL that fires no trigger of the rows it takes away.             *)

\* Whole tables: those of the four that are named or that refer to them, or the
\* audit.  PostgreSQL alone knows it.
Truncate ==
    /\ vendor = "postgresql"
    /\ \/ \E tables \in SUBSET {TableOf[i] : i \in Entity \cup Parameter} :
             /\ entries' = {r \in entries : TableOf[r.id] \notin tables}
             /\ UNCHANGED events
       \/ events' = {} /\ UNCHANGED entries
    /\ UNCHANGED <<vendor, generation, pinned>>

\* INSERT OR REPLACE and UPDATE OR REPLACE: the rows of the table that hold the id
\* or another unique key of the row that is written make room for it.
SqlReplace ==
    /\ vendor = "sqlite"
    /\ \E r \in Entry :
          LET table == {q \in entries : TableOf[q.id] = TableOf[r.id]} IN
          \E gone \in SUBSET table :
             /\ HasColumns(r) /\ EntryOf(r.id) \subseteq gone
             /\ RowEnters(r, FALSE) \/ \E old \in gone : RowChanges(old, r)
             /\ entries' = (entries \ gone) \cup {r}
    /\ UNCHANGED <<vendor, generation, pinned, events>>

\* A transaction that deletes the workspace and inserts it again: keys that refer
\* to it are looked up at its end.
RecreateWorkspace ==
    /\ \E w \in PinnedWorkspace : (generation = 17 => ~w.complete) /\ pinned' = w
    /\ UNCHANGED <<vendor, generation, entries, events>>

-----------------------------------------------------------------------------
(* The models, which know the columns.  They only add to the audit.        *)

\* Only the service's lease lets canonical rows in.
OrmInsert ==
    /\ generation >= 18
    /\ \E r \in Entry : ~r.canonical /\ AddEntry(r)
    /\ UNCHANGED <<vendor, generation, pinned, events>>

\* Entities are revised by successors; a parameter that says it is not canonical
\* may be saved, whatever it was.
OrmSave ==
    /\ generation >= 18
    /\ \E old \in entries, new \in Entry :
          /\ old.id = new.id /\ new.id \in Parameter /\ ~new.canonical
          /\ ReplaceEntry(old, new)
    /\ UNCHANGED <<vendor, generation, pinned, events>>

OrmUpdate ==
    /\ generation >= 18
    /\ \E old \in entries, new \in Entry :
          /\ old.id = new.id /\ new.id \in Parameter
          /\ ~old.canonical /\ ~new.canonical
          /\ ReplaceEntry(old, new)
    /\ UNCHANGED <<vendor, generation, pinned, events>>

OrmDelete ==
    /\ generation >= 18
    /\ \E old \in entries : ~old.canonical /\ RemoveEntry(old)
    /\ UNCHANGED <<vendor, generation, pinned, events>>

OrmAudit ==
    /\ \E e \in Event \ events : events' = events \cup {e}
    /\ UNCHANGED <<vendor, generation, entries, pinned>>

\* The service: all rows of a projection and its evidence in one transaction.
Project ==
    /\ generation >= 18 /\ ~pinned.complete
    /\ \E rs \in SUBSET {r \in Entry : r.canonical} :
          /\ rs # {}
          /\ \A r \in rs : EntryOf(r.id) = {} /\ RowEnters(r, TRUE)
          /\ \A r, q \in rs : r.id = q.id => r = q
          /\ entries' = entries \cup rs
    /\ WorkspaceChanges([pinned EXCEPT !.complete = TRUE], TRUE)
    /\ pinned' = [pinned EXCEPT !.complete = TRUE]
    /\ UNCHANGED <<vendor, generation, events>>

-----------------------------------------------------------------------------
(* The migrations.                                                         *)

\* Columns come empty.
Migrate ==
    /\ generation < 22
    /\ generation' = generation + 1
    /\ UNCHANGED <<vendor, entries, pinned, events>>

\* Mutant: the columns go with what they say.
ReverseAnyway ==
    /\ generation > 17
    /\ generation' = generation - 1
    /\ IF generation = 18
       THEN /\ entries' = {[r EXCEPT !.canonical = FALSE] : r \in entries}
            /\ pinned' = [pinned EXCEPT !.complete = FALSE]
       ELSE UNCHANGED <<entries, pinned>>
    /\ UNCHANGED <<vendor, events>>

\* The columns go, unless a row is canonical.
Reverse ==
    /\ generation > 17
    /\ generation' = generation - 1
    /\ IF generation = 18
       THEN /\ \A r \in entries : ~r.canonical
            /\ pinned' = [pinned EXCEPT !.complete = FALSE]
       ELSE UNCHANGED pinned
    /\ UNCHANGED <<vendor, entries, events>>

GuardsInit ==
    /\ vendor \in {"sqlite", "postgresql"}
    /\ generation = 17
    /\ entries = {}
    /\ events = {}
    /\ pinned \in {[pin |-> p, complete |-> FALSE] : p \in Pin}
    /\ bypassed = FALSE

GuardedStep ==
    \/ SqlRow \/ SqlWorkspace \/ SqlEvents
    \/ OrmAudit \/ OrmInsert \/ OrmSave \/ OrmUpdate \/ OrmDelete \/ Project
    \/ Migrate \/ Reverse

BypassingStep == Truncate \/ SqlReplace \/ RecreateWorkspace

GuardsNext ==
    \/ GuardedStep /\ bypassed' = FALSE
    \/ BypassingStep /\ bypassed' = TRUE

GuardsSpec == GuardsInit /\ [][GuardsNext]_guardVars

-----------------------------------------------------------------------------
(* What the triggers keep.                                                 *)
TriggersKeep ==
    /\ \A r \in entries : r.canonical => r \in entries'
    /\ generation >= 19 => pinned'.pin = pinned.pin
    /\ vendor = "postgresql" /\ generation >= 21 => events \subseteq events'

(* What is lost past them: the rows of whole tables, rows of a table that one *)
(* new row displaces, or a pin alone.                                      *)
BypassLoses ==
    /\ \A r \in entries \ entries' :
          LET left == {q \in entries' : TableOf[q.id] = TableOf[r.id]} IN
          IF vendor = "postgresql" THEN left = {}
          ELSE \E q \in left : left \subseteq entries \cup {q}
    /\ vendor = "postgresql" => events \subseteq events' \/ events' = {}
    /\ pinned' # pinned => UNCHANGED <<entries, events>>

(* Once a row is canonical no statement that fires row triggers changes it   *)
(* or takes it away, be it of the models or direct SQL, nor does a migration *)
(* in either direction, not even one that takes the guards with it.  From    *)
(* 0019 on they leave the pin, and from 0021 on PostgreSQL's audit.  What    *)
(* fires none can still do this much: PostgreSQL loses canonical rows only   *)
(* with all others of their table, and the audit as a whole; SQLite loses    *)
(* them only to another row that takes their place; and a pin moves alone.   *)
GuardedRowsStay ==
    [][(~bypassed' => TriggersKeep) /\ (bypassed' => BypassLoses)]_guardVars
=============================================================================
