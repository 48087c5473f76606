-------------------------- MODULE ProjectLanguages --------------------------
(***************************************************************************)
(* The language of a Project, given once when its row is inserted.         *)
(*                                                                         *)
(* Rows come from save, create, bulk_create, get_or_create and             *)
(* update_or_create; each of them reads first and writes later, and the    *)
(* unique keys of the table settle the races in between.  Callers keep     *)
(* loaded instances, change them and save them.                            *)
(***************************************************************************)
EXTENDS LanguageTags

CONSTANTS
    ProjectId, ProjectCode, ProjectName,
    Session,   \* callers
    Call,      \* what they call, with its arguments
    Und        \* the tag of an unknown language

VARIABLES
    projects,  \* the table
    sessions,  \* Session -> the call under way, or None
    answers    \* the languages that calls asked for, with the Project they got

languageVars == <<projects, sessions, answers>>

Assignment == {"EXPLICIT", "LEGACY_UNKNOWN"}

\* Caller's rows: language as typed, language or assignment perhaps left out (None).
Draft ==
    [id : ProjectId, code : ProjectCode, name : ProjectName, tag : {None} \cup Seq(Subtag),
     assignment : {None} \cup Assignment]

ASSUME LanguageAssumption ==
    /\ Und \in Seq(Subtag) /\ Canonical(Und) = Und
    /\ \A c \in Call :
          /\ c.op \in {"create", "get_or_create", "update_or_create", "save"}
          /\ c.by \in {"id", "code"}
          /\ c.rows \subseteq Draft
          /\ c.op # "create" => \E r \in c.rows : c.rows = {r}

\* The check constraint of the table.
PairOK(p) == p.assignment = (IF p.tag = Und THEN "LEGACY_UNKNOWN" ELSE "EXPLICIT")

LanguageTypeOK ==
    /\ \A p \in projects : p \in Draft /\ PairOK(p) /\ Canonical(p.tag) = p.tag
    /\ \A p, q \in projects : p.id = q.id \/ p.code = q.code => p = q
    /\ \A s \in Session : sessions[s] # None =>
          sessions[s].call \in Call /\ sessions[s].step \in {"create", "insert", "again", "loaded", "write"}

The(S) == CHOOSE x \in S : TRUE

Clash(r) == {p \in projects : p.id = r.id \/ p.code = r.code}

-----------------------------------------------------------------------------
(* What is asked, before any row is read.                                  *)

\* A pair that no row could have is refused at once, and so is a malformed tag.
Prevalidated(r) ==
    LET tag == Canonical(r.tag)
    IN r.tag # None =>
          /\ tag # None
          /\ r.assignment # None => r.assignment = (IF tag = Und THEN "LEGACY_UNKNOWN" ELSE "EXPLICIT")

\* The look-up leaves the language out.
Found(c) ==
    LET r == The(c.rows)
    IN {p \in projects : IF c.by = "id" THEN p.id = r.id ELSE p.code = r.code}

\* Mutant: the row that is there is good enough.
SameLanguageUnasked(r, p) == r.id \in ProjectId /\ p \in projects

SameLanguage(r, p) ==
    /\ r.tag # None => Canonical(r.tag) = p.tag
    /\ r.assignment # None => r.assignment = p.assignment

\* An ordinary insert names its language; und is for what is restored.
Insertable(r) ==
    /\ r.tag # None
    /\ Canonical(r.tag) \notin {None, Und}
    /\ r.assignment \in {None, "EXPLICIT"}

Stored(r) == [r EXCEPT !.tag = Canonical(r.tag), !.assignment = "EXPLICIT"]

Enter(s, c, step) == sessions' = [sessions EXCEPT ![s] = [call |-> c, step |-> step]]
Leave(s) == sessions' = [sessions EXCEPT ![s] = None]

Answered(rs, ps) == {[asked |-> r, got |-> p] : r \in rs, p \in ps}

-----------------------------------------------------------------------------
(* Calls.                                                                  *)

\* Another name for a Project that was found; its row is locked meanwhile.
Renamed(c, p) == IF c.op = "update_or_create" THEN [p EXCEPT !.name = The(c.rows).name] ELSE p

\* get, of a row that is there: its language is compared, and only then is it used.
Get(s, c) ==
    \E p \in Found(c) :
       IF SameLanguage(The(c.rows), p)
       THEN /\ projects' = (projects \ {p}) \cup {Renamed(c, p)}
            /\ answers' = answers \cup Answered(c.rows, {Renamed(c, p)})
            /\ Leave(s)
       ELSE Leave(s) /\ UNCHANGED <<projects, answers>>

BeginGet(s, c) ==
    /\ c.op \in {"get_or_create", "update_or_create"}
    /\ sessions[s] = None
    /\ Prevalidated(The(c.rows))
    /\ IF Found(c) = {} THEN Enter(s, c, "create") /\ UNCHANGED <<projects, answers>>
       ELSE Get(s, c)

BeginCreate(s, c) ==
    /\ c.op = "create"
    /\ sessions[s] = None
    /\ Enter(s, c, "create")
    /\ UNCHANGED <<projects, answers>>

\* save of new rows: a row with the UUID would be an update, every other one with
\* the UUID or the code is refused, and a row without a language as well.
Check(s) ==
    /\ sessions[s] # None /\ sessions[s].step = "create"
    /\ IF \A r \in sessions[s].call.rows : Insertable(r) /\ Clash(r) = {}
       THEN Enter(s, sessions[s].call, "insert") ELSE Leave(s)
    /\ UNCHANGED <<projects, answers>>

\* Rows of one call are not compared with each other before they are inserted.
Distinct(rs) == \A r, q \in rs : r.id = q.id \/ r.code = q.code => r = q

\* The INSERT; rows that came in between take all of it back.
Insert(s) ==
    LET c == sessions[s].call IN
    /\ sessions[s] # None /\ sessions[s].step = "insert"
    /\ IF Distinct(c.rows) /\ \A r \in c.rows : Clash(r) = {}
       THEN /\ projects' = projects \cup {Stored(r) : r \in c.rows}
            /\ answers' = answers \cup
                  UNION {Answered({r}, {Stored(r)}) : r \in c.rows}
            /\ Leave(s)
       ELSE /\ IF c.op = "create" THEN Leave(s) ELSE Enter(s, c, "again")
            /\ UNCHANGED <<projects, answers>>

\* Whoever lost the INSERT looks again.
Again(s) ==
    /\ sessions[s] # None /\ sessions[s].step = "again"
    /\ IF Found(sessions[s].call) = {} THEN Leave(s) /\ UNCHANGED <<projects, answers>>
       ELSE Get(s, sessions[s].call)

\* An instance is loaded and changed; its language may be among what is changed.
Load(s, c) ==
    /\ c.op = "save"
    /\ sessions[s] = None
    /\ Found(c) # {}
    /\ Enter(s, c, "loaded")
    /\ UNCHANGED <<projects, answers>>

\* The language of an instance is compared with the one that is stored.
Persisted(r) ==
    \E p \in projects :
       /\ p.id = r.id
       /\ r.tag # None /\ Canonical(r.tag) = p.tag /\ r.assignment = p.assignment

Save(s) ==
    LET r == The(sessions[s].call.rows) IN
    /\ sessions[s] # None /\ sessions[s].step = "loaded"
    /\ IF Persisted(r) /\ \A p \in Clash(r) : p.id = r.id
       THEN Enter(s, sessions[s].call, "write") ELSE Leave(s)
    /\ UNCHANGED <<projects, answers>>

\* The UPDATE writes every column, the language too.
Write(s) ==
    LET r == The(sessions[s].call.rows) IN
    /\ sessions[s] # None /\ sessions[s].step = "write"
    /\ projects' = IF \A p \in Clash(r) : p.id = r.id
                   THEN {p \in projects : p.id # r.id} \cup {[r EXCEPT !.tag = Canonical(r.tag)]}
                   ELSE projects
    /\ Leave(s)
    /\ UNCHANGED answers

\* update and bulk_update, which refuse the columns of the language.
Update(p, name) ==
    /\ p \in projects
    /\ projects' = (projects \ {p}) \cup {[p EXCEPT !.name = name]}
    /\ UNCHANGED <<sessions, answers>>

LanguageInit ==
    /\ projects = {}
    /\ sessions = [s \in Session |-> None]
    /\ answers = {}

LanguageNext ==
    \/ \E s \in Session :
          \/ \E c \in Call : BeginGet(s, c) \/ BeginCreate(s, c) \/ Load(s, c)
          \/ Check(s)
          \/ Insert(s)
          \/ Again(s)
          \/ Save(s)
          \/ Write(s)
    \/ \E p \in projects, name \in ProjectName : Update(p, name)

-----------------------------------------------------------------------------
(* Properties.                                                             *)

\* Whoever asked for a Project and a language was given a Project of that
\* language, and it still has it, whatever raced for its UUID or its code.
AnswersHold ==
    \A a \in answers :
       /\ a.asked.tag # None => Canonical(a.asked.tag) = a.got.tag
       /\ \E p \in projects : p.id = a.got.id /\ p.tag = a.got.tag /\ p.assignment = a.got.assignment
=============================================================================
