---------------------------- MODULE StudioClient ----------------------------
(***************************************************************************)
(* The browser pages of Production Studio over the Foundation rows: what a *)
(* HUMAN is told of a write when requests and responses get lost, arrive   *)
(* late, or cross each other and the edits of other people.                *)
(*                                                                         *)
(* Three kinds of pages.  The entry page submits the first-project         *)
(* bootstrap; the editor (C1) keeps a proposal in memory and saves it; the *)
(* publisher's desk (C2A) seals one attempt after two fresh reads, has its *)
(* recovery ticket retained, sends it, and reconciles an unknown outcome.  *)
(* A page runs on one event loop: a handler runs to its next await, and    *)
(* then any other handler may run.                                         *)
(*                                                                         *)
(* The server is DefinitionLifecycle, one step per request it serves; its  *)
(* transactions are the subject of StudioGateway.  Left out: rendering,    *)
(* layout, Help frames and what the claim contract displays.               *)
(***************************************************************************)
EXTENDS DefinitionLifecycle

CONSTANTS
    Entry, Editor, Publisher,  \* the open tabs of each kind
    PageOf,                    \* Editor and Publisher tabs -> their definition
    PoolOf                     \* tabs -> the random UUIDv4 keys they may draw

Tab == Entry \cup Editor \cup Publisher
Mine(t) == {r \in Request : r.key \in PoolOf[t]}
Elsewhere == {r \in Request : \A t \in Tab : r.key \notin PoolOf[t]}

\* What the server answers: a receipt of a fresh or of an earlier commit, or a
\* refusal: typed, or 401/403/404 without looking at the operation.
Answer == {"COMMITTED", "RECONCILED", "REFUSED"}
Successful == {"COMMITTED", "RECONCILED"}

ASSUME TabAssumption ==
    /\ Entry \cap Editor = {} /\ Entry \cap Publisher = {} /\ Editor \cap Publisher = {}
    /\ PageOf \in [Editor \cup Publisher -> Definition]
    /\ PoolOf \in [Tab -> SUBSET Key]
    /\ \A s, t \in Tab : s # t => PoolOf[s] \cap PoolOf[t] = {}
    /\ None \notin Request /\ None \notin Answer

VARIABLES
    page,     \* Entry, Editor -> the memory object of audited_draft.js
    desk,     \* Publisher -> the memory object of lifecycle_publication.js
    call,     \* Request -> stage of the async call that carries it
    reply,    \* Request -> the response under way to that call, or None
    orphans,  \* requests under way whose caller has given up
    tickets,  \* recovery tickets that a HUMAN has retained
    verdict,  \* history: Request -> what the HUMAN was last told of it
    doubted   \* history: requests whose outcome was unknown at some time

clientvars == <<page, desk, call, reply, orphans, tickets, verdict, doubted>>
allvars == <<dbvars, clientvars>>

PageRecord ==
    [base : Manifest \cup {None}, draft : Manifest \cup {None}, editable : BOOLEAN,
     dirty : BOOLEAN, busy : BOOLEAN, unresolved : Request \cup {None},
     preview : {"none", "hashing", "sent"}]

NextAction == {"NONE", "PREVIEW_OR_INITIAL_PUBLISH", "VALIDATE", "SUCCESSOR_PUBLISH"}

\* FD03 and FD07 as the desk keeps them.
Snapshot == [row : DefinitionRow, next : NextAction, current : SUBSET Definition,
             published : Nat]

\* seen: the snapshot shown; row: what the first of two reads returned; reading:
\* what the two reads are made for; ticket: the one being imported.
DeskRecord ==
    [seen : Snapshot \cup {None}, action : PublicationOp \cup {"VALIDATE_DEFINITION", "NONE"},
     row : DefinitionRow \cup {None},
     reading : {"none", "refresh", "prepare", "import", "result"},
     ticket : Request \cup {None}, sealed : Request \cup {None},
     retained : BOOLEAN, unknown : BOOLEAN, busy : BOOLEAN]

Blank == [base |-> None, draft |-> None, editable |-> FALSE, dirty |-> FALSE,
          busy |-> FALSE, unresolved |-> None, preview |-> "none"]
Cleared == [seen |-> None, action |-> "NONE", row |-> None, reading |-> "none",
            ticket |-> None, sealed |-> None, retained |-> FALSE, unknown |-> FALSE,
            busy |-> FALSE]

ClientTypeOK ==
    /\ TypeOK
    /\ page \in [Entry \cup Editor -> PageRecord]
    /\ desk \in [Publisher -> DeskRecord]
    /\ \A t \in Publisher :
          /\ desk[t].reading # "none" => desk[t].busy /\ desk[t].sealed = None
          /\ desk[t].reading = "import" => desk[t].ticket # None
          /\ desk[t].retained \/ desk[t].unknown => desk[t].sealed # None
    /\ call \in [Request -> {"unused", "drawn", "sent", "resent", "done"}]
    /\ reply \in [Request -> Answer \cup {None}]
    /\ orphans \subseteq Request /\ tickets \subseteq Request /\ doubted \subseteq Request
    /\ verdict \in [Request -> {"none", "committed", "refused"}]

ClientInit ==
    /\ LifecycleInit
    /\ page = [t \in Entry \cup Editor |-> Blank]
    /\ desk = [t \in Publisher |-> Cleared]
    /\ call = [r \in Request |-> "unused"]
    /\ reply = [r \in Request |-> None]
    /\ orphans = {} /\ tickets = {} /\ doubted = {}
    /\ verdict = [r \in Request |-> "none"]

-----------------------------------------------------------------------------
(* The network and the server.                                             *)

OnWire(r) == call[r] \in {"sent", "resent"} /\ reply[r] = None
Committed(r) == r \in BoundRequests(r)
DrawsFresh(r) == \A q \in Request : q.key = r.key => call[q] = "unused"

\* A session may expire, or a scope be withdrawn, at any time: granted is free.
ServerAnswer(r, granted) ==
    CASE granted /\ Resolves(r) /\ Committed(r) -> "RECONCILED"
      [] granted /\ Allowed(r) -> "COMMITTED"
      [] OTHER -> "REFUSED"

\* Mutant: a bound insertion runs again.
ServerStepAgain(r, granted) ==
    IF ServerAnswer(r, granted) = "COMMITTED" THEN Operation(r)
    ELSE IF ServerAnswer(r, granted) = "RECONCILED" /\ r.op = "BOOTSTRAP_DRAFT"
    THEN HumanWrite(r, AfterRow(r))
    ELSE UNCHANGED dbvars

ServerStep(r, granted) ==
    IF ServerAnswer(r, granted) = "COMMITTED" THEN Operation(r) ELSE UNCHANGED dbvars

Serve(r, granted) ==
    /\ OnWire(r)
    /\ ServerStep(r, granted)
    /\ reply' = [reply EXCEPT ![r] = ServerAnswer(r, granted)]
    /\ UNCHANGED <<page, desk, call, orphans, tickets, verdict, doubted>>

\* The caller is gone; the request still arrives, or never does.
ServeOrphan(r, granted) ==
    /\ r \in orphans
    /\ ServerStep(r, granted)
    /\ orphans' = orphans \ {r}
    /\ UNCHANGED <<page, desk, call, reply, tickets, verdict, doubted>>

\* Another principal, another device.
ElsewhereStep(r) == Operation(r) /\ UNCHANGED clientvars

\* The calls rs end without a response that anybody reads: what of them is still
\* on the wire may arrive later.
Abandon(rs) ==
    /\ call' = [r \in Request |-> IF r \in rs THEN "done" ELSE call[r]]
    /\ reply' = [r \in Request |-> IF r \in rs THEN None ELSE reply[r]]
    /\ orphans' = orphans \cup {r \in rs : OnWire(r)}
    /\ doubted' = doubted \cup {r \in rs : call[r] \in {"sent", "resent"}}

-----------------------------------------------------------------------------
(* Entry page and editor.                                                  *)

\* openDefinition: a verified response replaces the proposal.
OpenDefinition(t) ==
    /\ page[t].base = None
    /\ Exists(PageOf[t])
    /\ page' = [page EXCEPT ![t].base = definitions[PageOf[t]].manifest,
                            ![t].draft = definitions[PageOf[t]].manifest,
                            ![t].editable = definitions[PageOf[t]].status = "DRAFT"]
    /\ UNCHANGED <<dbvars, desk, call, reply, orphans, tickets, verdict, doubted>>

DefinitionEditable(t) ==
    page[t].editable /\ ~page[t].busy /\ page[t].unresolved = None

Edit(t, m) ==
    /\ DefinitionEditable(t)
    /\ m # page[t].draft
    /\ page' = [page EXCEPT ![t].draft = m, ![t].dirty = TRUE]
    /\ UNCHANGED <<dbvars, desk, call, reply, orphans, tickets, verdict, doubted>>

\* beginSave seals key, body and If-Match, and then awaits a digest: the page
\* is not busy yet.
BeginSave(t, r) ==
    /\ DefinitionEditable(t) /\ page[t].dirty
    /\ r \in Mine(t) /\ DrawsFresh(r)
    /\ r.op = "SAVE_DRAFT" /\ r.target = PageOf[t]
    /\ r.ifMatch = page[t].base /\ r.manifest = page[t].draft
    /\ call' = [call EXCEPT ![r] = "drawn"]
    /\ UNCHANGED <<dbvars, page, desk, reply, orphans, tickets, verdict, doubted>>

\* performSave, first call.
SendSave(t, r) ==
    /\ r \in Mine(t) /\ call[r] = "drawn"
    /\ call' = [call EXCEPT ![r] = "sent"]
    /\ page' = [page EXCEPT ![t].busy = TRUE]
    /\ UNCHANGED <<dbvars, desk, reply, orphans, tickets, verdict, doubted>>

\* The bootstrap form is sealed and sent in one step.
SubmitBootstrap(t, r) ==
    /\ ~page[t].busy /\ page[t].unresolved = None
    /\ r \in Mine(t) /\ DrawsFresh(r) /\ r.op = "BOOTSTRAP_DRAFT"
    /\ call' = [call EXCEPT ![r] = "sent"]
    /\ page' = [page EXCEPT ![t].busy = TRUE]
    /\ UNCHANGED <<dbvars, desk, reply, orphans, tickets, verdict, doubted>>

\* Manual reconciliation: the same sealed attempt again.
Reconcile(t) ==
    /\ ~page[t].busy /\ page[t].unresolved # None
    /\ call' = [call EXCEPT ![page[t].unresolved] = "resent"]
    /\ page' = [page EXCEPT ![t].busy = TRUE]
    /\ UNCHANGED <<dbvars, desk, reply, orphans, tickets, verdict, doubted>>

\* No response, or one of 408, 425, 429, 5xx.
SaveUnknown(t, r) ==
    /\ r \in Mine(t) /\ call[r] \in {"sent", "resent"}
    /\ page' = [page EXCEPT ![t].unresolved = r, ![t].busy = FALSE]
    /\ Abandon({r})
    /\ UNCHANGED <<dbvars, desk, tickets, verdict>>

(***************************************************************************)
(* A 2xx whose receipt is verified against the sealed attempt.  A fresh    *)
(* save brings the stored manifest along and replaces the proposal; a      *)
(* replay carries the receipt alone, and the proposal stays.               *)
(***************************************************************************)
SaveVerified(t, r) ==
    /\ r \in Mine(t) /\ reply[r] \in Successful
    /\ page' = [page EXCEPT ![t].draft = IF reply[r] = "COMMITTED" /\ t \in Editor
                                         THEN r.manifest ELSE @,
                            ![t].base = IF t \in Editor THEN r.manifest ELSE @,
                            ![t].dirty = FALSE, ![t].unresolved = None, ![t].busy = FALSE]
    /\ call' = [call EXCEPT ![r] = "done"]
    /\ reply' = [reply EXCEPT ![r] = None]
    /\ verdict' = [verdict EXCEPT ![r] = "committed"]
    /\ UNCHANGED <<dbvars, desk, orphans, tickets, doubted>>

\* Any other response: a refused reconciliation leaves the attempt unresolved,
\* a refused first call ends it.
SaveRefused(t, r) ==
    /\ r \in Mine(t) /\ reply[r] = "REFUSED"
    /\ page' = [page EXCEPT ![t].unresolved = IF call[r] = "resent" THEN r ELSE None,
                            ![t].busy = FALSE]
    /\ verdict' = [verdict EXCEPT ![r] = IF call[r] = "resent" THEN @ ELSE "refused"]
    /\ call' = [call EXCEPT ![r] = "done"]
    /\ reply' = [reply EXCEPT ![r] = None]
    /\ UNCHANGED <<dbvars, desk, orphans, tickets, doubted>>

\* previewValidation: like a save it awaits a digest before the page is busy;
\* unlike a save it writes nothing and ends with the page not busy.
BeginPreview(t) ==
    /\ DefinitionEditable(t) /\ page[t].preview = "none"
    /\ page' = [page EXCEPT ![t].preview = "hashing"]
    /\ UNCHANGED <<dbvars, desk, call, reply, orphans, tickets, verdict, doubted>>

SendPreview(t) ==
    /\ page[t].preview = "hashing"
    /\ page' = [page EXCEPT ![t].preview = "sent", ![t].busy = TRUE]
    /\ UNCHANGED <<dbvars, desk, call, reply, orphans, tickets, verdict, doubted>>

EndPreview(t) ==
    /\ page[t].preview = "sent"
    /\ page' = [page EXCEPT ![t].preview = "none", ![t].busy = FALSE]
    /\ UNCHANGED <<dbvars, desk, call, reply, orphans, tickets, verdict, doubted>>

\* Reload, close, or navigate: beforeunload only asks.
LeavePage(t) ==
    /\ page[t] # Blank
    /\ page' = [page EXCEPT ![t] = Blank]
    /\ Abandon({r \in Mine(t) : call[r] \in {"drawn", "sent", "resent"}})
    /\ UNCHANGED <<dbvars, desk, tickets, verdict>>

-----------------------------------------------------------------------------
(* The publisher's desk.                                                   *)

\* The one action that the page offers, from a snapshot of two agreeing reads.
ComputeActionKind(shot) ==
    CASE shot.row.status = "DRAFT" /\ shot.next = "PREVIEW_OR_INITIAL_PUBLISH" -> "INITIAL"
      [] shot.row.status = "DRAFT" /\ shot.next = "VALIDATE" -> "VALIDATE_DEFINITION"
      [] shot.row.status = "VALIDATED" /\ shot.next = "SUCCESSOR_PUBLISH" -> "SUCCESSOR"
      [] OTHER -> "NONE"

Idle(t) == ~desk[t].busy /\ desk[t].sealed = None /\ ~desk[t].unknown

BeginRead(t, purpose, ticket) ==
    /\ Idle(t)
    /\ desk' = [desk EXCEPT ![t].busy = TRUE, ![t].reading = purpose, ![t].ticket = ticket]
    /\ UNCHANGED <<dbvars, page, call, reply, orphans, tickets, doubted>>

ManualRefresh(t) == BeginRead(t, "refresh", None) /\ UNCHANGED verdict

PrepareAttempt(t) ==
    desk[t].action # "NONE" /\ BeginRead(t, "prepare", None) /\ UNCHANGED verdict

\* Only validation tickets are restored, in the page that drew them.
ImportValidationTicket(t, r) ==
    /\ r \in tickets \cap Mine(t) /\ r.op = "VALIDATE_DEFINITION" /\ r.target = PageOf[t]
    /\ BeginRead(t, "import", r)
    /\ verdict' = [verdict EXCEPT ![r] = "none"]

\* FD03.
FetchDefinition(t) ==
    /\ desk[t].reading # "none" /\ desk[t].row = None /\ Exists(PageOf[t])
    /\ desk' = [desk EXCEPT ![t].row = definitions[PageOf[t]]]
    /\ UNCHANGED <<dbvars, page, call, reply, orphans, tickets, verdict, doubted>>

\* FD07 must repeat the identity that FD03 returned.
Coherent(t) ==
    /\ desk[t].row # None
    /\ desk[t].row.manifest = definitions[PageOf[t]].manifest
    /\ desk[t].row.status = definitions[PageOf[t]].status

FreshSnapshot(t) ==
    [row |-> desk[t].row, next |-> RequiredNextAction(PageOf[t]),
     current |-> Current(desk[t].row.project),
     published |-> Cardinality(PublicationsOf(desk[t].row.project))]

\* readFreshSnapshot ends with both identities on screen.
Shown(t) ==
    [desk[t] EXCEPT !.seen = FreshSnapshot(t),
                    !.action = ComputeActionKind(FreshSnapshot(t)),
                    !.row = None, !.reading = "none", !.ticket = None, !.busy = FALSE]

Refreshed(t) ==
    /\ desk[t].reading \in {"refresh", "result"} /\ Coherent(t)
    /\ desk' = [desk EXCEPT ![t] = Shown(t)]
    /\ UNCHANGED <<dbvars, page, call, reply, orphans, tickets, verdict, doubted>>

\* The drift check: whatever changed since the snapshot that the HUMAN looked
\* at when pressing the button, nothing is sealed.
Drifted(t) ==
    /\ desk[t].reading = "prepare" /\ Coherent(t)
    /\ FreshSnapshot(t) # desk[t].seen
    /\ desk' = [desk EXCEPT ![t] = Shown(t)]
    /\ UNCHANGED <<dbvars, page, call, reply, orphans, tickets, verdict, doubted>>

SealAttempt(t, r) ==
    /\ desk[t].reading = "prepare" /\ Coherent(t)
    /\ FreshSnapshot(t) = desk[t].seen
    /\ r \in Mine(t) /\ DrawsFresh(r) /\ r.target = PageOf[t]
    /\ r.op = desk[t].action
    /\ r.ifMatch = desk[t].row.manifest
    /\ desk' = [desk EXCEPT ![t] = [Shown(t) EXCEPT !.sealed = r, !.retained = FALSE]]
    /\ call' = [call EXCEPT ![r] = "drawn"]
    /\ UNCHANGED <<dbvars, page, reply, orphans, tickets, verdict, doubted>>

\* A restored ticket still names the manifest and a successor: its outcome is
\* taken to be unknown.
TicketMatches(t) ==
    /\ desk[t].ticket.ifMatch = desk[t].row.manifest
    /\ desk[t].row.supersedes # None

TicketRestored(t) ==
    /\ desk[t].reading = "import" /\ Coherent(t)
    /\ desk' = [desk EXCEPT ![t] =
           IF TicketMatches(t)
           THEN [Shown(t) EXCEPT !.sealed = desk[t].ticket, !.retained = TRUE,
                                 !.unknown = TRUE]
           ELSE Shown(t)]
    /\ doubted' = IF TicketMatches(t) THEN doubted \cup {desk[t].ticket} ELSE doubted
    /\ UNCHANGED <<dbvars, page, call, reply, orphans, tickets, verdict>>

\* Either read fails, or FD07 does not match FD03.
ReadFails(t) ==
    /\ desk[t].reading # "none"
    /\ desk' = [desk EXCEPT
           ![t].seen = IF desk[t].reading = "refresh" THEN None ELSE @,
           ![t].action = IF desk[t].reading \in {"refresh", "result"} THEN "NONE" ELSE @,
           ![t].row = None, ![t].reading = "none", ![t].ticket = None, ![t].busy = FALSE]
    /\ UNCHANGED <<dbvars, page, call, reply, orphans, tickets, verdict, doubted>>

\* downloadTicket or acknowledgeExactCopy.
RetainTicket(t) ==
    /\ ~desk[t].busy /\ desk[t].sealed # None /\ ~desk[t].unknown
    /\ desk' = [desk EXCEPT ![t].retained = TRUE]
    /\ tickets' = tickets \cup {desk[t].sealed}
    /\ UNCHANGED <<dbvars, page, call, reply, orphans, verdict, doubted>>

\* Cancelled, or invalidated by an edit of the publication inputs.
DiscardUnsentAttempt(t) ==
    /\ ~desk[t].busy /\ desk[t].sealed # None /\ ~desk[t].unknown
    /\ desk' = [desk EXCEPT ![t].sealed = None, ![t].retained = FALSE]
    /\ UNCHANGED <<dbvars, page, call, reply, orphans, tickets, verdict, doubted>>

Perform(t, stage) ==
    /\ ~desk[t].busy /\ desk[t].sealed # None
    /\ call' = [call EXCEPT ![desk[t].sealed] = stage]
    /\ desk' = [desk EXCEPT ![t].busy = TRUE]
    /\ UNCHANGED <<dbvars, page, reply, orphans, tickets, verdict, doubted>>

\* Mutant: the POST is not blocked until the ticket is retained.
ExecuteUnretained(t) == ~desk[t].unknown /\ Perform(t, "sent")

ExecuteAttempt(t) == ~desk[t].unknown /\ desk[t].retained /\ Perform(t, "sent")

ReplayValidation(t) ==
    /\ desk[t].unknown
    /\ desk[t].sealed # None /\ desk[t].sealed.op = "VALIDATE_DEFINITION"
    /\ Perform(t, "resent")

Sending(t) == desk[t].busy /\ desk[t].reading = "none" /\ desk[t].sealed # None

\* Mutant: an ambiguous status is taken for a refusal.
AttemptUnknownRefused(t) ==
    /\ Sending(t)
    /\ desk' = [desk EXCEPT ![t].sealed = None, ![t].retained = FALSE,
                            ![t].unknown = FALSE, ![t].busy = FALSE]
    /\ verdict' = [verdict EXCEPT ![desk[t].sealed] = "refused"]
    /\ call' = [call EXCEPT ![desk[t].sealed] = "done"]
    /\ reply' = [reply EXCEPT ![desk[t].sealed] = None]
    /\ UNCHANGED <<dbvars, page, orphans, tickets, doubted>>

\* showUnknownOutcome.
AttemptUnknown(t) ==
    /\ Sending(t)
    /\ desk' = [desk EXCEPT ![t].unknown = TRUE, ![t].busy = FALSE]
    /\ Abandon({desk[t].sealed})
    /\ UNCHANGED <<dbvars, page, tickets, verdict>>

\* A verified receipt ends the attempt; the page then reads afresh.
Resolved(t) == [desk[t] EXCEPT !.sealed = None, !.retained = FALSE, !.unknown = FALSE,
                               !.reading = "result", !.busy = TRUE]

AttemptVerified(t) ==
    /\ Sending(t) /\ reply[desk[t].sealed] \in Successful
    /\ desk' = [desk EXCEPT ![t] = Resolved(t)]
    /\ verdict' = [verdict EXCEPT ![desk[t].sealed] = "committed"]
    /\ call' = [call EXCEPT ![desk[t].sealed] = "done"]
    /\ reply' = [reply EXCEPT ![desk[t].sealed] = None]
    /\ UNCHANGED <<dbvars, page, orphans, tickets, doubted>>

\* handleKnownFailure: of a first call and of a replay alike.
AttemptRefused(t) ==
    /\ Sending(t) /\ reply[desk[t].sealed] = "REFUSED"
    /\ desk' = [desk EXCEPT ![t].sealed = None, ![t].retained = FALSE,
                            ![t].unknown = FALSE, ![t].busy = FALSE]
    /\ verdict' = [verdict EXCEPT ![desk[t].sealed] = "refused"]
    /\ call' = [call EXCEPT ![desk[t].sealed] = "done"]
    /\ reply' = [reply EXCEPT ![desk[t].sealed] = None]
    /\ UNCHANGED <<dbvars, page, orphans, tickets, doubted>>

\* The exact-operation GET.  A receipt settles the outcome; a 404 and an error
\* settle nothing and leave the page as it is.
RecoverPublication(t) ==
    /\ ~desk[t].busy /\ desk[t].unknown /\ desk[t].sealed.op \in PublicationOp
    /\ Committed(desk[t].sealed)
    /\ desk' = [desk EXCEPT ![t] = Resolved(t)]
    /\ verdict' = [verdict EXCEPT ![desk[t].sealed] = "committed"]
    /\ UNCHANGED <<dbvars, page, call, reply, orphans, tickets, doubted>>

LeaveDesk(t) ==
    /\ desk[t] # Cleared
    /\ desk' = [desk EXCEPT ![t] = Cleared]
    /\ Abandon({desk[t].sealed} \cap Request)
    /\ UNCHANGED <<dbvars, page, tickets, verdict>>

-----------------------------------------------------------------------------
ServerNext ==
    \/ \E r \in Request, granted \in BOOLEAN : Serve(r, granted) \/ ServeOrphan(r, granted)
    \/ \E r \in Elsewhere : ElsewhereStep(r)

AuthoringNext ==
    \/ \E t \in Editor :
          \/ OpenDefinition(t) \/ BeginPreview(t) \/ SendPreview(t) \/ EndPreview(t)
          \/ \E m \in Manifest : Edit(t, m)
          \/ \E r \in Request : BeginSave(t, r) \/ SendSave(t, r)
    \/ \E t \in Entry, r \in Request : SubmitBootstrap(t, r)
    \/ \E t \in Entry \cup Editor :
          \/ Reconcile(t) \/ LeavePage(t)
          \/ \E r \in Request : SaveUnknown(t, r) \/ SaveVerified(t, r) \/ SaveRefused(t, r)

DeskNext ==
    \E t \in Publisher :
        \/ ManualRefresh(t) \/ PrepareAttempt(t) \/ FetchDefinition(t) \/ Refreshed(t)
        \/ Drifted(t) \/ TicketRestored(t) \/ ReadFails(t) \/ RetainTicket(t)
        \/ DiscardUnsentAttempt(t) \/ ExecuteAttempt(t) \/ ReplayValidation(t)
        \/ AttemptUnknown(t) \/ AttemptVerified(t) \/ AttemptRefused(t)
        \/ RecoverPublication(t) \/ LeaveDesk(t)
        \/ \E r \in Request : ImportValidationTicket(t, r) \/ SealAttempt(t, r)

ClientNext == ServerNext \/ AuthoringNext \/ DeskNext

ClientSpec == ClientInit /\ [][ClientNext]_allvars

-----------------------------------------------------------------------------
(* Safety.                                                                 *)

\* What a page tells the HUMAN of a write is true, whatever was lost, answered
\* late or sent again: an acknowledged request has its receipt, and a request
\* refused on its only call has none and never will.
TruthfulVerdicts ==
    \A r \in Request :
        /\ verdict[r] = "committed" => Committed(r)
        /\ verdict[r] = "refused" /\ r \notin doubted => ~Committed(r)

\* The hash that an editor sends as If-Match is of bytes that were stored for
\* its definition at some time, never of a proposal that was not.
BaseWasStored ==
    \A t \in Editor : page[t].base # None =>
        \E row \in receipts : /\ row.request.target = PageOf[t]
                               /\ row.after.manifest = page[t].base

\* No write of a desk is under way, or has taken effect, that is not on a ticket
\* in the hands of a HUMAN; and the desk has at most one under way, the sealed one.
TicketsCoverDesks ==
    \A t \in Publisher, r \in Request : r \in Mine(t) =>
        /\ OnWire(r) \/ r \in orphans \/ Committed(r) => r \in tickets
        /\ call[r] \in {"sent", "resent"} => desk[t].sealed = r

\* What pages send is accounted for: the editor's against bytes that were stored,
\* the desk's on a ticket.
WritesAreCovered == BaseWasStored /\ TicketsCoverDesks

\* Whatever pages, networks and other people do, the rows only ever take steps of
\* the lifecycle: all that is proved of it holds under its clients.
ServesLifecycle == LifecycleSpec

\* Said of the editor: changes exist only in tab memory until an explicit save.
\* A proposal that the page calls clean is the one that is stored.
CleanMeansSaved ==
    \A t \in Editor :
        page[t].base # None /\ ~page[t].dirty => page[t].draft = page[t].base
=============================================================================
