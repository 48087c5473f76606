# Conflict Foundation: a verification development

This directory specifies the stateful core of the Foundation (`src/software/conflict_analysis`) in
TLA+: the lifecycle of typed project definitions, the HTTP gateways that run it as concurrent
PostgreSQL transactions and the browser pages that write through them; package imports; the Player's
workspaces, experiments and calculations; document lineage, evidence import and the polarization
envelope; the language of a Project and the legacy packages that carry it; the tables, their migrations and the
guards of what is stored. TLC checks the specifications on small instances, and TLAPS proves the theorems for every
value of the constants.

## 1. The system

The program is a Django application with a few browser clients. It edits *project definitions*
(typed manifests), validates and publishes them, pins *workspaces* to published definitions, and
lets Players enter assessments in *experiments* of these workspaces and calculate with them.

| Component | State | Operations | Interacts with |
| --- | --- | --- | --- |
| **Definition lifecycle** (`domain/services/project_definitions.py`, `domain/policies.py`, `domain/models.py`) | rows of Project, ProjectDefinitionVersion, ProjectPublication, ProjectWorkspace, AuditEvent | bootstrap, create, clone, save, validate; initial and successor publication; readiness snapshot | called by the gateway in one transaction per request; read by Player, evidence and packages |
| **Studio gateway** (`domain/api/studio_definitions.py`) | one request and one transaction per worker; nothing in memory between requests | admit, lock, look the operation key up, check, insert, commit, roll back and classify, answer | browser clients over HTTP; PostgreSQL row locks and unique indexes |
| **Browser clients** (`production_studio/static`, `production_player/static`) | a proposal in memory; one sealed attempt per page; tickets kept by the HUMAN | edit, save, seal, send, reconcile, reload, import a ticket | the gateways, over a network that loses and delays calls |
| **Foundation packages** (`foundation_packages.py`) | rows of both imports, receipts of attempts | preview, commit, receipt of a refusal; exports | the lifecycle (2.1: a definition), the workspace's evidence (2.0) |
| **Project languages and legacy packages** (`models.py`: `Project`, `ProjectQuerySet`; `language_tags.py`, `project_packages.py`, `seed.py`) | rows of Project and of the legacy graph | save, create, get_or_create, update_or_create; import, upgrade, export; the seed | every writer of a Project; files that leave and come back |
| **Player workspaces and projection** (`player_workspaces.py`, `player_projection.py`, `api/player.py`) | derived workspaces, projected rows, time slices, Player Help bindings | create a workspace or slice, project a first workspace, provision Help, verify a projection | reads publications and pins; shares operation UUIDs with Studio |
| **Player experiments and import** (`player_experiments.py`, `xlsx_adapter.py`, `xlsx_import_profiles.py`) | expert profiles, experiments, assessments, values, import runs | create, edit, enter and correct a value, freeze, archive, import a workbook | Player workspaces; operation UUIDs |
| **Run receipts and replay** (`player_integration/`) | receipts and their artifacts | capture, calculate, record, replay | the values; operation UUIDs |
| **Scenario modelling** (`scenario_modeling/`) | a working copy, carried by the page as a signed form token | override, undo, reset, recalculate, record | run artifacts |
| **Calculation engine** (`calculation/`) | none | classify rows, aggregate, bound what is missing or disputed, compare with a scenario | run receipts; scenario modelling |
| **Document lineage and evidence** (`document_lineage.py`, `evidence_drilldown.py`, `evidence_access.py`) | document versions, sentences, alignments, fragments, facts, evidence | ingest, edit, realign, quote, drill down, filter | workspaces; package imports |
| **Help topics** (`studio_help_catalog.py`, `player_help_catalog.py`, `help_topics.py`) | topics and bindings | provision a catalog, bind topics | publication; Player bootstrap |
| **Migrations, deletion and storage guards** (`domain/migrations/`, the references and delete guards of `models.py`) | the schema, the triggers, and a row or none of each table | migrate forward and back, delete, write past the models | every other component's rows |
| **Runtime, admin, verifiers, scientific records** | configuration, data | none of the domain | |

### What is hard in it

- A transaction locks its Project row first, which serializes a project. Several kinds of identity
  are *global* all the same: definition, workspace and Help binding UUIDs, and the operation UUID,
  which is the primary key of the audit event of every contract. Transactions of two projects meet
  only at the INSERT, and operations of two contracts only at the key.
- A bootstrap has no Project row to lock.
- When a transaction fails, the code looks the key up and explains the failure in autocommit,
  after the lock is gone.
- Clients retry: the same request may run twice at once, or again after its answer was lost; a page
  is left and opened again while its calls are still under way.
- A handler in the browser seals bytes, awaits a digest, and sends: the proposal may change in between.
- If-Match tokens are hashes of content, not versions: a draft edited back has its old token.
- Readiness is computed by one query and decided by other code.
- An import is previewed without a lock, committed under one, and receipted by a third transaction;
  lanes are frozen, rows appear and drafts change in between.
- Everything but drafts is append-only. What is *current* (the head of a publication chain, the
  current value of a cell, the current assessment of a target) is derived from successor links, and
  must stay unambiguous after any mix of operations.
- The Player decides whether a workspace is intact by counting rows and receipts that Studio, a
  package or another Player wrote.
- Who refuses to delete history is a model, but a delete collects what follows its row without asking the model of that.
  What makes a row canonical, and a value explained, is guarded by models, by triggers, and by migrations that come and go.
- Which original stands behind a quotation is proved again by the reader from stored rows.
- A manifest is checked as JSON when it is published, and again, by other rules, as columns and constraints when a
  workspace is made from it; and what a column gives back is compared with what the manifest said.
- The ends of an envelope are computed by closed formulae for a space of completions that is too
  large to enumerate.

PROJECT.json lists these hazards at their lines, with the properties that watch them.

### What makes each component correct

- *Lifecycle*: each project's publications are one line with one head; pins and published bytes
  never change; nobody validates or publishes bytes they did not name; a key has one intent.
- *Gateway*: what is committed is a serial history; a request takes effect once; success is told
  only of committed requests; a final refusal is never overturned; lost races are explained;
  nobody waits for ever.
- *Clients*: what a page tells the HUMAN of a write is true, and what it is about to write can be
  recovered after the page is gone.
- *Packages*: a receipt says what happened; a package is all there or not at all; frozen lanes take
  nothing.
- *Player*: every workspace is provably projected from the published bytes it pins, and none is ever
  shut by what happens around it; one current value per cell; closed experiments and entered values
  never change; whatever was entered can be calculated, and replays equal their receipts.
- *Languages and legacy packages*: a Project keeps the language it was given first; whoever names another is told so; what
  was imported comes back as it came, and what was exported can be imported.
- *Documents and evidence*: a reader is shown only originals an author declared for that text; a
  confirmed row is backed by a stored document; links are honest about the cutoff.
- *Calculation*: an envelope is that of all completions, and a direction given as certain is.
- *Storage*: no delete and no migration loses history; canonical rows never change, whoever writes; a value stays explained
  when what explains it is changed.

## 2. The modules

| Module | What it is |
| --- | --- |
| `ManifestValidation` | the content of a manifest, and the passes of FD01 over it: what a draft may contain and what can be published |
| `ManifestProjection` | extends the lifecycle with what is made of that content: projected rows, what the tables take of them, their receipt and verification, the cells they open, 2.0 rows beside them, and 2.2 packages |
| `PublishedSnapshots` | what readers are promised: snapshots written once, one head per project that moves along parents, pins that never move |
| `DefinitionLifecycle` | the rows and the seven operations, each one atomic step; the readiness snapshot; the refinement of `PublishedSnapshots` |
| `StudioGateway` | extends it with workers, locks, unique inserts, commit, rollback, classification, crash and retry; `Serializable` says it implements `LifecycleSpec` |
| `StudioClient` | extends the lifecycle with the entry page, the editor, the publication desk and a network that loses, delays and repeats calls; `ServesLifecycle` says it implements `LifecycleSpec` |
| `DefinitionImport` | extends the lifecycle with 2.1 package imports of a definition, each attempt taken apart into its transactions |
| `PlayerWorkspaces` | extends that with derived workspaces, projections, slices, Player Help and their receipts: Studio, packages and the Player over the same rows |
| `AssessmentLedger` | what the Player promises of an experiment: a map from cells to current values, a past that only grows, closed means closed |
| `PlayerExperiments` | expert profiles, experiments, manual values, corrections and the XLSX import, each one atomic step; the refinement of `AssessmentLedger` |
| `CalculationRuns` | extends it with baseline runs, replays and scenarios over the values |
| `EvidenceImport` | 2.0 package imports of lanes, assessments, facts and documents next to the Player |
| `LanguageTags` | language tags as sequences of subtags: the hand-written parser and casing, the grammar of RFC 5646 as its reference, and somebody who types any tag (`typed`) |
| `ProjectLanguages` | rows of Project with their language, and callers that create, look up, load and save them |
| `ProjectPackages` | extends it with the legacy tables, packages 1.0 and 1.1, importers, exports, services and the seed |
| `DocumentLineage` | captured documents, translations, alignments and quotations, and the drilldown that proves them again |
| `PolarizationEnvelope` | version 1.1 of the index as pure operators, against all completions, and offline scenarios on it |
| `DomainTables` | the tables of the domain with what each refers to, deletion with its cascades, and who refuses it |
| `SchemaMigrations` | extends it with the 22 migrations in both directions, the schemas and constraints between them, and a program that writes and deletes rows on the last |
| `ProjectionGuards` | rows of a projection, the pin of a workspace and its audit, under the triggers of each generation, for direct SQL, the models, the service and the migrations |
| `ValueGuards` | values and what explains them, under triggers that answer true, false or null and see what is committed, for direct SQL, the models and a migration that overlap |
| `MC...` | request sets and small instances for TLC |
| `...Proofs` | the theorems about the module of that name; `ExperimentsProofs` those about `PlayerExperiments` and `CalculationRuns`, `PlayerWorkspacesProofs` also those about `DefinitionImport`, `EvidenceBaseProofs` those about `DocumentLineage`, `EvidenceImport` and the three modules of the database |

### Correspondence: lifecycle and gateway

A **request** is one HTTP intent. Apart from its key it holds what the request hash covers, so that
two requests have the same identity exactly when they are equal records. `EnvelopeAdmitted` is the
admission of the routes. A **manifest** stands for its exact canonical bytes and is its own hash and
ETag: the models assume that SHA-256 does not collide. `ValidManifest` stands for the verdict of the
FD01 policy (which also depends on the Studio help catalog, fixed here). Capabilities are constant, and
all granted except at the package route; *scope*, which administrators change while the system runs, is a variable of the gateway.

`Refusal(r)` takes the checks of each operation in the code's order, with its conflict codes;
`AfterRow(r)` is the row it would write; `HumanWrite` and `Publish` are the writes, the receipt
included. The lifecycle's action for an operation is `Allowed` (resolved, key free, no refusal)
and then the write: validation *and* publication are one step for `INITIAL`, as in
`bootstrap_initial_project_definition`.

The gateway takes the same operators apart:

| Phase | Code |
| --- | --- |
| `Admit` | the route: resolve the row, scope, envelope, all without a lock; a bootstrap already looks its key up |
| `Lock` | `SELECT ... FOR UPDATE` of the Project (of the user's row for a bootstrap), and the key lookup under it |
| `Check` | staleness, identity and lifecycle checks on the locked rows, in one step: no other worker can write these rows |
| `InsertProject`, `Mutate`, `Record` | the INSERTs with a global unique key; each waits for an uncommitted equal key of another transaction and fails on a committed one |
| `Commit` | the rows become visible and the locks are freed |
| `Classify` | after a rollback, without a lock: bootstrap scope again, the key again, then which identity is taken |
| `Answer`, `Crash` | the response leaves, or the worker is lost at any point; the client may send the request again in both cases |

Two steps of the code are merged where no other step can tell: the key lookup follows the lock in
one action (receipts are immutable, and a write's key conflict, raised in the transaction, is found
again by `Classify` in the code), and row locks of definitions are left out because every writer of a
project's definitions holds its Project row. `UPDATE`s that the Project lock protects are written
at `Commit`: READ COMMITTED readers see them only then.

PostgreSQL, which is not in the repository, is modelled from how the code relies on it: row locks
end with their transaction, a broken connection rolls back, and an INSERT waits at a unique index.
These definitions are marked external in PROJECT.json.

### Correspondence: browser pages

`StudioClient` models `audited_draft.js` (entry page and editor) and `lifecycle_publication.js` (the
publication desk). A page runs on one event loop: an action is a handler up to its next `await`, so that
`BeginSave` (seal the body) and `SendSave` (after its digest) are two actions, and an `Edit` may come
between them. `verdict[r]` is what the page has told of a request; `call[r]` where its call is (unused, drawn, sent,
sent again, done); `orphans` are calls that a page left behind, which the server may serve at any later time;
`doubted` the requests whose outcome was unknown at some point. The desk seals one attempt after two fresh
reads, has its recovery ticket retained before it sends (`tickets`), and reconciles an unknown outcome with the same key
and bytes. The server takes one step of the lifecycle per request it serves: its own concurrency is
the subject of `StudioGateway`. A ticket is imported by the kind of page that drew it. `Serve` and
`ServeOrphan` have a parameter for whether scope was granted when the call arrived.

### Correspondence: packages, workspaces, projections

`DefinitionImport` models `commit_foundation_package_2_1` and its route: the route reads a plan and derives from it what
the SERVICE principal may do, the service plans for the preview, the commit locks the Project, plans a third time and
writes, and an attempt that did not commit appends a receipt after its rollback. Each is an action, and
a crash may come between any two. A package stands for its canonical payload, so that it is its checksum.
Two principals act. The HUMAN at the route must hold `HumanCapabilities` of the plan read there: DRAFT_CREATE for a draft, DEFINITION_VALIDATE
and DEFINITION_PUBLISH for a bootstrap. No HUMAN holds all three, since permissions across both roles are denied altogether (`RoleAssumption`).
The SERVICE principal gets `ServiceCapabilities`, which for a bootstrap include DRAFT_CREATE.

`PlayerWorkspaces` adds the Player's operations, each one step under the Project, Definition and Workspace
locks. `Verify(w)` is `verify_workspace_projection`: it recomputes the projection from the pinned bytes
and counts receipts. `Topology` is `_require_topology`. `CreateWorkspace` writes the workspace, all projected rows, Help
bindings and the receipt, `CreateTimeSlice` a slice of a proven workspace. A first workspace, which Studio or a package makes, is projected later by
the standalone command (`MaterializeStandalone`). Initial workspaces get Player Help only when `ProvisionHelp` runs after them.
The Studio Help bindings of a first workspace take their UUIDs from the manifest (`BindingsOf`), so that a second
project published from the same manifest is refused (`OperationWithBindings`).

### Correspondence: the content of manifests

`ManifestValidation` has one operator per pass of `validate_project_definition_manifest_v1`, with the diagnostics it may report.
A manifest is a record of its sections; a UUID is what it identifies and whether its text is canonical, because ids are
compared as texts by FD01 and as UUIDs by the tables; a text is empty, blank, too long for its column or neither; a decimal
string is its sign, its size and whether it fits a column of twelve digits and eight decimals. The schema is modelled where
another pass or a table looks at the same field; what it says of other fields is in `shape`. Paths and messages of diagnostics
are left out.

`ManifestProjection` composes this with the lifecycle (`StoredFor`: drafts are parsed before they are stored; `ValidManifest` is now
`Valid`). `ExpectedItems` and `ExpectedParameters` are `_expected_projection`, `ActualItems` is what `_actual_projection` reads back,
`Verification` the verdict of `verify_workspace_assessment_projection`. `RowTaken`, `ParameterTaken`, `Collide` and `ReferencesKept` are what `full_clean` and the
constraints of Actor, AnalyticalElement, ActorElementRole and ParameterDefinition refuse, and `Materialize` writes the rows, the status
and the receipt, which is one transaction. `TargetAdmitted` and `AssessmentAdmitted` are `_validate_canonical_parameter_target`. Creation of a workspace is here reduced to
its projection: `PlayerWorkspaces` has its other checks. `Sealed` is the validation of a 2.2 package on its own, `Reconciles` its
comparison with a workspace, which writes nothing.

### Correspondence: experiments and calculations

`PlayerExperiments` models `services/player_experiments.py` with every operation as one step. That is
what the Project lock gives: each operation admits without a lock, then locks the Project row and reads again
all that it decides on; the admission's only lasting result is that rows exist, and rows are never
deleted. The models (`ActorElementAssessment`, `ParameterValue`, `ExpertProfile`) refuse updates and deletes.

| Model | Code |
| --- | --- |
| `Admitted` | scope of the user, `_experiment_scope`, and the predecessor named by a correction |
| `FindsReceipt`, `KeyOutcome` | `_existing_receipt` (by project, workspace and contract) and `existing_result` of an import; both bind the actor and the hash of the whole request |
| `ProfileRefusal` ... `ImportRefusal` | the checks of each operation in order |
| `RefusedByModel` | `clean` and the unique constraints, met at an INSERT: the route answers 503 `PLAYER_OPERATION_FAILED`, as it does when the AuditEvent's key is taken under another contract |
| `NewAssessment`, `NeedsVersion`, `AttachedTo` | the assessment of a target: made by its first value, succeeded by a version that patches one parameter, or kept when a correction changes neither category nor status |
| `ImportedAssessment`, `ImportWorkbook` | one assessment per target and one value per row of the workbook, the ImportRun and the AuditEvent, together |

Data is abstracted to what the properties tell apart: a *target* is an actor, element and time slice
that are mapped and applicable; a value is its status (a number or none); a label stands for all words of
an experiment; a workbook is its mapped rows (the empty set if it has diagnostics), and a ticket that does not
match its preview is left out, being refused before anything is read; a new row's UUID is taken from the operation key that
inserts it, as the import does and as the Player's own client does by drawing both afresh; codes and AssessmentSet UUIDs
follow the experiment's. An etag is the content it hashes. `ExperimentRow` has no `ACTIVE`, a
status no service sets.

`CalculationRuns` adds `calculate_and_record_experiment` and the scenario pages. `Capture` is
`capture_snapshot`: the current value of each cell and the current assessment of each target, refused where the rows are
`Ambiguous`. A run is one step under the Project lock; its receipt carries the artifact from which a retry is
answered. A scenario takes no lock, but all it reads is immutable and its key is decided by one INSERT, which is looked
up again when it fails; so it is one step too. A working copy travels in the page as a signed token, hence `pages`
only grows: any page ever shown may be submitted again. Numbers are abstract: `None` among the overrides is the
baseline's own number. Weights are assumed to be of the topology; age (8 hours), owner and size limits of a token only
make a page useless. An operation of `PlayerExperiments` under a UUID that a receipt has does nothing (it is
answered 503 or key reuse). The code lets frozen and archived experiments be calculated, and so does the model.

### Correspondence: evidence, documents, envelope

`EvidenceImport` models `preview_foundation_package`, `commit_foundation_package` and the receipts of `foundation_packages.py` for 2.0
packages. `Valid` is a package on its own (`_validate_semantics`), `NoConflict` and `LaneSelected` a package
against the stored rows, `Clean` what the models' own `clean` still refuses at the INSERT. Rows are known by name and content; a pair of a fact and a document, or of an assessment and a fact, is known by one
name. `learned_on` is taken as absent, retrospective statuses are one value, and lanes carry the G8 contract. The Player's
steps are the ones that matter to an import: creating, freezing and archiving a lane, and assessments of its own.

`DocumentLineage` models the commands of `document_lineage.py`, legacy and fragment rows that a package imports, and
`evidence_drilldown.py` as `Aligned`, `Quoted` and `OriginalSentences`. A text is a model value with its length, its sentences are
ranges. `declared` is a history variable: what authors submitted. No service writes a second version of a document, and
hashes are not modelled, because no stored row is updated.

`PolarizationEnvelope` models `strategy_v1_1.py`: classes of rows, the lower end by Dinkelbach's method
(`LowerFrom`), the upper end from corners and crossings, the evaluation budget and the outer bound used when it is spent, the
mean over an area, and the direction of an offline scenario. An input is the set of numbers it may be: one if
known, several if disputed, none if missing. A ratio is a pair of integers, compared exactly. The reference definition,
`Completed`, enumerates completions on a grid that contains every corner and crossing, and `PolarizationV1` is version 1.0.
Version 1.1 is used offline only.

### Correspondence: languages and legacy packages

`ProjectLanguages` takes each call of `Project` and `ProjectQuerySet` apart where another transaction may come in between: `Check` is
what `save` and `full_clean` read, `Insert` the INSERT with the unique keys of the table (`Distinct` and `Clash`), `Again` the second look-up
of `get_or_create`; `Load`, `Save` and `Write` are an instance that is loaded, compared with the stored language, and written. A look-up of
`get_or_create` leaves the language out (`Found`) and compares it afterwards (`SameLanguage`). `answers` is a history of what callers asked for and got.

`ProjectPackages` has one record per row, with its section and the fields that some check reads. `Valid` is
`_validate_and_normalize_package` section by section; `Clean`, `Resolved`, `DistinctInTables` and `CompanionsFit` are what the models'
own `full_clean`, the foreign keys and the unique constraints ask; `Free` and `Taken` the identities that are taken. An import is
`CheckImport` (read, validate, compare) and `WriteImport` (all rows and their `Companions`, or none). `Payload` is
`_payload_for_project`, `InScope` its choice between a legacy and a typed workspace. `Seed` is the demonstration Project's first run and
every later one.

### Correspondence: the database

`DomainTables` has one operator per table, the references of its model: what they point to, whether they follow it (`CASCADE`), hold it
(`RESTRICT`) or forget it (`SET_NULL`), and whether they may be empty. One row stands for the rows of a table, and is the set of the references it fills and of
what else is told apart about it. `Collected` is Django's collector, `Restricted` its `RestrictedError`. `SetRefuses` is what the `delete` of
a model's queryset refuses, `RowRefuses` adds what only the `delete` of an instance refuses; neither is asked for rows that are collected.

`SchemaMigrations` builds the schema of each level as the migrations do, from the one before (`Altered`). Where a migration moves data
(0002, 0006, 0014, 0016, 0017) it has an operator for each direction; `Fits` is what a level's columns, keys and constraints ask of the
rows; `Refused` is what a migration refuses to undo. `Write` is the program as it is now, on the last level only: the repository does not have the programs that
wrote on the levels between, so a database on one of these levels has rows of the first level, or rows written on the last one that went back.

`ProjectionGuards` models the triggers of 0018, 0019, 0021 and 0022: `RowEnters`, `RowChanges`, `RowLeaves`, `WorkspaceChanges`, `EventsLeave`. Its actions are
whoever meets them: SQL on any row, the querysets and instances of the models, the projection service under its lease, and the migrations, of which
the reverse of 0018 takes columns and triggers together. `LeaseOpens`: on PostgreSQL a lease of the program as it is opens the triggers of 0022 only.

All these are triggers of rows. `Truncate`, `SqlReplace` and `RecreateWorkspace` are what goes past them: the docstring of 0021 leaves TRUNCATE to a follow-up;
rows that `INSERT OR REPLACE` or `UPDATE OR REPLACE` displaces on SQLite (where `recursive_triggers` is off) fire no delete trigger; the workspace has triggers for updates only.
`bypassed` says that the last step was one of them. `TableOf` tells the four tables apart, since TRUNCATE takes whole ones. Who owns the tables may drop the triggers, and is trusted.

`ValueGuards` models the triggers of 0020. A transaction writes one row. On SQLite it is one step (`AtOnce`). On PostgreSQL, for which the repository sets no isolation level, it is
READ COMMITTED: a statement is checked and holds the lock of its row (`LeaveOpen`), others commit, and it commits or aborts (`CommitOpen`, `AbortOpen`). A trigger sees what is
committed, the foreign key of a value locks its header's key only, and keys are looked up at the end of the transaction; so both may commit although each was checked without the other. `missed` notes for each
open statement the values it was overtaken on; a value is `loose` from the moment its ground may have changed past every check until it is written under one. `SqlRecreate` deletes a header or a definition and inserts
it again, which no trigger looks at. On PostgreSQL `CountValues` and `CompleteInstall` are the look at the rows and the last `CREATE TRIGGER`, between which others write; on SQLite they are one step. A condition in SQL on a category that is not there is null, and neither it nor its negation takes a row: `Explains` is what is
true, `MayExplain` what is not false, and each trigger uses the one its text asks (`ValueEnters` and `HeaderChanges`). `Found` is what the migration asks of values that
are there before it, which differs between the two databases. `ModelAccepts` is `ParameterValue.clean`.

## 3. The runs

| Run | Shows |
| --- | --- |
| `lifecycle` | All orders of 30 requests on two projects, four definitions, two workspaces and two manifests: chains of three publications, rival successors, clones of drafts, edits undone, colliding UUIDs, codes and keys. And a third project that tries 34 manifests, each one change away from a valid one: what is published is projected into its first workspace, a sibling and a workspace of its successor, beside rows of 2.0 packages, and exported. |
| `gateway_races` | Two workers, two projects, two users: races for one Project, definition, operation and workspace UUID, with crashes, retries and a scope that comes and goes. Interleavings are serializable, effects happen once, every lost race is explained. |
| `gateway_edits` | Two workers in one project: edits away and back, validations, clones and rival publications, and two bootstraps, with duplicates in flight and under fairness. No edit is lost, and each admitted request is answered. |
| `client` | An entry page, an editor and a desk, left and opened again at any time, beside other people's writes: what a HUMAN is told is true, and whatever a desk has sent can be recovered from a ticket. |
| `player_workspaces` | Studio, package imports and the Player over the same rows: import receipts, Help bindings, projections and workspaces agree through every order of publication, import, projection and derivation. |
| `experiments` | Three populations of clients. *Values*: one experiment, two targets, two parameters; racing first values, chains of and rival corrections, a correction that names another cell, two workbooks, renames away and back, freezing and archiving at any time, keys used for two intents or by another user. *Identities*: two workspaces, users and experts; profiles made, edited, used and shared; colliding identities, UUIDs and keys; scope that comes and goes. *Runs*: values corrected between runs of two users, retries of a run after the correction, its key used for another request or operation, scenarios reworked from any page. A fourth behaviour has no clients: *envelope*, 280 snapshots of an area of two PTNs with every override of one cell; any two kinds of row (known, missing, disputed, excluded) meet in one PTN. |
| `evidence_base` | Three parts that share no row here: a behaviour moves one of them while the others stay at their start. *Lineage*: four documents from one text of three sentences, translated, edited, edited back, realigned, imported and quoted, with every malformed submission the writer must refuse. *Imports*: two importers and the Player in one workspace: lanes founded, selected, frozen and archived between preview and commit; packages repeated, conflicting, stale, unbacked and dishonest about the cutoff. *Database*: eight databases of the first migration taken to the last and back, with rows written and deleted on the last; rows of two canonical kinds through the last five migrations on both databases, written by everybody, past the triggers too; a value, its header and two definitions changed in any order, by transactions that overlap, with and without triggers and while they come. |
| `archives` | A package with a row of every section and about sixty that differ from it in a row or two, rivals for its identities, packages of the old format, the seed, rows that only services write, and callers who race for its Project; and every language tag of up to four subtags of eleven kinds. |
| `gateway_report`, `client_editor`, `import_default`, `value_rule` | Find the violations of section 6. |

**Properties of the lifecycle.** `PublishedChain` relates publications, statuses, flags and
predecessors; `ReviewedBytes` each row that left DRAFT with the request that moved it;
`ReadinessAgrees` compares two pieces of code, the readiness query and the checks of the publication
path. `ImplementsSnapshots` is the refinement; the run
`player_workspaces` checks it of the lifecycle together with imports. `PinsExact`, `FrozenHistory`,
`KeyBindsOneIntent` and `DeadEndStays` are proved (section 4), and no run repeats them. The last one records a
consequence of the rules that users should know: a first draft that
is validated on its own can never be published, because initial publication validates a DRAFT itself
and a successor needs a predecessor.

**Properties of the projection.** `ProjectableExactly` compares two authorities that were written apart, FD01 and the tables: of a
published manifest nothing can be refused at its projection but what `Representable` names, and that is refused. `ProjectionsReplay` says that
a proven workspace stays proven whatever else is published, projected or imported, that its rows mirror its
manifest code by code, references included (which the code never compares: it compares derived UUIDs and hashes), and that a
2.2 package reconciles with the workspace it came from and no other; its one exception, `NegativeZero`, is a flaw of
the code (section 5). `CellsAreDeclared`: the look-up of a target by UUIDs in shared tables admits a value exactly where the
manifest declares it.

**Properties of the gateway.** `Serializable` (a refinement of `LifecycleSpec`) carries all safety
properties of the lifecycle over to interleaved transactions. `ExactlyOnceEffects` counts commits in
a history variable. `AnswersAreTrue` ties answers to commits: `TruthfulSuccess` those that report success, `FinalRefusals` the refusals
that cannot be undone (identity and key conflicts, statuses that never come back; a stale token is
*not* among them, since a draft can be edited back to it), and `RacesAreClassified` says that no
integrity error reaches a client. `NoLostUpdate` says that bytes are only replaced by a save that named
them; `AdmittedIsAnswered` that a request which is admitted leads to an answer, whatever it waits for: a Project
row, a user row, an uncommitted key.

**Properties of the pages.** `TruthfulVerdicts` relates what the page told the HUMAN to the receipts of the
server: "committed" has its receipt, and "refused" on the only call has none (a request that was ever
in doubt may have committed and been refused on its second call). `WritesAreCovered` has two parts. `BaseWasStored`: the hash an editor sends as If-Match is of
bytes that were stored once, never of a proposal. `TicketsCoverDesks`: a desk's call that is under way or took
effect is on a ticket that a HUMAN holds. `ServesLifecycle`, the refinement, is proved.

**Properties of packages and workspaces.** `ImportsAreWhole` is `ImportsAreTrue` and `BindingsAreWhole`. `ImportsAreTrue`: a COMMITTED receipt is unique, and rows agree with it,
although route, preview and commit read the rows at three times; what it says was done is what the role of the HUMAN who sent it covers,
a draft an editor's and a bootstrap a publisher's. `BindingsAreWhole`: a first workspace has all bindings of
its manifest and no others, though UUIDs are shared between projects. `ProjectionsProven`: no
interleaving makes a workspace look damaged to its own verification. `AlwaysCreatable`: no published definition is ever
shut to the Player by what was published, imported or projected before. `PlayerReplaysAreExact`: the keys of three contracts
in two projects stay apart.

**Properties of the experiments and runs.** `RowsFitTogether` is `LanesMatch`, `OneLine` and `SummaryIsCurrent`. The last two are about long mixes of first
values, corrections and imports: values of a cell form one line that never runs back to an
older assessment, and the current assessment, which every operation only patches, still says what was
submitted with each current value. `KeysTellHistory` is `ReceiptsAreExact` and `ReplaysAreExact`. `ReceiptsAreExact` ties rows to the request that its key is bound to, all of an
import's rows included. `ReplaysAreExact`: a committed request is replayed whatever happened since, and no other request under its key is. `LanesMatch` and `HistoryIsKept` (proved, in no run of its own) state ADR 0015: one expert, of the experiment's lane, immutable after first
use; closed experiments and entered values never change. `LedgerImplemented` is the refinement. `RunsTellOneHistory` has two parts. `AlwaysCalculable`: no
history of legal entries leaves two current values for a cell, which the capture would refuse. `RunsAreOrdered`: of two runs
one knows all that the other knew, though a correction of one parameter leaves the other attached to an older
assessment. `ScenariosStandOnRuns`: working copies stand on recorded runs and replace numbers only.

**Properties of documents and evidence.** `OriginalsHold` is `OriginalsAreDeclared` and `OneOriginalPerTree`. `OriginalsAreDeclared` and `SynchronizedIsShown` bound what a reader
sees from both sides: exactly what was declared for the very text quoted, and not nothing where the writer
accepted a complete alignment. `OneOriginalPerTree` follows chains of edits and realignments to their root.
`RowsHaveOneOrigin`: a package is there entirely or not at all, and two packages never own one row.
`FrozenLanesClosed` is about freezing between preview and commit. `LinksAreHonestWhenMade` and
`ConfirmedIsBacked` relate links and confirmed rows to documents, stored or brought along.

**Properties of the envelope.** `EnvelopeIsExact`: the closed formulae lose nothing against the enumeration of all
completions, and agree with version 1.0 where nothing is missing. `DirectionIsCertain`: a direction
given as certain is that of every pair of completions, although the ends are rounded outwards separately.

**Properties of languages and packages.** `AnswersHold`: what a caller was told of a Project's language stays true, whoever else looked
it up, saved it or imported it. `ChecksPredictWrites` compares two authorities that were written apart, the checks of a package and
those of the tables: what passed the first is refused by the second exactly if an identity was taken meanwhile or for what `Gap` names: two
slices of one date, two schema versions of one version text, a parameter with one of the five codes of Power in any case, a value of POS, POSITION, SAL or SALIENCE that reads as a
number out of its scale (a text too), a HUMAN or AI set whose code or name is too long for its companions', and a field that its own column or validator does not take. The last is a fact about one field
and given with the row (`fits`: a URL that only `URLValidator` refuses, a ninth decimal of a scale, an order beyond the integer column, a NUL on PostgreSQL); the property is about everything that relates two
fields or two rows. `ImportsComeBack` follows a package through the tables and out again; `FilesAreGood` does
the same for a file that was given out. `TagsAreParsed`: the parser, which takes as much as it can at each place, takes exactly
what the grammar describes, and casing a tag twice is casing it once.

**Properties of the database.** `HistoryStays`: no delete of the program, with all that it collects, takes a captured record, and no migration in either
direction loses the rows of a table that is still there after it. Sources and documents are the exception: they follow their workspace as long as nothing was found in them.
`UpgradesArrive`: the migrations build exactly the tables that the models declare, each level finds its rows in order, and what can stop an upgrade is known beforehand
(`Stuck`): a validated definition without a validator, a fragment exact by nothing, a value that nothing explains. `GuardedRowsStay`: a
row that is canonical is not changed or taken away by any statement that fires the triggers of rows (`TriggersKeep`), not even by undoing the migration that guards it; a pin does not move; PostgreSQL loses no event.
What fires none loses no more than `BypassLoses` says: on PostgreSQL canonical rows with all others of their table, and the audit as a whole; on SQLite the rows whose place one new row takes; a pin, alone.
`ValuesHoldGround`: while the triggers are installed, whatever is changed and in whatever order, each value agrees with its header and is explained, but for
the one case of finding 4 and for values that are `loose`; and no trigger refuses what the models accept.

**Bounds and why they are enough.**

- *Projection*: each pass of FD01 and each column has a manifest that only it refuses, in a manifest with two levels of
  actors and elements, two roles and three kinds of parameters. `Apart` keeps the third project from interleaving with the other two, with which it
  shares no row; three workspaces are a first one, a sibling on the same definition and one on its successor.
- *Gateway*: conflicts are between two transactions, so that two workers and two projects cover each kind of race; a third
  worker would only add waiting. Three definitions in one project make a chain of three or two
  rivals of one predecessor; a fourth belongs to the other project. Two manifests, one invalid, allow an edit,
  its undoing and a failed validation. Requests are given, never used up: every one can be sent any number of times by any
  worker, which is how retries and duplicates arise. `MaxEffects` caps the history counter at 2, one more than is allowed.
- *Pages*: `OnePage` opens one page at a time; earlier pages' calls still arrive and other people act. `SaveKeys` and `DeskKeys` bound the
  UUIDs a page may draw to one, so that a second attempt is one by reloading, from a ticket, or of another page.
- *Workspaces*: `Bounded` allows one import attempt in progress and two import receipts, at most one of a refusal, which is one attempt
  against anything else plus its repetition; an editor and a publisher send them. Three workspaces are a first one and two siblings.
- *Experiments*: two targets and two parameters suffice for every relation of two cells (same target, other target); chains of
  three values and assessments of up to four versions arise. The populations are separate because operations on
  values never look at another experiment, and runs never at profiles. If-Match tokens are constants of the requests, so
  that each is fresh in some orders and stale in others.
- *Documents*: `TwoFragments`, a guard of the steps as `FewValueRows` is below; fragments do not see each other. Three sentences with a gap allow one-to-many,
  many-to-one, crossed and incomplete alignments; four documents an original, its edit, the edit back, and a realignment.
- *Evidence*: two importers and their symmetry; `RefusalsAlone` stops a behaviour once a refusal is receipted, since no step reads such a
  receipt and a refused attempt writes nothing else.
- *Envelope*: scale 2 for the code's 10, budget 12 for 2^20, 10 published units for 10^10, because TLC's integers are 32-bit. A grid of
  2 points per unit holds every corner and crossing on this scale. Scale 2 has each sign, zero and two magnitudes.

- *Database*: a delete or migration looks at whether a table has rows of a kind, not at how many, so that one row of each is enough, but for references of a table to
  itself. The samples fill every table that a migration moves or a delete can reach, each with and without what holds it. Two contents tell a changed row from an unchanged one,
  two pins and contexts one that moved; two entities of one table and a parameter of another are enough for a row displaced by another and for a table emptied beside one that is not. A trigger asks of every value the same, so that one value and one header are enough.
  `Lasting` has one statement for each of the three tables that matters to the others, and two for the header; `FewValueRows` lets one of the two definitions never get the code, and keeps the rows near those statements while one is open.
- *Languages and packages*: `FewAtOnce` lets two callers race, or one caller and one importer, or two importers over the rivals; whoever exports or
  adds a row does so once and meets nobody, because an export reads in one transaction. Each check of a package and each gap has a package that
  differs in it alone; of the fields that a column refuses, one in four tables. Tags of four subtags reach every pair of neighbouring parts of the grammar but a fourth extlang.

Deadlock checking is off in `lifecycle`, `client` and `player_workspaces` (and the runs that find a violation in the same modules), where
requests and keys are used up and the system rightly stops.

**Fairness.** Only `gateway_edits` assumes any. `WF(Serve(w))`: a running worker runs on (an INSERT that waits is disabled, not unfair).
`SF(Lock(w))`: PostgreSQL queues waiters of a row, so that a worker is not passed over for ever while
others lock and free it. And workers eventually stop dying: otherwise an endless succession of peers
that insert the same UUID and die before commit could keep an INSERT waiting. Nothing makes clients
send requests, networks deliver, or importers return.

## 4. The proofs

All theorems hold for any values of the constants that meet the named assumptions of the modules
(`NoneAssumption`, `RequestAssumption`, ...): which routes pass which arguments, that `None` is none of the values, and that packages
and calls have the fields their readers take from them (`PackageAssumption`, `LanguageAssumption`),
that the Player's requests have their serializers' fields, and that the UUIDs minted independently for a
package and for a request differ (`PlayerAssumption`, `PackageKeyAssumption`); and that no HUMAN has two Studio roles (`RoleAssumption`). For the projection, the sections of a manifest are sequences
of items with the fields and types of the schema, of any length (`ContentAssumption`); JSON null is no text, id or number
(`AbsentAssumption`); rows of 2.0 packages have ids that no projection derives (`LegacyAssumption`), since those are UUID5 of workspace, family and source;
a creation names a workspace and a definition (`CreationAssumption`), and a database starts with rows that its first migration allows (`SampleAssumption`); parameters are of another table than
actors, elements and roles (`GuardAssumption`), and what may be left open is a statement (`LastingAssumption`); `Nothing` is none of the values (`NothingAssumption`). The constant `Origin` is what a revision may have been published by: the requests of
the lifecycle, and with the importer the packages as well, so that one `TypeOK` serves both.

| Module | Theorem | Property |
| --- | --- | --- |
| `DefinitionLifecycleProofs` | `LifecycleTypes`, `KeysBindOneIntent`, `HistoryIsFrozen`, `PinsAreExact` | `TypeOK`, `KeyBindsOneIntent`, `FrozenHistory`, `PinsExact` |
| | `DeadEndsStay`, `ChainHolds`, `BytesAreReviewed` | `DeadEndStays`, `PublishedChain`, `ReviewedBytes` |
| | `ReadinessAlwaysAgrees`, `SnapshotsImplemented` | `ReadinessAgrees`, `ImplementsSnapshots` |
| `ManifestProjectionProofs` | `CellsAlwaysDeclared`, `ProjectionsAlwaysReplay`, `ProjectableAlwaysExactly` | `CellsAreDeclared`, `ProjectionsReplay`, `ProjectableExactly` |
| `StudioGatewayProofs` | `GatewayTypes`, `TransactionsSerialize`, corollary `GatewayInherits` | `GatewayTypeOK`, `Serializable`; the lifecycle's properties under concurrent transactions |
| | `EffectsAreExactlyOnce`, `AnswersAreAlwaysTrue`, `EditsAreNotLost` | `ExactlyOnceEffects`, `AnswersAreTrue`, `NoLostUpdate` |
| `StudioClientProofs` | `LifecycleServed`, corollary `ChainUnderClients` | `ServesLifecycle`; the lifecycle's invariants under clients |
| | `ClientTypes`, `VerdictsAreTruthful` | `ClientTypeOK`, `TruthfulVerdicts` |
| | `WritesAlwaysCovered` | `WritesAreCovered` (`BaseWasStored` and `TicketsCoverDesks`, lemmas `BasesWereStored` and `DesksAreCovered`) |
| `ExperimentsProofs` | `ExperimentTypes`, `LanesAlwaysMatch`, `HistoryAlwaysKept` | `TypeOK`, `LanesMatch`, `HistoryIsKept` |
| | `KeysAlwaysTellHistory`, `RowsAlwaysFitTogether`, `RowsImplementLedger` | `KeysTellHistory` (`ReceiptsAlwaysExact` and `ReplaysAlwaysExact`), `RowsFitTogether`, `LedgerImplemented` |
| | `ExperimentsServed`, corollary `ExperimentsUnderRuns` | `ExperimentsSpec`; the above under calculations |
| | `ScenariosAlwaysStandOnRuns`, `RunsAlwaysTellOneHistory` | `ScenariosStandOnRuns`, `RunsTellOneHistory` |
| `PlayerWorkspacesProofs` | `WorkspacesTypes`, `CompositionImplementsSnapshots`, `ImportsAlwaysWhole` | `WorkspacesTypeOK`, `ImplementsSnapshots`, `ImportsAreWhole` (`ImportsAlwaysTrue` and `BindingsAlwaysWhole`) |
| | `ProjectionsAlwaysProven`, `WorkspacesAlwaysCreatable`, `PlayerReplaysAlwaysExact` | `ProjectionsProven`, `AlwaysCreatable`, `PlayerReplaysAreExact` |
| `EvidenceBaseProofs` | `LineageTypes`, `OriginalsAlwaysHold`, `SynchronizedAlwaysShown` | `LineageTypeOK`, `OriginalsHold` (`OneOriginalAlways` and `OriginalsAlwaysDeclared`), `SynchronizedIsShown` |
| | `EvidenceTypes`, `FrozenLanesStayClosed`, `LinksAlwaysHonestWhenMade`, `RowsAlwaysHaveOneOrigin`, `ConfirmedAlwaysBacked` | `EvidenceTypeOK`, `FrozenLanesClosed`, `LinksAreHonestWhenMade`, `RowsHaveOneOrigin`, `ConfirmedIsBacked` |
| | `HistoryAlwaysStays`, `UpgradesAlwaysArrive` | `HistoryStays`, `UpgradesArrive` |
| | `GuardedRowsAlwaysStay`, `ValuesAlwaysHoldGround` | `GuardedRowsStay`, `ValuesHoldGround` |
| `ProjectPackagesProofs` | `LanguagesAreKept`, `ImportsArePredicted`, `FilesAlwaysGood`, `ImportsAlwaysComeBack` | `AnswersHold`, `ChecksPredictWrites`, `FilesAreGood`, `ImportsComeBack` |
| | `TagsAlwaysParsed`, `ProjectsAreTyped` | `TagsAreParsed`; the unique keys and canonical languages of the stored Projects |

**Lifecycle.** Every operation is a `HumanWrite` of one row or a `Publish` (`OperationWrites`); two frame lemmas say
what each leaves alone, and each proof has one branch per kind of write. `PublishedChain` is not inductive alone: a
receipt could name a definition of another project, and the step could not be followed. `ChainInv`
strengthens it with the types and with `Grounded` (a receipt names a definition of its own project).
`HumanWriteKeepsChain` holds because writes touch drafts and new rows only; `PublishKeepsChain` because a
successor's predecessor is the head, which no receipt supersedes yet and which becomes an inner link.
The refinement then follows: a human write is a stutter for readers, and a publication is
`First` or `Successor`, whose parent is the head it replaces. For `ReadinessAgrees`, `ReadyInv` adds the converse of `PinsExact`:
every initial receipt still has its pin. Without it the query, which counts receipts whose workspace pins them exactly,
could refuse a successor that the publication path, which counts receipts alone, would take.

**Projection.** Every step is one of the lifecycle or leaves its rows alone, so that `TypeOK`, `PinsExact` and `ReviewedBytes` are inherited
(`LifecycleHolds`): whatever a workspace pins is `Valid`. The first part of the proof says what that leaves of a manifest, pass by pass: one item per id and code in each
section, every reference an item of the right section, no ring, steps that are positive. A ring is any set of items
each of which is a child of another, so that a tree exists in which parents come first without induction over its depth. `ProjectionInv` then says that a workspace with a receipt `Stands`: its rows are exactly those of
the expected items, the parameter rows of its definition are what the columns gave back of the expected ones, and its receipt names that very
projection; that one without has no canonical row; and that a package is what its workspace still has. What must not be
disturbed is shared, because parameter rows belong to a definition and not to a workspace: a second projection finds them proven by a sibling, and writes none. From `Stands`,
`CellsAreDeclared` and `ProjectionsReplay` follow item by item; with the one
exception that the code has, a bound `-0`, which the policy excludes for steps but not for minima and maxima. For `ProjectableExactly`, `RoomInv` adds
that rows without a source came with 2.0 packages and that whoever shares parameter rows had some the columns take. Then
each thing a table could refuse is either excluded by FD01 or one of the named conditions.

**Gateway.** A transaction checks, and commits several steps later; in between other workers commit. `TransactionInv` says why its
checks still hold then. Per worker (`HoldsFor`): from the lock to the end the Project row is its own, so that what it checked of rows of its own project
(`ChecksHold`) still stands, what it staged is what the serial operation would write, and the identities that are global are taken by nobody who
committed. Per pair of workers (`Apart`): they hold different rows, and of two that have inserted under one unique
key one still waits. A commit is then the step of the serial operation in that very state, and every other step a stutter,
which is `Serializable`. For the answers, `AnswersInv` adds that each effect is counted by its receipt, and that every final refusal ever sent is
`Blocked`: something that no operation undoes stands in the request's way, a duplicate still in flight included.

**Pages.** Every step is one of the lifecycle or leaves its rows alone, so that its theorems carry over. For the
verdicts, `TruthInv` adds to the types that what a tab holds is one of its own requests, in doubt if it is unresolved (`Linked`), and
per request `Truth(r)`: the stage of its call, the response under way and the verdict agree with the receipts. The many tab
steps fall into nine kinds of *touches* of one request, and each kind keeps `Truth`. `BaseInv` adds that what every row holds is on
a receipt, that a save's receipt has the bytes that were sent, and that an editor's calls are saves of its own definition: then the base
it takes from a verified answer is on that answer's receipt. `CoverInv` adds that a desk's call under way is the sealed one and its
desk is busy, so that nothing else can be sealed or discarded meanwhile; and that what a desk may send, or imports, is on a ticket.

**Packages and workspaces.** A step of the composition is one of the lifecycle, the commit of an import, or leaves Studio's rows
alone (`RowSteps`), so that the step lemmas of the lifecycle are used again, and only the commit is new: it adds rows and changes
none. What no step ever undoes is one action formula, `RowsKept`: a definition keeps its project, its names, its published bytes and its
publication. Everything told later is stated in these terms. For imports, `AttemptsInv` says that what an attempt was granted its HUMAN
may do and that a previewed one has a plan, and a commit does what was granted or reuses a row (`CommitFacts`); `ReceiptsInv` that a committed receipt is unique for its package and that what it tells (`ReceiptTold`) is
there. `BindingsAreWhole` is inductive with the types. For the Player, `PlayerInv` has three parts. `ProjectionsInv`: every workspace is
`PinnedWell`, one with rows is `Proven` by exactly one receipt, one without has none, and parameter rows can name a workspace that proves
them; without the last, a creation could find shared rows that nobody vouches for, and be refused for ever. `EventsInv`: what the receipt of a creation or slice
told is still so, and a slice has one receipt; `DefaultsOf` is among it, because a replay asks for the topology again. `KeysApart`: no key is taken twice,
be it by Studio or by the Player. `Materializes` treats the two ways of inserting rows as one. The topology a creation
asks for follows from `PublishedChain` and `PinsExact` for every project with a default workspace (`TopologyHolds`).

**Experiments.** A request commits only under a free key (`Committed`), and every row carries its operation's key, so
that rows of a free key do not exist (`RowsHaveReceipts`) and nothing that exists is ever written again
(`RowsStay`). `LanesMatch` is not inductive alone: the experiment of a committed import must be known to
exist (`ImportsHaveExperiments`), or a later creation could give it another lane; both are in `LaneInv`, from which the
action property follows too. For replays, `ReceiptsAreGrounded` says that whatever a receipt's
request named is still there; it needs `ValuesAreAttached`, since the experiment of a value is that of its
assessment. Then the lookup finds the receipt before any check that time could have changed.
`OneLine` is not inductive alone either: nothing in it keeps a first value out of a cell whose values all have successors, or a
version from being given twice. `LineInv` says that a cell with values has exactly one current value, and a target with
assessments exactly one current one, of the highest version; that a value hangs on an assessment of its own target no newer
than the current one; and that the current one still says what each current value was submitted with. The refinement
maps the cells to the ends of these lines; an import enters many cells at once, each of which is a step's or was free.

**Runs.** Each step is one of the experiments or leaves them alone. `ScenarioInv` says that what a run's snapshot names is stored
and that each working copy is `Founded` on a run; both survive because values and runs only grow (`Grown`), which is the
experiments' `RowsStay`. An edit of a founded copy is founded (`EditedIsFounded`), since only a number can be overridden.
For `RunsTellOneHistory`, what a run knew is defined by following successor links, and what a recursive function computes cannot be proved by
induction over data. The proof goes around it: `LeadsBack` says that a set closed under predecessors contains a value; that a new end's closure contains the old
one's is first-order. `EndsInv` says that every value of a cell leads back from the cell's end (`CellsLeadBack`), every assessment from its target's
(`TargetsTraceBack`); `OrderInv` that of two recorded snapshots of a slice one has the ends that the other had, or later ones.

**Documents.** `AcceptedInv`: each stored row with roles is the result of a submission the writer accepts, whose components are what was
declared; fragments are pinned iff their document has roles. What the reader needs to prove an alignment then follows from the
writer's checks (`Synchronizes`), sentence by sentence.

**Evidence.** `IdentityInv`: previewed packages are valid and the stored rows distinct by identity. `OriginInv` adds that what a
receipt says was created is among its package's rows. A frozen lane stays closed because a commit brings nothing of a frozen lane
unless all of it is there already.

**Database.** `HistoryAlwaysStays` holds for any databases, not only the samples, and rests on two facts. `CapturedHold`: no reference of a captured record
follows what it points to, so that a delete only ever collects a captured record if it was asked for one, and then the model refuses (`DeleteKeeps`). `CascadesOut`: of
the tables that were there before 0002, none refers to what 0002 made by a reference that follows and is filled once `workspace` is cleared; so the deletes of its reverse reach no
row of the older tables (`OutKeeps`). Every other migration keeps all rows of tables that outlive it (`ForwardKeeps`, `BackwardKeeps`).

`UpgradesAlwaysArrive` is about the schema of every level, and follows one observation: a reference that some migration makes is declared in the end, or replaced later by
one to the same table (`Foretold`, `SchemasForetold`). So a name stands for the same table at every level, and "the row is in order" (`Shaped`) splits into what
its own columns must hold (`Columned`) and what must be there with it (`Keyed`), which no level changes (`ShapedIsKeyed`). A migration that adds columns then
only has to fill what is new and needed (`NewNeeds`), with rows that exist (`FilledShaped`); one undone, and every delete, has to leave no reference dangling, for which
three rounds of following are enough, because references that follow lead upwards (`Depth`, `CollectedClosed`). The schemas alone are not inductive: the
next migration relies on what the one before wrote and nothing checks. That is `OnTheWay`: a definition is of one kind and no draft is stamped; rows rehoused
by 0002 have a workspace when 0003 requires it; there are no citations between 0002 and 0004, so that 0005 may demand a target;
13 and 14 leave each event, binding and receipt the workspace that 0014's scope needs. With it (`Arriving`) each migration's check
fails exactly for what `Stuck` names (`UpgradeStuck`). That the tables arrive at the declared ones (`LastIsDeclared`) is proved reference by reference from both sides:
each one declared was written (`DeclaredWritten`), and each one left is declared.
The theorem assumes of a deployment only that its rows are ones the first migration allows, and of what a program writes later that
a definition's status is one value (`SampleAssumption`); published and retired count as one, because every check since 0006 treats them alike.

For `GuardedRowsAlwaysStay` the invariant is `MarkedByColumns`: before 0018 there is no column that makes a row canonical, so that taking the triggers away can expose no such row; and the
reverse of 0018 refuses as long as there is one. A bypassing step is compared with `BypassLoses` action by action (`BypassLoss`).
`ValuesAlwaysHoldGround` needs a stronger invariant than what it says, since a statement may commit long after it was checked. `GroundInv` says of every value that is not loose that it `Stands` while the triggers are
there or coming, and of every open statement that it still `Leaves` standing each value on which it was not overtaken: what its check found is true of the rows as they are now. Each commit keeps this for itself and for all that stay open
(`ApplyKeeps`): what it touches of theirs is in `Overtakes`, and the rest is as it was (`UntouchedGround`, `NotOvertaken`). A check that passed is what `Leaves` says at that moment (`PassedLeaves`), with `MayExplain` for what is true or null.

**Languages and packages.** `FileInv`: what an importer holds and what was given out passed the checks, since an upgrade changes nothing that
they read but the language (`SameContent`). Then `CheckedIsStorable` compares the two sets of checks operator by operator: every key of the tables is a key of
the package but two (`KeysOfTables`), a fraction is a percentage, a status of a package is one of the tables'; what is left over on the side of the tables is `Gap`. For the languages, `StepOK` keeps what
a call found out at its last step until its next: the language it compared was read before, and is still the stored one because no step,
imports and the seed included, takes a Project away or gives it another language (`ProjectsStay`). That in turn needs one row
per UUID and per code (`IdentityInv`), which the unique keys keep. `ImportInv` then carries an imported package's rows and language for ever.
`ProjectsAreTyped` adds that the language of every stored row is canonical as it stands: the ordinary paths store what the parser gave back, the
import what its package says, and both are the same only because casing a tag twice is casing it once.

**Tags.** `TagSpec` types any sequence of subtags, so that `TagsAlwaysParsed` is about tags of every length over every set of words. `TagAssumption` says
what makes words words: a name tells its length, its alphabet and whether it starts with a digit; letters are no digits; `x` is one letter; the closed list
is spelled in letters and digits. `After`, the loop of the parser, is a least place (`LeastOf`, from the well-foundedness of the
naturals), and the grammar's places are compared with it part by part: what is no extended language subtag, script,
region, variant or singleton cannot start the part before (`KindsDiffer`, `NameTells`), so that every division of a tag that the grammar admits is the greedy one
(`ExtlangsTaken`, `OneTaken`, `PartsTaken`, `ExtensionsTaken`; `LangtagIsParsed`), and the greedy one is admitted
(`ParsedIsLangtag`). All that the parser reads of a subtag is told by its name; hence the cased tag is divided as the typed one
was (`SameWords`, `SameParts`, `SameVerdict`), and the second casing finds nothing to do.

**Only model-checked:** `AdmittedIsAnswered`, which as liveness is out of the prover's reach; `EnvelopeIsExact` and `DirectionIsCertain`, because
the search of the envelope (`LowerFrom`) is recursive.

## 5. What is not modelled, and why

- *Conversions without state*: canonical JSON, hashing and sealing (abstracted to equality), the parsing of
  workbooks and packages, target mapping, tokens' signatures.
- *What only reads*: the read-only routes and pages, the previews of a workbook and of a desk's initial publication, the
  visibility filters of `evidence_access.py`, the exports of 2.0 and 2.1.
- *What nothing runs*: retirement, `ACTIVE` experiments, the first receipt contract of baselines, second versions of a document,
  and the historical untyped publication path.
- *Left out for size*: sections of a 2.0 package that nothing else refers to (gaps, Power, chat, terminology),  the Zhanaozen system lane, the structure of a manifest inside the editor, the Player's own pages, the numbers
  of a scenario, digests and wire shapes of the envelope, traces and completeness of version 1.0.
- *Of the database*: rows beside one per table, uniqueness and format constraints, and what the models refuse to write other than deletes, values and canonical rows.
- *Out of scope*: configuration and deployment, the admin, release verifiers and scientific records: no behaviour
  of the domain.

Capability checks of HUMANs are constant. Scope that is revoked after admission does not stop the write: the
model does what the code does and claims nothing more.

### Observations

What the models had to follow and a reader of the code may want to know; no document of the repository says otherwise, or only in passing.

- *Cutoff*: a package into a selected lane may repeat a fact and add evidence from a document published after the cutoff; neither
  `_validate_semantics` nor `FactEvidence.clean` looks again at links that call it contemporaneous. Hence links are honest
  *when made*.
- A lane that was frozen and then archived takes new facts, evidence and links: only FROZEN is refused. A shared fact
  cited by a frozen lane may get evidence through another DRAFT lane.
- `export_foundation_package` of a workspace with exact fragments on documents that keep original bytes fails its own validation, and
  an export drops lineage. `export_workspace_package_2_2` accepts only the standalone projection receipt, so that a
  workspace the Player created cannot be exported.
- *Minus zero*: a bound of a scale written `"-0"` passes the schema and FD01. `_expected_projection` keeps the sign, the decimal column does not: the
  creation of the workspace is answered 201 with COMPLETE, and from then on it verifies as `ASSESSMENT_PROJECTION_INTEGRITY_CONFLICT`, gets no time slice, and its
  siblings are refused because the shared parameters have drifted. Run `lifecycle` has the exception in `ProjectionsReplay`.
- *Valid, published, never projected*: UUID text in capitals (also two texts of one UUID), an order beyond the integer column, a label of more than 500 or a parameter name of more
  than 255 characters, more than eight decimals or twelve digits, bounds on a parameter that is not numeric, and a parameter with the code of a scalar
  Power. The initial publication makes the workspace, and nothing can ever be projected into it.
- A 2.0 package that brings an actor, element or role with a code of the manifest, before the first workspace is projected, blocks that
  projection for ever.
- The drilldown does not look at order across components, so that crossed one-to-one alignments are shown. A fragment may end past its text.
- `allow_nonempty=False` can never succeed in a workspace that Studio published, which has Help bindings.
- Readiness ignores Help binding UUIDs, so that a publication it calls possible may meet a taken one.
- The standalone projection locks Workspace, then Definition; the Player Project, Definition, Workspace.
- A refused replay (401, 403, 404) of a validation that did commit clears the desk's unresolved attempt.
- No caller outside tests writes document lineage yet.
- *Past the triggers*: TRUNCATE is left to a follow-up on purpose (0021); nothing says so of canonical rows, of `REPLACE` on SQLite, or of a workspace that is deleted and inserted anew in one transaction, which may then have another pin.
- *Overlapping transactions*: on PostgreSQL a value that relies on its header and an update of this header that takes the reason away may both commit, because the trigger on each row sees only what is committed and the foreign key does not lock
  what the header says; a lock of the header's row in the trigger on values, or the same in the model, would close this. The same holds of a definition that loses its code, and of values written between the migration's look at the rows and its last trigger.
  A header that is deleted and inserted again is not looked at.
- *Checks of a legacy package*: what `Gap` names passes the checks and is refused in the transaction, after the rows before it were inserted; a text that reads as `NaN` in a POS parameter raises an exception that nobody handles (in the model it is a number out of every scale). Nothing is stored in either case.
- `ImmutableCapturedModel` is documented as never deleted (`models.py:4295`, `:4303`), but the workspace reference of a Source or Document follows: a workspace that goes takes them along,
  unless a version was captured.
- Deleting a *set* of assessments, or of values that others rely on, passes the guards, which only `delete` of an instance has
  (`models.py`: `ActorElementAssessment.delete`, `ParameterValue.delete`); what is captured still holds them.
- Going back below 0005 drops who validated a definition. One that is VALIDATED and not published then stops the next upgrade at 0006 for ever. Going back below 0017
  takes the variants away, and an exact fragment of a variant that was made from no content stops 0017 likewise.

## 6. Findings

1. `validate_definition` passes the row it read at admission to the report of a *failed* validation.
   If another worker saves between that read and the lock, the diagnostics are those of the new bytes, and base and
   candidate hash those of the old ones. ADR 0006 promises a report that binds both.
   Run `gateway_report` shows the interleaving: the draft is M1 when a worker admits a validation with
   `If-Match: M2`; another one saves M2; the validation locks, finds M2 invalid and reports M1.
2. The editor seals a save and then awaits its digest before it becomes busy. An edit made in between is not in the
   sealed body, but the verified answer marks the page clean, and after a reconciled replay the proposal stays on
   screen: leaving the page asks nothing, and the edit is gone. Run `client_editor`; `audited_draft.js:1230` and ADR 0009
   promise an explicit save or discard.
3. The package route accepts `initial_workspace_is_default=false`, which Studio's own publication does not. In
   a project that a package bootstraps so, `_require_topology` never finds a default workspace and every workspace
   creation is refused for ever. Run `import_default`; the comment in that function counts the package
   lane as an accepted way to be published.

4. A header whose categories lack one of POS and SAL (or have null there) explains nothing: the trigger on values and the model refuse a value that
   relies on it. But the trigger on headers, and the one on definitions, look for values that are *not* explained, and the negation of null is null; so the header of a value
   can be changed to such a one. PostgreSQL's check of existing rows has the same gap. Run `value_rule`; migration 0020 says that direct SQL obeys "the same
   bounded rule" (`0020_parameter_value_db_metadata_guard.py:7`).

## 7. Further work

In order of worth:

1. The client over the gateway instead of the lifecycle, so that a tab's call is a transaction that may lose a race.
2. The Player's own pages.

## 8. Running

    tlc -workers 2 -config MCGatewayRaces.cfg MCStudioGateway
    tlc -workers 2 -config MCPlayerExperiments.cfg MCPlayerExperiments
    tlc -workers 2 -config MCStudioClient.cfg MCStudioClient
    tlapm DefinitionLifecycleProofs.tla

and likewise for the other modules. Each `.cfg` names its specification and properties; PROJECT.json lists runs, mutants (a plausible
bug per property, with which TLC must find it violated), the map to source lines, hazards and theorems.
