# PaperRadar in TLA+

PaperRadar collects papers from journal feeds, screens them with a language
model (stages `boundary` and `value`), reads the selected ones in full, and
keeps every fact, attempt, model answer and decision in one SQLite archive with
a content-addressed artifact store beside it. It is a set of Python libraries
and commands: there is no server, no daemon and no scheduler. Concurrency is
that of several commands and threads on one archive; failures are killed
processes, expired leases, late answers, clocks that jump, power losses.

This directory models the parts of `src/src/paper_radar` whose correctness
depends on such interleavings, or on a case analysis too wide for examples,
checks them with TLC on small instances, and proves the most important results
with TLAPS for every instance. Paths below are relative to
`src/src/paper_radar`, documents to `src/docs`.

How to run: `tlc -config MCScreeningExpiry.cfg MCScreeningTasks.tla` (any run of
`PROJECT.json` likewise), `tlapm RpcCallProofs.tla` (any module `*Proofs`).
`PROJECT.json` lists the components, the runs with their properties, for every
definition the lines of code it stands for, the hazards with the properties
about them, and the theorems.

Contents: 1 the system, 2 the modules, 3 the runs and their bounds, 4 what the
checks found, 5 what is proved, 6 what is only model-checked, 7 what is not
modelled, 8 the plan.

## 1. The system

| Component | State it keeps | Operations | What is hard | What makes it correct | Modules |
|---|---|---|---|---|---|
| **Screening tasks** (`screening_tasks/`) | tasks (budget = paper, stage, fingerprint; generation; parent), request receipts, attempts with lease and failure, successes | `register`, `register_retry`, `run_once`/`claim`, `renew`, `fail`, `submit`, `reclaim`, `validate_all` | mapping, ownership check and publication lie outside the write transaction; three operations settle expired attempts; the clock is injected and may go back | one outcome per budget, at most two attempts per generation, a settled attempt is final, the archive validates | `ScreeningTasks`, `AttemptBudget` |
| **Read tasks** (`read_tasks/`) | tasks, registrations, attempts, renewals, outcomes, analyses | `register`, `retry`, `claim`, `renew`, `fail`, `submit`, `reclaim`, `validate_all` | a holder loses its rights at the deadline; two clock readings in a transaction; only `reclaim` settles an abandoned attempt | as above; an unexpired holder is never cut off | `ReadTasks`, `AttemptBudget` |
| **Read output acceptance** (`reading/acceptance_v2/`) | none | `validate_read_output_v2` | degradation on the last attempt only; items lean on one another | accepts the largest sound rest, reports the others | `ReadAcceptance` |
| **Artifact store** (`storage/`) | blob files, `content_objects`, `artifact_members` | `publish_artifact`, `read_artifact`, `prepare_publish` | publishers share directories and files without a lock; kills and power losses between system calls | what is registered is on the disk; damaged history is reported, not rebuilt | `ArtifactStore` |
| **Backup and restore** (`backup/`) | batch directories, restore targets | `create_backup`, `verify_backup`, `restore_backup` | reads the live store without a lock; one rename publishes | a batch is whole or not there; nothing is replaced | `Backup` |
| **Pi supply** (`pi_supply/`) | installs, checks, activations, retirements, cleanup plans and runs; installation trees | `prepare_supply`, `rebuild_supply`, `verify_supply`, activate, `use_install`, `create_cleanup_plan`, `execute_cleanup_plan` | shared and exclusive `flock`s inherited by children; a tree is moved, then deleted, with records in between | an installation in use or protected is never deleted; the history replays | `PiInstalls`, `InstallLifecycle` |
| **Pi execution, read execution** (`pi_execution/`, `read_execution/`) | holds, a session and its directory, the lock of the root | `run_attempt`: admission, hold, token, claim, call, settlement | the installation may be changed or retired between any two steps; kills leave processes behind | an answer comes from the installation that was admitted; readings exclude each other | `PiExecution` |
| **LLM calls and RPC** (`llm/`) | pipes, the conversation, deadlines | `run_call`, cancel, terminate | full pipes, half frames, deadlines, EOF and exit in any order | a candidate means a clean session; the ends never wait on each other; the group is gone at the end | `RpcCall`, `StageInputs` |
| **Body, Docling** (`body/`, `docling_execution/`) | roots, PDFs, decisions, samples, attempts, reviews, reading bases | `attach_pdf`, `decide`, `freeze_sample`, `extract`, `review_layout` | the claimer's life is known by a root lock only | two attempts per text, no attempt of a live claimer is settled by another | `BodyExtraction` |
| **Papers** (`papers/`) | observations, versions, revisions, relations, selections, conflicts | `submit`, `correct`, `register_feed`, `validate_all` | publication between two transactions, replays | a replay gets its first receipt; the archive replays from its observations | `Papers` |
| **Feed ingestion, metadata, pipeline** (`feed_*/`) | checks, items, runs, routes, registrations | `check`/`resume`, `fetch`/`resume`, `register_value` | several resumers; a gate over five readings | settled things stand; a registration rests on one state of the facts | `FeedIngestion`, `FeedMetadata`, `FeedPipeline` |
| **Fixture audit** (`fixture_audit/`) | plans, executions, events, matrices; declarations, PDFs, expectations, interpretations | acquire, run, resume; `register`, `register_pdf`, `register_pdf_backend`, `append`, `replay`, checks | a plan's lock, kills, continued executions; readings before a write transaction; histories whose rows replace one another | no service is refused by its own history; what was recorded can be read and computed again | `FixtureAudit`, `FixtureRegistry` |
| **Database access and schema** (`storage/database.py`, `storage/migrations/`) | the archive's revision, tables and rows | `upgrade_database`, `open_database` | tables are rebuilt with foreign keys on; a kill between the migrations and what follows their commit | an archive of any revision comes to the declared tables with all its facts | `SchemaUpgrade` |
| **Config, stage inputs** (`config/`, `stage_inputs/`) | files, versions, snapshots; inputs | compile, check, load, compare; build, replay | files are read one by one while the user edits | what a task freezes can be had again | `ConfigSnapshots`, `StageInputs` |
| **Eligibility** (`eligibility/`) | none | `evaluate_paper` | facts that go stale one by one | at most one next step, a human decision stands | `Eligibility` |
| **Runtime logging** (`runtime_logging/`) | log files | append, rotate | several processes, partial writes, kills | a returned event is a line, glued at most to the half line of a write that was cut off; only the oldest file goes, and a killed rotation costs at most one file's place | `RuntimeLog` |
| **Fulltext, screening validation, doctor, contracts, read queries, calibration, sources, command line** | none | pure checks, views, parsers | - | - | not modelled (section 7) |

### How they interact

The task services are called by executors (Pi execution, Read execution) and
commands. They read paper facts (papers, body, metadata, eligibility) to build
the stage input whose fingerprint names the budget; they publish the candidate
through the artifact store before the transaction that accepts it. An executor
holds an installation of the Pi supply, claims an attempt, makes one call over
pipes and settles. Everything shared is the SQLite file (every write transaction
is `BEGIN IMMEDIATE`, every commit durable), the store's files, the installation
root, and a few `flock`s. There are no callbacks between components and no
background threads.

The hazards this leaves are in `PROJECT.json` under `hazards`, at their lines,
each with the properties that would catch it going wrong.

## 2. Modules

One action is one write transaction, one system call, or one step of a caller
outside a transaction, so that everything another process may do in between is
an interleaving. A variable of callers (`callers`, `frames`, `executors`,
`workers`, ...) is the Python frame of an operation under way; a kill drops it.

| Module | Stands for | Composition |
|---|---|---|
| `AttemptBudget` | what a task service promises, whatever its clock, leases and callers: generations of two attempts, one pending at most, one result, no new generation before all attempts are spent and failed | abstract; implemented by both services |
| `ScreeningTasks`, `ReadTasks` | the two task services | refine `AttemptBudget` |
| `ArtifactStore`, `Backup` | the store system call by system call; batches and restores beside it | `Backup` extends the store and joins its steps |
| `InstallLifecycle` | an installation is available, held, retired, gone | abstract; implemented by `PiInstalls` |
| `PiInstalls` | the installations of one supply under one root | refines `InstallLifecycle` |
| `PiExecution`, `RpcCall` | an execution around its call; the call over its pipes | run together in `MCAttempts` |
| `Papers`, `FeedIngestion`, `FeedMetadata`, `FeedPipeline` | the paper facts and the three services on top of them | each extends the one before |
| `BodyExtraction` | the body of one paper with extractions and reading bases | in `MCServices` |
| `FixtureAudit` | one audit plan | in `MCServices` |
| `FixtureRegistry` | what is recorded beside audits: declarations, PDFs, expectations, interpretations | data in `MCRegistry`, in `MCAttempts` |
| `SchemaUpgrade` | an upgrade migration by migration, beside other upgrades and services | in `MCAttempts` |
| `ReadAcceptance`, `Eligibility`, `StageInputs` | pure functions beside reference definitions | data in `MCInputs` |
| `ConfigSnapshots` | compiling and replaying snapshots while files change | with `StageInputs` in `MCInputs` |
| `RuntimeLog` | appends and rotation under one lock | in `MCAttempts` |
| `MC*` | model values, bounds and symmetry for TLC | |
| `*Proofs` | invariants and theorems (section 5) | extend their component and TLAPS |

### ScreeningTasks and ReadTasks

`MapForRegistration`, `MapForRetry`, `MapForClaim`: the paper is mapped to a
fingerprint in a reading of its own; the transaction compares the revision again
and answers `facts_changed`. `SubmitStarted`, `Publish`, then `SubmitAccepted`,
`SubmitRejected` or `SubmitRefused`: the read-only ownership check, the
publication, the transaction with the second check. `ClaimGranted`, then
`ReadCorrection`: the correction given to the executor is read after the commit of
the claim; the one shown to `preclaim` was computed inside it. A claim of a spent
generation settles its expired attempt before it raises `budget_exhausted`
(`ClaimOutOfBudget`); a retry settles the expired second attempt of its parent in
the transaction that opens the successor (`RetryRecorded`).

`tasks`, `requests`, `successes` are tables; `attempts[t]` joins the attempt, lease
and failure rows of a task. `revision` and `Mapping` stand for the paper facts,
`Verdict` for what the authoritative validation says of an answer, `now` for the
injected clock that `Tick` and `ClockSetBack` move. `ReadTasks` has the same grain;
a transaction that reads the clock twice has two readings, at most `Drift` apart.

Abstracted: a receipt's day, the contents of inputs and outputs, uuids (a pool of
model values), the secret of a handle (holding the attempt's number is holding the
handle). Left out: language observations and their policies, journal bindings, the
query services.

### ArtifactStore and Backup

One action is one system call of a publisher (`Look`, `Make`, `SyncParent`,
`Link`, `SyncShard`) or one transaction (`CheckRegistration`, `Register`). The
file system is the one POSIX promises: a new entry is visible at once, but
survives a power loss for certain only after `fsync` of its directory. A commit
of SQLite is durable. Files are written and synced under `tmp/` before the link,
so an entry stands for whole bytes; `blobs/` and `blobs/sha256/` are one directory
(`Namespace`) whose parent is durable. `Kill` and `LosesPower` may strike between
any two steps. `orphaned` is a history variable: what a power loss took together
with its directory. `Backup` adds workers with private staging trees: `Snapshot`,
`CopyBlob` blob after blob from the live store, `WriteManifest`, `Rename`,
`SyncPlace`; a restore verifies, copies, looks at the target again and renames.
Batch names are unique; anything else may take a name (`Occupy`).

### PiInstalls

An action is one transaction, one lock call or one change of the installation root.
A lock belongs to an open file description: a child of a killed process keeps it.
`facts` are the safety tables, `plans` and `runs` the saved cleanup; the cleaner's
frame walks its plan: lock, compare the facts with those it planned on, save, move,
record, delete. Abstracted: the survey of the installations is one step, the lock and
the reading under it are one step, one supply and one root. Left out: lock files
that are damaged, power loss on the installation root, the wall clock, failed rows of
a rebuild, acquisition and export of a supply.

### PiExecution and RpcCall

`PiExecution` is `run_attempt`: root lock (readings only), admission, hold of the
installation, the process that fetches the credential, comparison, claim, launch,
settlement, release, with a kill at every step that may leave a process behind
(`orphans`) and others that activate, retire and reclaim. The evidence for an
installation is a constant (`Evidenced`): the product reads none (`read_evidence`
returns None), executions get theirs through the seam `_evidence_for`. Leases are
abstracted: an attempt may be reclaimed at any time. One reading task and one
screening task.

`RpcCall` is `run_call` over pipes that hold parts of frames: the commands of the
initialisation, the prompt (of several parts), the acknowledgement and the events of
its run, the end of the process, and the handshake of a cancellation. Pi reads, writes,
speaks, and may fail once: a record of its own, silence, an early end, a child left
behind. Deadlines are events that may come while they are armed. Abstracted: the
commands of the initialisation are alike, the events are reduced to four positions, a
record has two parts, a pump takes all that is in the pipe, the two commands of the
handshake have numbers of their own, and a write to a group that is dead fails.

### Papers and the feeds

`Papers` keeps `archive`, the append-only tables, and the frames of submitters; a
request is prepared, published and committed in three steps. `FeedIngestion`
registers, fetches, settles and submits items, with any number of resumers;
`FeedMetadata` freezes a version, asks three routes and commits what they bring;
`FeedPipeline.register_value` reads metadata, current facts, boundary success and
mapping one after the other (`ReadMetadata`, `ShowPaper`, `FindBoundary`, `MapValue`,
`RegisterValue`) and compares in the write transaction. `validate_all` is a replay of
the archive from its observations. Contents are members of small sets; a page is what
the abstract rules find in it. In `FeedMetadata` a route is submitted in one step with
its artifact published (`Papers` has the two transactions). Left out: normalisation of
DOIs, texts and dates, the bytes of a feed, the language basis of a receipt and its day.

### BodyExtraction, FixtureAudit and FixtureRegistry

`BodyExtraction`: PDFs, decisions, samples and reviews of one paper, an extraction as
selection, root lock, claim, conversion and settlement, and the basis a reading records
when it is claimed. Failures are grouped ("failed" for a timeout, a resource or the
executor; "rejected" for a permanent one); decisions are direct manual ones of a
production source; the clock of reviews is left out. `FixtureAudit`: executions of
the routes feed, DOI agency and publisher under the lock of one plan, sampling from a
frozen feed, the matrix with continued executions, declarations on a summary. An
append loads the history inside its transaction, a settlement does not, as in the
code. Left out: HTTP, parsers; what is recorded beside an audit is in the next module.

`FixtureRegistry`: each service is a reading and a write transaction with others in
between: `StartDeclaration`, `RegisterFixtures` (`register`); `StartPdf`, `PublishPdf`,
`RegisterPdf`; `StartBackend`, `RegisterBackend`; `BeginAppend`, `CommitAppend`, which
hold the lock of the audit's plan. `DeclarationCheck`, `PdfCheck` and
`ReplayInterpretation` are `check`, `check_pdf` and `replay`. The audit itself is seen
from outside: it comes to a summary (`CompleteAudit`), or is continued and gains a row
(`ContinueRow`, `AppendRow`). A digest is what it is a digest of; a parser is a function
from materials to fields; a process forgets the answer it got, unless that called the
archive damaged, and then keeps the samples it had gone by.

### SchemaUpgrade

A migration is the record of what it creates, alters, rebuilds, cuts, seeds and copies, and
`Migrate` does this statement by statement to the tables and rows of an archive, with
foreign keys on; `Declared` are the tables of the packages' metadata. A table is the
tables its rows must and may refer to, the values of its checked column and the columns
that came later. Its rows are one: what matters is whether there is one, and which optional
references and checked values occur. `ReadRevision`, `BeginUpgrade`,
`CommitUpgrade` (all migrations in one transaction) and `SetWal` are the steps of
`upgrade_database`, `OpenService` is `require_current_revision`. Left out: downgrades,
which nothing calls; column types and indices.

### ReadAcceptance, ConfigSnapshots, StageInputs, Eligibility, RuntimeLog

`ReadAcceptance`: a candidate's items are a function from places to items; a text is
whether it means something and the numbers in it. `ConfigSnapshots`: `Edit` changes a
file at any time, a compilation reads file by file and registers versions; a hash is
the bytes, what YAML or a schema refuses is `Invalid`, a contract's two files are
one. `StageInputs` is pure: bytes are what they encode and whether the encoding is
canonical. `Eligibility` is `evaluate_paper`; an identity is "own", "other", "none" or
"empty". `RuntimeLog`: a file is the sequence of the parts of its events, the last part
being the newline; writes may be short, fail or be cut off by a kill, a rotation is rename
after rename. `logged` also remembers what became of each event, and where the writer
was when it was cut off: only the properties read that.

## 3. Runs

| Run | Instance | Shows |
|---|---|---|
| `screening_expiry` | 2 callers, 2 generations, 1 request, lease 1, clock 0..1 both ways | every interleaving of claim, expiry, reclaim, retry, late failure and late submission: `SuccessClosesBudget`, `SettlementIsFinal`, `CorrectionWasChecked`, and `ArchiveValidates`, what `validate_all` asks of attempts, registrations and successes |
| `attempts` | an attempt from its task to its process and the archive around it, in ten parts: tasks (1 caller, a text that changes from A to B and back), execution, call, log, acceptance, configuration, eligibility, schema (an archive of each revision, 2 upgrades, a service), registry (2 processes, 8 files, 4 PDFs), interpretations (2 processes, 2 audits, 5 parsers) | `ImplementsBudget`, `ExecutionIsSound`, `CallIsSound`, `NobodyWaits`, `NewestAreKept`, `AcceptanceIsSound`, `ConfigIsReplayable`, `VerdictsAreSound`, `UpgradeKeepsFacts`, `HistoriesAreAccepted` |
| `screening_liveness` | 1 caller, three kinds of answer, a text that changes once, clock 0..2 | `AbandonedAttemptSettles` |
| `read_settle` | 2 callers, 2 generations, 3 requests, a sound and a degradable answer | `ChainValidates`, `SettlementIsFinal`, and `ImplementsBudget`, which includes that a budget has one analysis |
| `read_lease` | 2 callers, lease 2, clock 0..3, one renewal | `LeasesValidate`, `LeaseIsHonoured`, `AbandonedAttemptSettles` |
| `archive_backup` | 2 publishers, 2 blobs in one shard, a two-member artifact, one worker, a batch, a target | `RegisteredIsSynced`, `BackupFindsItsBlobs`, `PublishedIsWhole`, `MissingIsNotRebuilt`, `NothingIsReplaced` |
| `pi_installs` | 2 installations, a user that also publishes, a cleaner, 2 plans, 1 fault | `HeldStaysInPlace`, `ProtectedIsNotRetired`, `HistoryIsAccepted`, `DeletionIsAccounted`, `ImplementsLifecycle` |
| `services` | seven parts: papers, feeds, metadata, pipeline, body, basis, audit, each with two processes that may stop anywhere | `ArchiveIsAccepted`, `ReceiptsStand`, `CheckHistoryIsAccepted`, `PreparationsGoThrough`, `PipelineValidates`, `RegisteredOnCurrentFacts`, `BodyIsAccepted`, `AuditIsAccepted`, `AuditsGoThrough` |
| `read_repeat`, `read_drift`, `archive_power_loss`, `pi_rebuild` | violated | findings 1 to 4 |

The passing runs together fire every action. In `attempts` and `services` the
parts share no state; each behaviour is one of them, chosen at the start.
Deadlock is checked where a system always has a next step (the screening, read and
store runs). `attempts`, `services`, `pi_installs` and `pi_rebuild` say
`CHECK_DEADLOCK FALSE`: their histories are bounded, or a call ends, and then the
model stops as the program does. That nobody waits for ever in a call is `NobodyWaits`.

States, where the instance is large: `pi_installs` 934,073; `archive_backup`
626,148; `attempts` 586,477 (call 169,760, tasks 107,022, execution 98,824,
configuration 68,637, log 51,939, schema 40,985, registry 21,380, acceptance 14,305,
interpretations 12,018, eligibility 1,607); `services`
574,467 (feeds 154,754, papers 126,290, audit 88,337, body 86,832, basis 60,506,
metadata 33,922, pipeline 23,826).

### Why the bounds are enough

* *Callers.* Races in the code are between an operation split over two
  transactions and any other operation; two callers and the operations that need
  none (`Reclaim`, faults) give every such pair, including a late holder against
  the holder of the next attempt.
* *Tasks.* Two generations reach every rule about a parent and its successor. A
  third repeats the second with another parent; the theorems cover it.
* *Lease and clock.* With a lease of one tick and a clock that also runs back, an
  attempt can be live, expired, and live again. `read_lease` has a lease of two so
  that a renewal in the middle of it really moves the deadline. `MaxRenewals` bounds
  a list; it is 0 where the property is not about deadlines.
* *Facts.* Three revisions with two texts are the least with a text that returns.
  In `tasks` the executor reports one failure and three of the four attempts that two
  tasks may have are made (`TaskBounds`); its answers are judged every time, and
  `screening_expiry` makes all attempts.
* *Files.* Two blobs in one shard make one publisher's `fsync` cover another's
  entry, and a two-member artifact makes registration wait for both.
* *Installations.* Two installations and a retention window of one make one of them
  collectable. `MaxChecks`, `MaxActivations`, `MaxPlans`, `MaxRuns` bound the
  histories: two plans are a cleanup that another one overtakes. `MaxFaults` is one
  damage or failed deletion, `MaxWaiting` one process waiting at a lock.
* *Execution.* Two executors or groups left behind at a time (`ExecutionBounds`), of
  the reading or of the screening task: a third only repeats what the second may meet.
* *Call.* One command and a prompt of two parts over pipes of one part: every write is
  one that may block. One thing goes wrong, two if one of them is a cancellation
  (`CallBounds`).
* *Log.* Two writers, files of two parts, three files, four events of one or two
  parts: two rotations, an event glued to a half line, and a file that goes although
  the number a killed rotation left is free.
* *Acceptance, eligibility.* Up to two findings, a point and a limitation over two
  pieces of evidence; every pair of departures from a paper that may be read.
* *Configuration.* Few files with two edits and three calls, or all files with one edit
  of the settings and two calls; nothing is edited while a load is between its
  two readings of the database, which has no files in it.
* *Papers and feeds.* Ten requests are chosen to bind a DOI late, to merge two papers,
  to conflict, to revise with another parser and to correct. Three acquisitions
  (`MaxAcquisitions`), two bodies with two parsers, a second check after the
  settlement of the first, at most one discovery during a metadata run and a second run
  after the first's publisher route, one enricher at work beside a registration.
* *Body.* Two PDFs, one recipe, two attempts in all, in two halves: before the paper may
  be read, and with a basis (`BodyBounds`, `BasisBounds`).
* *Audit.* One execution under a key of its own, two of the feed, one summary
  (`AuditBounds`); five executions and three events reach a continuation of a
  continued one.

* *Schema.* An archive of every revision, with all the facts its tables can hold or with one
  fact and what that one needs; two upgrades, so that one may find what the other has
  committed without its WAL; one service that writes to every table.
* *Registry.* Two declarations at a time out of eight files that replace, contradict or
  repeat each other or refer to a summary wrongly; two PDFs, the bytes of two, one
  expectation, declared when there is a PDF; summaries come and go where nothing is
  published (`RegistryBounds`). The PDF transactions read samples before they write,
  and one declaration with its PDF in between is enough to make them stale.
* *Interpretations.* One audit's feed is continued once and the audit interpreted twice,
  before and after; the other is interpreted once, by one key, which makes two audits
  share the parsers (`InterpretationBounds`).

The theorems of section 5 have none of these bounds.

### Fairness

Safety runs assume none. The liveness properties use `OperatedSpec`: the clock
goes on (`WF` of `Tick`), is not set back for ever (`<>[][~ClockSetBack]`), and
`reclaim` is called again and again for every task. The code schedules nothing by
itself: no daemon calls `reclaim`, so this is what the service asks of its
operator, and the property says that nothing more is needed. Nothing is assumed of
callers: they may be killed, stop or hold on for ever (then the attempt is not
abandoned).

## 4. What the checks found

1. **A repeated Read registration fails after a retry** (`read_repeat`).
   `read_tasks/service.py:208` looks up the latest task of a budget by
   `order_by(generation.desc())` and `scalar_one()` without `limit(1)`. With a
   second generation that is `database_failed`; `contracts/read-tasks.md:27`
   promises a return to the original budget.
2. **A Read holder can act after its deadline** (`read_drift`). Ownership is
   checked with one clock reading, the stored time is another; when the deadline
   falls between them the archive holds a renewal or settlement that
   `validate_all` refuses. With one reading per transaction (`Drift = 0`) it does
   not happen: `LeasesAreValid` proves it.
3. **A registered blob may be lost with its directory** (`archive_power_loss`).
   `storage/blob_store.py:42` returns at once for a directory that exists, also
   when the process that made it has not synced it into its parent.
   `RegisteredIsSynced` shows that this is the only gap.
4. **An intent to rebuild may never be completed** (`pi_rebuild`). A rebuild that is
   killed, or cannot unlink, after the registration of its installation leaves its
   intent; once that installation is retired every further rebuild is refused
   (`pi_supply/service.py:547`).

Met while modelling, and left without a run; the properties named are stated
so that they hold beside them:

* The exact replay of a publisher or registry request whose identity conflict was
  retained goes through the checks of the source first and may answer
  `invalid_observation` (`contracts/paper-facts.md:312`). `ReceiptsStand` speaks of
  conflict receipts of feed items only.
* A feed item that its parser has interpreted and that is seen again at another time is
  accepted with the first receipt, until a later parser has read it; from then on the
  same request is refused (`papers/feed_repository.py:166`). Only the later sighting
  was recorded, so it is no replay in the sense of `contracts/paper-facts.md:137`;
  `ReceiptsStand` makes the exception with `SeenLater`.
* With two parsers in use, material a check has submitted may be taken by another
  check with the other parser, and a resume of the first then ends differently; with
  two versions of the abstract rules, a fetched run may be refused for ever by a page
  another run has committed (`feed_metadata/service.py:1`). `PreparationsGoThrough`
  is about one version in use.
* `historical_result_in_connection` raises `corrupt_reference` when a run was frozen
  without a DOI and one was bound later (`feed_metadata/service.py:511`).
* A Docling worker runs in a session of its own: after a kill of its parent the
  kernel frees the root lock while the worker goes on, and the next holder converts
  beside it (`docling-execution.md:71`).
* `acquire_source` of the fixture audit is public with `previous_execution_id`:
  continuing a sampling execution under a key of one's own makes a later run or
  resume fail. `AuditsGoThrough` excludes that.
* Once `PipeSession.terminate` has passed its deadline, later calls raise
  `CLOSE_TIMEOUT` even if the group has died, so the directory of the attempt is not
  removed; an orphaned Pi may run beside the next holder (`ExecutionIsSound` says what
  still holds of it).
* A kill in the middle of a write leaves a half line in the log, and the next event of
  another process is glued to it (`runtime_logging/files.py:95`): its emit returns, but the
  line the two make is no JSON. `contracts/runtime-logging.md:39` promises a line for
  each event, `:98` that no event of several processes is torn while all fit, and
  `:89` excepts the last event before a kill. A kill in a rotation leaves a free number,
  and the next rotation unlinks the oldest file all the same (`files.py:84`), so
  fewer files stand than `MAX_FILES`. `NewestAreKept` says how far both may go: an event is glued
  to nothing but such a half line, and when a file goes no more numbers are free than
  rotations were killed.

* `register_pdf` and `register_pdf_backend` list the samples first
  (`fixture_audit/service.py:773` and `:821`) and judge every PDF by that list inside the
  write transaction (`fixture_audit/pdf_service.py:80`, `:130`). If a sample was declared and
  given its PDF in between, they answer `corrupt_reference`, the archive is damaged,
  although it is not; the next call succeeds. `HistoriesAreAccepted` says that
  this is the only case in which an archive is called damaged.
* `require_current_revision` looks at the revision and not at the journal mode, and WAL is set
  after the migrations are committed (`storage/database.py:151`): after a kill between the two,
  services work on an archive without WAL until somebody runs the upgrade again, which
  sets it (`UpgradeKeepsFacts`). A restored archive is not in WAL mode either: the copy
  is set to `journal_mode=DELETE` (`backup/service.py:275`).

Everything else checked holds. Two things that look dangerous and are not. Analyses
are unique per task only, and a task that failed may have a late submitter while its
successor runs: a retry needs both outcomes settled and a holder loses its rights
with the settlement (`OneAnalysisPerBudget`, stated by the theorem
`AnalysisIsTheLastWord`).
And a call writes a long prompt while Pi may be writing too: each pump also reads, so
no capacity of the pipes lets both block (`NobodyWaits`, proved as `NeverBothWaiting`).

## 5. What is proved

Eight modules, some 24,400 obligations, all checked by TLAPS. The theorems
hold for any number of callers, tasks, files, installations, parts and capacities;
the only hypotheses are the named assumptions on constants, which TLC evaluates in
every run. Each specification is proved through an inductive invariant, which TLC
had accepted on an instance first; the step proof has one lemma or step per action,
and families of actions that change the same things share a lemma.

| Module | Theorems (the property of a run each one states) |
|---|---|
| `ScreeningTasksProofs` | `Invariant`, `TypeCorrect`, `SuccessIsTheLastWord` (`SuccessClosesBudget`), `SingleAttempt`, `ArchiveInvariant`, `ArchiveAlwaysValidates` (`ArchiveValidates`), `CorrectionHolds` (`CorrectionWasChecked`), `SettledForEver` (`SettlementIsFinal`), `BudgetImplemented` (`ImplementsBudget`) |
| `ReadTasksProofs` | `Invariant`, `TypeCorrect`, `AnalysisIsTheLastWord`, `GenerationsChain` (`ChainValidates`), `SettledForEver` (`SettlementIsFinal`), `LeaseKept` (`LeaseIsHonoured`), `LeasesAreValid` (`LeasesValidate`), `BudgetImplemented` (`ImplementsBudget`) |
| `BackupProofs` | `Invariant`, `SyncedForGood` (`RegisteredIsSynced`), `NothingRebuilt` (`MissingIsNotRebuilt`), `BackupInvariant`, `BackupTypeCorrect`, `StoreIsLeftAlone`, `SnapshotIsServed` (`BackupFindsItsBlobs`), `PublishedStaysWhole` (`PublishedIsWhole`), `NothingReplaced` (`NothingIsReplaced`), `SyncedBesideBackups`, `NothingRebuiltBesideBackups` |
| `PiInstallsProofs` | `Invariant`, `InstallsTypeCorrect`, `HeldIsInPlace` (`HeldStaysInPlace`), `ProtectedStays` (`ProtectedIsNotRetired`), `HistoryAccepted` (`HistoryIsAccepted`), `DeletionAccounted` (`DeletionIsAccounted`), `LifecycleImplemented` (`ImplementsLifecycle`) |
| `PiExecutionProofs` | `ExecutionInvariant`, `ExecutionTypeCorrect`, `ExecutionsAreSound` (`ExecutionIsSound`) |
| `RpcCallProofs` | `RpcInvariant`, `RpcTypeCorrect`, `CallsAreSound` (`CallIsSound`), `NeverBothWaiting` (`NobodyWaits`) |
| `ServicesProofs` | `BodyInvariant`, `BodyTypeCorrect`, `BodiesAreAccepted` (`BodyIsAccepted`), `AuditInvariant`, `AuditsAreAccepted` (`AuditIsAccepted`), `AuditsGo` (`AuditsGoThrough`) |
| `InputsProofs` | `AcceptanceSound` (`AcceptanceIsSound`), `EligibilitySound` (`VerdictsAreSound`), `LogInvariant`, `NewestStay` (`NewestAreKept`), `HistoriesReload` (`HistoriesAreAccepted`) |

### The task services

Assumptions: `MappingAssumption`, `VerdictAssumption`, `TimeAssumption`,
`NullAssumption`, `ReportAssumption` of `ScreeningTasks`; `NumberAssumption`,
`NullAssumption`, `CandidateAssumption`, `FailureAssumption`, `RequestAssumption` of
`ReadTasks`. They say that leases are positive, that the null values are nobody's,
and that the outcomes reported by an executor are not those the service writes.

`SuccessClosesBudget` and `OneAttemptInFlight` are not inductive: a success could be
followed by a second one if a caller held an attempt number beyond what its task has, if
two tasks of a budget had the same generation, or if an older generation had an open
attempt. `IInv` of `ScreeningTasksProofs` adds `Counted` (at most two attempts per task,
all but the last settled), `Owned`, `CallersOwned` (what a caller has in hand was
granted), `UsedTasks`, `DistinctGenerations`, `OlderSuperseded` (in a generation that is
not the latest both attempts failed) and `SuccessHeld`. The steps that matter are
`RetryRecorded`, whose recovery settles the attempt in flight before it opens the
successor, and `SubmitAccepted`, where `Owns` says the attempt is the last and open and
`OlderSuperseded` puts it in the latest generation.

`AInv` of `ScreeningTasksProofs` adds what things remember of the steps that made them:
`RowsSound` (a row, of its claim and settlement), `TasksDescend` (a task, of the retry that
opened it), `SuccessesSound`, `ReceiptsSound`, `CallersSound` (a caller, of the correction
it was checked with and of the ownership it had before it published). With it
`validate_all` accepts every reachable archive, although the clock may run
backwards between any two transactions. The steps are classified by what they do to
rows. The refinement maps a budget to its generations of outcomes; a claim or retry
that also gives up an expired attempt is one step of `AttemptBudget` (`PendingGivenUp`
with `OpenStep` or `ClaimSpends`), every other step one or none.

`ReadTasksProofs` has the same argument with `Counted`, `TasksMade`,
`ParentsPrecede`, `DistinctGenerations`, `OlderUsedUp`, `AnalysesRecorded` (an analysis and
an accepted row stand for each other, which makes a table that is unique per task unique
per budget), `HandlesGranted`, `RequestsMatch`. `LeasesAreValid` needs `Drift = 0` and an
invariant of its own, `AllInTime`; finding 2 is why.

### Store, backups, installations

The first part of `BackupProofs` is about the store (`LayoutAssumption`,
`ManifestAssumption`): `RegisteredIsSynced` with `Good(p)` for every publisher: the members before its current one are durable, the
one it is syncing has an entry, and one that is past the check of a registered blob
does not meet it missing. The last holds because only a power loss removes a file, and it
stops every publisher: a check cannot be stale.

Its second part (`PlaceAssumption`, `FileAssumption`): `BInv` is the store's `IInv`,
`WorkersSound` (a snapshot's tree is new, a copying backup has copied blobs of its
snapshot, a tree that is ready is finished and synced) and `PlacesSound` (what has a name
is whole and synced). `StoreIsLeftAlone` shows that the specification with backups
implements the store's, which carries the theorems about the store over.

`PiInstallsProofs` (`NumberAssumption`, `NullAssumption`): `IInv` is `TypeOK`,
`LocksSound` (shared or exclusive, by processes that are there), `SharedSound` (what is
locked shared is in place and not retired), `CallersSound`, `PlansSound` and `SurveysSound`
(a plan describes the facts it was made from, and facts only grow), `RunsSound`,
`FramesSound` (at each of its steps a cleaner knows the phase of every installation of
its plan), `ProtectedIsNotRetired`, `RetirementsAccepted`, `PlacedOrRetired`,
`CompletedSound`. That a protected installation is not retired rests on the comparison of
the facts under the locks: between comparison and retirement nobody can write a fact that
matters, since the writer would have to hold what the cleaner holds. The refinement
shows for each installation that a step is a step of its abstract life
(`LifeStep`).

### Executions and calls

`PiExecutionProofs` (`NobodyAssumption`): `IInv` is `ExecutionTypeOK`, `FramesSound` (what
an executor holds, has compared, has claimed and runs in each of its phases),
`OrphansSound` (a process left behind still holds the installation it was started
in), `BudgetsSound` (all attempts but the last are settled, and an accepted one is of an
installation with evidence) and `RootSound` (from admission to release the root has one
reading). What an attempt was told is compared with the rows before it, which no later
step changes.

`RpcCallProofs` (`CallAssumption`: the sizes are positive). `IInv` has, besides types:
`PhaseSound` and `OpenSound` (what each phase of the call has behind it);
`StreamSound` and `SendSound` (the parts in Pi's input are a stream of whole
frames, the unfinished one is the one being written, and commands are numbered as they are
read); `PartsSound` and `DueSound` (what Pi writes is a stream of records, and fits what
it has read); `ArrivedSound` and `NothingLost` (what Pi has said is in exactly one place:
about to be written, in its pipe, with the call, or acted upon; and it is not said
twice); `ProcessSound`, `FaultShows` (a fault stays visible until the call ends, so no
candidate comes of a session that had one), `CandidateSound`, `ReturnSound`.
`NeverBothWaiting` follows without further induction: if nothing can be read or written,
both pipes and both ends are empty (`AllQuiet`), and then `NothingLost` contradicts that
the call waits for something. The lemmas about a pump (`PumpStream`, `PumpSound`,
`ReceivedSound`), about records (`RecordsTaken`, `RecordTaken`) and about a part that is read
(`ReadsStream`) are used by every step that moves data.

### Bodies, audits, the pure rules, the log and the histories

`ServicesProofs` has two parts. For a body (`ExtractorAssumption`) `BInv` is the types,
`FingerprintSound` (the attempts of a fingerprint are settled in order, and a success is
of an attached PDF), `SamplesSound`, `ExtractorsSound` (what a caller knows at its place:
past the lock it is the one holder, and the attempt it has claimed is the last and open)
and `BasesSound`. `BodyIsAccepted` rests on the lock: only its holder settles what another
left open, and what it settles has no holder any more. A basis stands because
what it refers to is append-only and the rules it is checked with look only at what was
there before it.

For an audit (`AuditorAssumption`) `AInv` is `AuditState` (references are to rows that are
there, and who works holds the lock of the plan), `AbstractsLoad` (what the loaders
ask), the summaries, and `FramesSound`; the frames say in particular that no choice
has seen an execution that somebody is fetching. That is what the settlement of an
execution needs: a choice retains the reason it saw, an open execution is seen as an
unknown outcome, and only its fetcher may give it another. A summary stays loadable
because choices end once the sampling is complete, and because the view is taken at its
boundary: executions that were open then count as open. The chains of executions are a
recursive function on the numbers of executions. That it is defined by its equation
(`ContinuedSolves`) is proved by a minimal counterexample over a set of numbers, where
a later execution may only continue an earlier one.

`AuditsGo` says that no run, resume or declaration is refused by the history it finds.
`AInv` is not enough for it: a history may load and yet leave a service with a key that
is taken or a choice that cannot be made. The invariant is `AInv /\ Goes`, and `Goes` says that
the history is in order (`InOrder`) and that each caller goes on with what its next step
asks for (`FramesGo`). In order means: the key of an execution tells what it continued
(`KeyFits`), the samples of a route are numbered without a gap (`SamplesCounted`), nothing
continues the frozen feed (`FeedStands`), and once the sampling is complete the
interpreted executions of a route are the first ones of its chain, in that order
(`RowsRead`). A step then looks at one chain: the next key is free because its number
is the length of the chain, the next interpretation is of the execution behind the last
row. The one exception is a caller of `acquire_source` who has continued an execution of the
sampling under a key of his own (`OfAnother`), which stays so for ever; section 4 has
what happens then.

`InputsProofs` (`CandidateAssumption`, `PaperFactsAssumption`): one call each, so `Init` and
one step. The work is in the comparison with the reference definition, for every candidate
and every projection of a paper. `AcceptanceSound` shows that what the final attempt keeps
is the largest of the rests that the first attempt would accept, out of the monotony of
the rules in the items; `EligibilitySound` goes through the rules of `evaluate_paper` by
the state of the decision, the extraction and the basis.

The log of a root is the third part of `InputsProofs` (`LogAssumption`). `NewestAreKept`
speaks of every file at every moment, also in the middle of a rotation, when two numbers
are without a file or the active one is not open yet. `LogInv` is the types, the order of
the parts, `PartsLogged` (what is in a file belongs to an event that was begun), `OneHolder`,
`WrittenStands` (the parts of a returned event are together or past), `PartsAnswered`
(whatever else is in a file is a half line or being written) and `HolderSound`: what the holder of the lock finds at each of its places,
for instance that nothing is under the number a file is about to be renamed to, and that
a line half written is the end of the active file. Every change of the files is one of four,
each with a lemma that the order survives it: the oldest goes (`LastDropped`), a file
moves up by one (`FileShifted`), a part is added (`PartAdded`), an unfinished line is
taken back (`LineTakenBack`). What stands right before a returned event follows from these
(`WrittenIsLine`): it is of an older event, which has returned, and then that is its newline,
or was cut off. `PlacesCounted` is a second invariant on top of `LogInv`: the free
numbers below a file (`Holes`) are no more than the killed rotations, where a rotation at
work does not count the one it has made and moves down with each rename; a kill there leaves
one hole more and one killed rotation more. So when a file goes, whose number and
number 1 are taken, every free number is such a hole.

The histories beside an audit are its fourth part (`DocumentsAssumption`: the entries of a
file are a sequence). `HistoriesAreAccepted` is not inductive: it says what a reader
accepts, and not why the next write will be accepted too. `HistoriesInv` has three
parts. `RegistryIsSound`: `RecordsLoad`, `PdfsLoad` for all the samples there are,
no two declarations of one version, a sample with a PDF has a current one.
`InterpretedIsSound`: every interpretation was made by a parser of its declaration on rows
the audit has, against the interpretation before it (`MadeBy`), and its key is its own.
`FrameIsSound`, for what a process holds while it works: what it has read still holds
when it writes, because histories only grow (`FrameStands`), and of an
interpretation that is about to be appended, that nobody else has appended since, because
of the lock of the plan (`OneAppender`). The current record of a scope and the newest
PDF of a sample are last elements of a growing sequence; the lemmas about them
(`NewestOf`, `CurrentRecord`, `CurrentPdf` over a longer sequence) carry the steps of the
three transactions. `CalledDamaged` shows that stale samples are the only way to a wrong
"damaged": a history that loads by all samples fails by fewer only if some PDF is of a
sample not among them.

## 6. What is only model-checked

* `AbandonedAttemptSettles` of both services, and whatever else needs fairness:
  liveness and `ENABLED` are out of the prover's reach.
* `ArchiveIsAccepted`, `ReceiptsStand`, `CheckHistoryIsAccepted`, `PreparationsGoThrough`,
  `PipelineValidates`, `RegisteredOnCurrentFacts`. They compare with a replay of the whole
  history, by folds and selections over sequences (`FoldLeft`, `SelectSeq`, `FlattenSeq`)
  whose results need an induction with an operator as its parameter; the installed
  provers cannot instantiate one. (That one particular recursive function satisfies its
  equation can be had from a minimal counterexample over a set, as for the chains above.)
* `UpgradeKeepsFacts`: `Upgraded` folds 25 migrations, each of which folds over the tables it
  rebuilds; the archives an upgrade can find are enumerated and TLC computes them.
* `ConfigIsReplayable`: compared with a load from the stored rows on the files of `MCInputs`.
* The four violated properties, by their counterexamples.

No module with a theorem reaches a `RECURSIVE` operator; recursion is written as
recursive functions or folds.

## 7. Not modelled

* `fulltext/`, `screening/validation.py` and `success_rules.py`: text conversion and checks
  of content; the task services use their verdict.
* `doctor/`, `calibration/`, `sources/`, `read_queries/`, `contracts/`, `cli.py` and the
  other commands: read-only views, parsers, frozen schemas, argument handling.
* `evaluate_concept` over several papers, `snapshot_queries.py`, the query services, the
  wording of calls and presentations, the fields of a log event and their redaction.
* Acquisition and export of a Pi supply, the order of its `fsync`s, the Landlock rules and
  the limits of the sandbox.
* Canonical JSON, hashing, YAML, PDF and HTML conversion: a content is a model value and a
  hash is its identity. Network: what a fetch returns is chosen from a small set.
* SQLite itself: serialised write transactions and durable commits are assumed, as the
  code configures them (`storage/database.py`). Downgrades of the schema: nothing calls
  them.

## 8. Plan

Done: the modules of section 2 and the theorems of section 5. Next, in this order:

1. Proofs: the parts of `ReceiptsStand` that do not replay; that a migration keeps every
   link (`TablesRebuilt`), table by table.
2. Models: language observations and policies of the screening tasks
   (`screening_tasks/language.py`), which change what a success means after it was
   accepted; `screening/validation.py` with `success_rules.py` as pure operators.
3. Models: acquisition and export of a Pi supply with their staging; `evaluate_concept`
   with duplicates.
