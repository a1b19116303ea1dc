# OpenHippo in TLA+

OpenHippo is a memory service for agents: a small *hot* store that goes into
every prompt, a large *cold* store that is searched by text and by vector, a
queue that computes the vectors, and a *dream* engine that merges and forgets
cold rows at night. This directory holds TLA+ modules for its core logic, the
TLC configurations that check them on small instances, and theorems about them
with proofs that TLAPS checks. Paths below are relative to
`src/src/openhippo/` unless they start with `src/`.

How to run: `tlc -config MCEmbedQueue_live.cfg MCEmbedQueue` (and likewise for
each `.cfg`, whose name begins with that of its module) and `tlapm M.tla` for
`M` each of `EmbedQueueProofs`, `DreamLifecycleProofs`, `HotTierProofs`,
`HybridSearchProofs`, `ImporterProofs`, `MigrationsProofs`, `SdkWalProofs` and
`RecallCacheProofs`.

## 1. Inventory

**Where concurrency comes from.** REST handlers (`api/rest.py`) are plain
functions that run in a thread pool, each thread with its own SQLite connection
in WAL mode. Reads are single statements outside any transaction; writes are
implicit transactions up to `commit()`, or `atomic` (BEGIN IMMEDIATE, or a
savepoint when nested). One asyncio task drains the embedding queue and calls
the provider in a thread; another runs a dream every 24 hours in a thread. The
MCP server and the command line are further processes on the same file.
Nothing but SQLite's write lock excludes any of them from any other, so that
whatever is read in one statement may be stale when a later transaction uses it.

| component | state | operations | what is hard | what makes it correct |
|---|---|---|---|---|
| embedding queue (`core/embed_queue.py`, part of `core/engine.py`) | `embedding_jobs`, their version snapshots, receipts; the worker's claimed job | enqueue, claim, complete, fail, reset at start, cleanup, worker loop, drain, backfill | embedding happens outside transactions; late answers; restarts; retries with a cap | no stale vector stored; a closed job stays closed; a closed job leaves its row findable; every job settles; receipts tell the truth |
| vector index and space gate (`core/storage.py`) | `cold_embeddings`, `cold_memory_vec`, `embedding_spaces` | `vec_store`, `cold_update`, space check, legacy adoption, KNN search | the provider changes between embedding and storing; vectors of unknown origin | one space at a time; vectors belong to the present text of existing rows |
| dream engine (`core/dream.py`) | `dream_status`, `consolidated_into`, `merged_from`, `last_dream_at`, `dream_runs`, `dream_actions` | recall, cluster, merge, forget, restore, purge | reads and writes in different transactions, by id; a cluster failing halfway; two dreams at once | seeds are older than their members; status and seed agree; audit tells the truth; merges are whole; deletions stick; only overdue rows are purged |
| soft delete (`core/storage.py` `cold_delete`, `_mark_dormant`) | the same columns | delete, the cold side of promote | the same | the same |
| hot tier (`core/storage.py`, `core/engine.py`) | `hot_memory` | add with dedup, replace, remove, evict, archive, promote | each is several commits; duplicates are checked before, not while, inserting; eviction names rows by a text prefix | no memory lost, none left in both tiers but by a promote that died |
| search (`core/storage.py`, `core/engine.py`) | none | text, vector, hybrid (rank fusion), growing KNN window over hidden rows | filtered rows use up the window | the k best visible rows are returned |
| reconciliation (`reconcile.py`) | `embedding_job_reconciliation` | plan over exhausted jobs, apply under a fingerprint | the plan is stale when applied | a job is called resolved only on evidence that still holds |
| embedding providers and cache (`core/embedding.py`) | LRU cache, current provider | embed, switch provider | configuration changes while embedding | a vector is labelled with the space it was made in |
| import, export (`core/importer.py`, `core/export.py`) | none of their own | restore records with conflicts, write a backup | partial restore, retry | a retried restore is a no-op |
| migrations (`core/migrations_runner.py`, `core/migrations/`) | `schema_version` | apply in order | a crash inside a migration | a migration is applied whole or not at all |
| REST server (`api/rest.py`) | tasks, dream counters | lifespan, handlers | shutdown order | the worker is started after the reset |
| MCP server, command line (`api/mcp_server.py`, `cli.py`) | none | forward to the engine | | |
| SDK (`src/clients/hippo-sdk-python/`) | write-ahead log file, dead-letter file, recall cache, metrics | append, replay, rotate, recall | lost answers, appends during a replay, crash between send and rewrite, file operations that fail, lines that cannot be read again | what is lost is lost in known places; no endless retries |
| configuration, audit page, scripts | none | | | |

The hazards found in this code, each at its line and with the properties that
watch it, are the `hazards` of `PROJECT.json`.

## 2. Modules

| module | what it is | instances, proofs |
|---|---|---|
| `EmbedQueue` | the queue with request threads, drainers, provider, faults and operators | `MCEmbedQueue`, `EmbedQueueProofs` |
| `VectorIndex` | abstract: what the index promises its readers; `EmbedQueue` implements it | |
| `Reconcile` | reconciliation of failed jobs, composed with `EmbedQueue` | `MCReconcile`, `EmbedQueueProofs` |
| `DreamLifecycle` | the life of cold rows under dreams, deletes, restores and purges | `MCDreamLifecycle`, `DreamLifecycleProofs` |
| `HotTier` | the hot tier and the ways between the tiers | `MCHotTier`, `HotTierProofs` |
| `VectorSearch` | the growing KNN window | `MCVectorSearch`, `HybridSearchProofs` |
| `HybridSearch` | searches by text, vector and both, among rows that change | `MCHybridSearch`, `HybridSearchProofs` |
| `Importer` | export, import, dry run and `--reembed`, beside other programs | `MCImporter`, `ImporterProofs` |
| `Migrations` | the migration runner in several processes that may die | `MCMigrations`, `MigrationsProofs` |
| `SdkWal` | the SDK's log of unanswered writes, as file operations | `MCSdkWal`, `SdkWalProofs` |
| `RetryQueue` | abstract: what such a log promises; `SdkWal` implements it | |
| `RecallCache` | the SDK's cache of answers | `MCRecallCache`, `RecallCacheProofs` |

The modules share the database in the code and not here: `Reconcile` extends
`EmbedQueue`, whose tables it reads; each other module lets the writes of the
rest happen as steps of "other programs" with all the outcomes they can have
(`HybridSearch!ChangeStatus` stands for the dream engine, `Importer!Embed` for the queue, `EmbedQueue!PurgeRow` for the purge).

### EmbedQueue

One action is one SQLite transaction or one call of the provider; everything
that can happen between two of them can happen here.

* A row is its text and a revision. The revision stands for `updated_at`:
  `cold_update` writes the later of the clock and the next float, so it always
  grows. `created_at` never changes. Identifiers are never used again, so a
  purged row stays `Purged`.
* A vector is the text it was made of and its space; the three vector tables,
  always written together, are one function. The unknown space of vectors from
  before the space metadata is `None`. All spaces are spaces of one model, as
  adoption would refuse another.
* A job carries the version row of `embedding_job_versions`. A receipt carries
  text, revision and vector, which the code keeps as hashes.
* Request threads: `ColdAdd` then `Enqueue` (or `EnqueueRefused`, when the
  queue raises or is switched off, and the thread embeds itself), with
  `RereadText` between them when the row comes from `archive`; `Backfill`;
  `ReadEntry`/`EmbedEntry`/`StoreEntry` for `_embed_cold_entry`;
  `BeginUpdate`/`EmbedNew`/`CommitUpdate` for `cold_update`; `Abandon` for any
  exception or a dying process.
* A drainer is a server's worker, or `embed_drain_now`: `Startup`, `Fetch`,
  `EmbedJob` or `EmbedJobFails`, one of the four outcomes of `complete_job`,
  `MarkFailed`.
* Faults: `Crash`, and the two writes whose failure is only logged
  (`StartupResetFails`, `MarkFailedFails`). Whatever else writes the tables:
  `CleanupDone`, `PurgeRow`, `AdoptLegacySpace`, `SwitchProvider`, and
  `InsertUnqueued`, the row that `hot_remove` archives (for `remove`, and the
  first of the two copies that an eviction makes) or that an import brings
  without a vector: nobody enqueues it. An import that brings rows with their
  vectors is in `Importer` only.
* Left out: the hold that an audited job puts on `fetch_one_pending` (it only
  removes jobs from those that may be claimed; see `Reconcile`), the vector cache (it returns what the provider would),
  error texts, timestamps of jobs.

### VectorIndex

Abstract: the index maps rows to vectors. Its steps insert a row, embed one,
rewrite one with its vector, forget one, and adopt a space for vectors without
one. The refinement `ImplementsIndex` hides jobs, claims and threads.

### DreamLifecycle

* A row is numbered by age (`created_at`, ties by id). Its state is
  `dream_status` (with `gone` for a deleted row), `consolidated_into`,
  `merged_from`, whether its retention has run out, and the last status change
  recorded about it in `dream_actions`. The rows `forget` and
  `consolidate_seed` of that table tell of no further change of status and are
  left out.
* A dream finds all its clusters first (`Recall`), then reads each one again
  (`ReadCluster`) and merges it in one commit (`MergeCluster`). `MergeFails` is
  a busy database; `MergeHalf` is the exception in the middle, which is caught
  without a rollback. That the half is committed in the same step is sound: the
  connection holds the write lock until its next commit, so nobody can write,
  and nobody else's read sees the half, before it.
* `ForgetSelect` then one `ForgetOne` per row; `BeginDelete`/`Delete` and
  `BeginRestore`/`Restore` for requests; `PurgeSelect` then one `PurgeOne` (or
  `PurgeFails`) per row. No caller of the purge is in this repository: it is a
  process of an operator.
* Abstracted: which rows are similar and which have decayed is data, so any
  disjoint clustering of at least two live rows and any set to forget may come
  out. A row inserted later is thus a row that nothing has touched yet.
  Importance and access counts, `dream_runs` and the lengths of retention are
  left out; a row becomes overdue at some time after `last_dream_at` was
  written. `Unreadable` rows are those whose imported `importance` is not a
  number. Rows imported with the columns of a life already lived are not among
  the initial states.

### Reconcile

* `Plan` is one read transaction over failed jobs (the dry run). For each job
  `Apply` or `Refuse` is a transaction that reads the evidence anew, compares
  it with the plan's and writes an audit, or nothing; `Drop` is a busy database
  or the end of the process. The fingerprint of the evidence is the evidence.
* `Requeue` gives a row that had a job another one, as a program beside the
  server may; the server itself enqueues each row once.
* All steps of `EmbedQueue` go on beside it. Its worker does not look at
  audits: `apply_plan` promises to be safe with one that does not know them,
  which is the harder case, so the hold on `fetch_one_pending` is left out.

### HotTier

* An action is one read or one commit. `add` searches for an equal text, asks
  for a near one, inserts, and evicts; `hot_remove` selects, deletes, and
  writes the cold copy; archive, promote and eviction likewise. `Dies` ends a
  request between any two of them.
* `add` reads the tier three times: its characters (`ReadChars`), its entries to
  count them (`ReadCount`), and once more in `_evict_hot` (`ListEntries`).
* Texts are atoms; length, normal form, first 60 characters, occurrence in
  another text and nearness are constants, so that an instance chooses the
  texts that are hard. `TextAssumption` says no more of them than what any
  strings fulfil: a text occurs in itself, and its beginning in it.
* `_semantic_match_hot` is not modelled: it needs a configuration that the
  engine never gets.

### VectorSearch and HybridSearch

* `VectorSearch` keeps the control of `vec_search`: the window doubles up to the
  index's ceiling, the index may answer with any choice among equally distant rows
  (`Knn`), `Proven` is the condition under which nothing can be missing, and
  the last resort measures every row. The reference is the definition of the
  result by sorting everything. A sorted list is given by ranks: the row at
  place `i` is the one before which `i - 1` others come. Its names are told
  apart from those of `HybridSearch` (`VSpec`, `VInit`), beside which it is
  proved about.
* `HybridSearch` has one action per transaction: text hits (any order, as the
  ranking is data), the provider, the vectors, the counts. Scores of the fusion
  are fractions compared by cross multiplication. What sorting gives is the
  sequences in which nothing comes before what it should follow. `VectorSearch`
  comes in by its result, which `VectorReadsJustified` shows to be the one it
  delivers.

### Importer

* A record is one savepoint (`ImportRecord`), or, with `--reembed`, two steps
  with the provider between them (`AskProvider`, `ProviderAnswers`), where the
  transaction is refused if anyone wrote since it read (`current`). `Busy` and
  `ProviderFails` are the errors that come from outside; `Die` stops an import
  between records.
* `Outcome` is what `_restore_record` decides; a dry run folds it over the
  records in one transaction.
* All columns of a row are one value. Backups are those that `Export` makes of
  the present database, and the few of other databases that
  `MCImporter!MCBackups` lists, with vectors of two spaces, of an unknown one,
  none, and one record twice.

### Migrations

* One action per statement: `executescript` commits the open transaction first
  and each statement by itself. A Python migration and its version are one
  transaction. Every process that opens the database runs the scripts, and may
  die at each statement.
* The scripts of the instance are those of the repository cut down to one
  statement of each kind: tables, two columns and an index, a trigger with the
  three statements of migration 011 about rows, and a Python migration. In general
  any scripts will do in which only SQL changes rows and, as in 011, hides them
  before it audits them.

### SdkWal, RetryQueue and RecallCache

* `SdkWal` has one action per request, read or write of the file. `write_text`
  is two (`Truncate`, `Fill`), because an agent that stops between them leaves
  an empty file. The server executes a request or not, and its answer arrives
  or not.
* An agent stops in two ways: it dies (`Crash`), or an operation on a file
  raises (`Fails`), which `append`, `_rotate` and `replay` catch and log. Either
  may leave any part of what was being written, the last line cut. The one
  failure after which `replay` goes on, that of `_move_to_dead`, is
  `ReplayBuryFails`: the entry is dropped all the same.
* What a line holds is abstracted to how it is read again. An entry of `Splits` holds
  U+2028, U+2029 or U+0085, which `json.dumps(..., ensure_ascii=False)` leaves
  as they are and `str.splitlines` takes for line ends: its pieces are no JSON and are
  dropped (`Junk`), or one of them is JSON and no object (`Odds`), on which
  `entry.get` raises (`ReplayRaises`). A cut line is `Half`, or `Torn` when it
  was cut within a multibyte character; then `read_text` raises (`Readable`),
  so no replay and no rotation does anything. What is appended to a cut line
  becomes part of it (`Joined`).
* Simplified: the pieces of an entry count as one line against `MaxLines` and
  `Keep`; a line cut just before its newline counts as cut; a cut line
  never holds a whole odd piece; no piece is an object; the dead-letter file has no
  order, and nothing reads it.
* `RetryQueue` knows writes as pending, executed, buried, or `forgotten` (given
  up, but not in the dead-letter file), and as lost by a fault or because they
  are `Frail`, that is, cannot be read again. The refinement takes as pending
  also what is in the hands of an agent that is about to fill the file.
* `RecallCache` has the two locked sections, `get` and `set`, and the request
  between them. An answer is what was asked and when the server looked. The
  store is a sequence from the least to the most recently used, as the code's
  `OrderedDict` is. `recent` is history: the keys in the order of their last
  use, against which that order is checked.

## 3. Properties and runs

| run | what is in it | what it shows |
|---|---|---|
| `eq_live` | two rows with a job each and a legacy one, or fewer with rewrites and a fault; two spaces | `TypeOK`; `SingleSpace`: vectors of two spaces are never in the index together; `ImplementsIndex`: nothing stale is ever visible; `JobsSettle`: every job is in the end done or out of attempts |
| `rec_all` | one row with up to two jobs, rewritten A-B-A by a thread while it is claimed, embedded, retried and completed; one failing bookkeeping write; an operator who plans and applies | `VectorFresh`, `ReceiptVouches`, `DoneMeansIndexed`, `DoneIsFinal` of the queue; `OnlyFaultsStrand`: no row drops out of sight without a vector unless a thread dies on it; `ExplainedStayFindable`: a failure no longer counted stays harmless; `AuditsTellTruth`; `NoRepeatedAudit` |
| `dream_two` | two dreams, an unreadable row, a user and a purge | `OldestFirst`, `StatusMatchesSeed`, `AuditExplains`; `MembersStayKnown`: a seed forgets a member only by a half merge or an outdated write |
| `dream_undelete` | one dream and one user | violation of `DeletionsStick` |
| `hot_all` | one client with up to three hot and five cold rows, or two clients with two each, one death; texts that contain each other's beginnings | `OneTierAtATime`: a memory is in both tiers only by a promote that died or a later restore; `OnlyFaultsLose`: what leaves the hot tier arrives in the cold one; `AddsOnlyNew`, `OldestGoFirst`, `EvictionSuffices` of requests that follow one another |
| `wal_all` | one agent, three writes (one of them split, one with a piece that is no object), a log of one line, a death and a failure | `SendsBounded`; `OnlyFaultsDrop`: a write is lost only in the places named; `ImplementsQueue`; `LogDrains`: a log that does not stay blocked is drained |
| `cache_two` | two threads, three keys and room for two | `HitIsRecent`, `HitAnswersQuery`, `EvictsLeastRecent` |
| `vec_all` | all indexes of five rows at three distances, all filters and limits | `ResultIsExact`, `Answers` |
| `hyb_two` | two searches and two changes of rows | `ReturnsWhatWasActive`, `CountsOnlyReturned`, `FusionIsFair` |
| `imp_two` | two imports, a death and a write of another program | `RestoresTheBackup`, `RetryFindsAllDone`, `AsPreviewed`, `IndexSound`, `NeverOverwrites` |
| `mig_dies` | three processes, two deaths | `VersionIsTrue`; `AllComeUp` |
| `mig_half` | one process, one death | violation of `ScriptsAreAtomic` |

Each property of a passing run fails once one definition of the model is
changed the way a bug in that code would change it; the changed forms stand in
the modules under "mistakes this code could plausibly have made". Every module
states its type invariant; a run checks that of `EmbedQueue`, whose types say
something (attempts stay below their cap), and its proof and that of
`DreamLifecycle` are in section 4.

**Exceptions.** Some properties hold except in cases that they name. Each case
is behaviour of the code that a reader should know:

* *A failed bookkeeping write strands a job.* When `mark_failed` fails itself
  the job stays `running`, which no drainer selects, until the next successful
  start (`JobsSettle` excepts `lost > 0`).
* *A row is stranded* without vector, job or thread when the thread that
  inserted it dies, or gets no answer, before the row has one of them, or finds
  the index closed to its space; only a backfill finds it (`OnlyFaultsStrand`
  names these steps, and shows that no other does it). A row that `hot_remove`
  archives is never handed to the queue, nor is one imported without a vector:
  it begins stranded, so that, once restored, it is found by text only, until a
  backfill (`InsertUnqueued`, named by the property too).
* *Two dreams overwrite each other's `merged_from`*, which each read before the
  other wrote, and a cluster with an importance that is no number is merged by
  half: its members are hidden and the seed does not know them
  (`MembersStayKnown`).
* *Forgetting and purging go by ids selected earlier.* A row restored or deleted
  in between is marked or deleted all the same; the audit trail tells it
  (`AuditExplains`), and no property claims otherwise.
* *Hot rows are lost* when a request dies between its delete and the cold
  copy, and the newer text is lost when a row is replaced between select and
  delete (`OnlyFaultsLose`).
* *A memory is in both tiers*, and found in both, when a promote dies between
  inserting the hot row and hiding the cold one, or when the hidden row is
  restored (`OneTierAtATime`). The hidden copy of a promoted row always stays.
* *Equal texts* are both inserted when two adds run at once, so
  `AddsOnlyNew`, like the two properties of eviction, is stated for requests
  that follow one another (`Alone`). An evicted row may get two cold copies.
* *Eviction names a row by its first 60 characters* and takes the shortest row in
  which they occur. Where a listed text is no longer than another one whose
  beginning it contains (`~Apart`), the wrong row goes and `current_chars` drops
  by the length of the other, so the tier may stay above its limit, in one
  sequential run. `OldestGoFirst` and the sizes of `EvictionSuffices` are for
  lists without such a pair; the run has texts with it.
* *The log of writes* loses what it holds when an agent stops between emptying
  and filling it, an entry appended to a cut line, any entry with a separator
  of `splitlines`, and an exhausted one that the dead-letter file does not take;
  each stop before the rewrite may send all entries once more, uncounted
  (`OnlyFaultsDrop`, `SendsBounded`). A write whose append fails never was in the
  log: its caller learns only that the server has not acknowledged it.
* *The log is blocked* by a character that was cut in two, for every later
  replay, and by a piece of a split line that is JSON and no object; nothing
  in it is sent any more (`LogDrains` excepts a log that stays blocked).
* *Rotation* buries entries that were never tried. *Two agents on one log*: the replay of
  one overwrites what the other has appended meanwhile, so the run has one.
* *The cache key is cut* at 256 characters, the request at 500: two longer
  queries may share an answer (`HitAnswersQuery`).
* *A dry run with `--reembed`* uses the vectors of the backup, the real run the
  provider's: `AsPreviewed` is about imports without it.
* *A death after an ALTER TABLE* leaves a database no process can migrate, and
  migration 011 stops for good if its snapshot row was forgotten before
  (`AllComeUp`).

**Bounds.** `EmbedQueue`: `MaxRev = 3` in `rec_all` lets a text go from A to B
and back, which a check by text alone would miss; `MaxAttempts = 2` tells a
retry from the last try (the code has 5); two jobs must not starve each other;
`MaxCrashes` and `MaxLost` of one put a fault at every point once. In the server
each row has one job, in `rec_all` two at most. `DreamLifecycle` is finite
without bounds: four rows give a chain of merges and an overlap of two
clusters. `HotTier`: three rows with a limit of two make eviction start, by
number or by length; `pa` is `a` with a known prefix, `b` is near `a`, shorter,
and begins like it; `ca` and `cpa` are where they are cut. `VectorSearch`: windows
of two and four rows out of five let the index answer too little twice.
`RecallCache`: `TTL`, `Delay` and clock are the least that separate a fresh
entry, one that expires, and one that overtakes. `Migrations`: three processes
are one more than can collide on one statement. `SdkWal`: one line fewer than
there are writes makes the log rotate; one death and one failure put each at
every point once, in either order (two failures pass as well, in a longer run).

**Constraints** cut state spaces where two dimensions multiply and have no
bearing on each other: `RewritesOrJobs` (rewritten twice with one job, once
with two), `TwoAtOnce` and `OneLeftAlone` (of all dreamers, users and purges two
under way; one of two rows of the same kind untouched), `HotTier`'s `FewerRows`
(two clients share two rows per tier), `FewerKinds` (the second query has one
set of options). `FewerRows` of `eq_live`, a run with liveness, cuts only steps
of threads and faults, of which no fairness is assumed, so each fair behaviour
of what is left is one of the whole. A check with one drainer leaves two
servers on one file to the theorems, which hold for any number, except for
`DoneMeansIndexed`, which two servers can break, and `OnlyFaultsStrand`, which
rests on it (section 4).

**Symmetry** is used where no property is a liveness property: over texts,
threads, clients, dreamers, importers, searchers and operators, none of which a
definition names. Rows are told apart by age, id or distance.

**Deadlock** is checked in `dream_two`, which never stops. In the other runs
the bounded system stops when its bounds are used up, a search when it has
answered, and migration when all processes are up.

**Fairness.** Each is weak fairness of steps that the code takes by itself:

* `EmbedQueue!FairSpec`: a drainer's own steps; the server is a service that is
  started again, its worker loops until it is stopped, and each of its calls
  returns or raises (`embedding_worker`). Nothing of request threads, of the
  provider, which may fail always, or of operators.
* `SdkWal!FairSpec`: agents call `drain_wal` at the start of each hook, and
  each call returns; nothing of the server, nor that new writes are made.
* `VectorSearch!VFairSpec`: sequential code runs on.
* `Migrations!FairSpec`: a process runs on, and one that ended is started again.

## 4. What is proved

For any number of rows, texts, spaces, threads, drainers, clients, dreamers,
purgers, searchers, imports and processes, and any bounds, except where the table
says "one". The assumptions are the named
ones of each module (bounds are natural numbers, `None` is no value of the
data, ids of cold and hot rows differ, only cold rows have vectors in a backup
and the like); TLC evaluates them in the runs.

| theorem | statement |
|---|---|
| `EmbedQueueProofs!TypeCorrect` | `Spec => []TypeOK` |
| `EmbedQueueProofs!Freshness` | `Spec => []VectorFresh` |
| `EmbedQueueProofs!OneSpace` | `Spec => []SingleSpace` |
| `EmbedQueueProofs!ReceiptsTruthful` | `Spec => []ReceiptVouches` |
| `EmbedQueueProofs!DoneStaysDone` | `Spec => DoneIsFinal` |
| `EmbedQueueProofs!Refinement` | `Spec => ImplementsIndex` |
| `EmbedQueueProofs!RunningJobsAttended` | `Spec => []RunningIsHeld` |
| `EmbedQueueProofs!ClosedJobsIndexed` | one drainer: `Spec => []DoneMeansIndexed` |
| `EmbedQueueProofs!ClosedJobsIndexedBeside` | one drainer: `RSpec => []DoneMeansIndexed` |
| `EmbedQueueProofs!QueueStrandsNone` | one drainer: `Spec => OnlyFaultsStrand` |
| `EmbedQueueProofs!QueueStrandsNoneBeside` | one drainer: `RSpec => OnlyFaultsStrand` |
| `EmbedQueueProofs!TablesStaySound` | `RSpec => [](VectorFresh /\ SingleSpace /\ ReceiptVouches)` |
| `EmbedQueueProofs!RefinementBeside` | `RSpec => ImplementsIndex` |
| `EmbedQueueProofs!DoneStaysDoneBeside` | `RSpec => DoneIsFinal` |
| `EmbedQueueProofs!AuditsAreTrue` | `RSpec => AuditsTellTruth` |
| `EmbedQueueProofs!ExplanationsLast` | `RSpec => []ExplainedStayFindable` |
| `EmbedQueueProofs!AuditsNotRepeated` | `RSpec => []NoRepeatedAudit` |
| `DreamLifecycleProofs!TypeCorrect` | `Spec => []TypeOK` |
| `DreamLifecycleProofs!MergesIntoOlder` | `Spec => []OldestFirst` |
| `DreamLifecycleProofs!StatusAgrees` | `Spec => []StatusMatchesSeed` |
| `DreamLifecycleProofs!AuditComplete` | `Spec => []AuditExplains` |
| `DreamLifecycleProofs!AlwaysAnchored` | `Spec => []Anchored` |
| `DreamLifecycleProofs!MembersLostByOverlapOnly` | `Spec => MembersStayKnown` |
| `HotTierProofs!OneTierUnlessPromoteDies` | `Spec => OneTierAtATime` |
| `HotTierProofs!OnlyFaultsLoseMemories` | `Spec => OnlyFaultsLose` |
| `HotTierProofs!AddsOnlyTheNew` | `MCSpec => AddsOnlyNew` |
| `HotTierProofs!OldestAlwaysFirst` | `MCSpec => []OldestGoFirst` |
| `HotTierProofs!EvictionIsEnough` | `MCSpec => []EvictionSuffices` |
| `HybridSearchProofs!CountsHonest` | `Spec => []CountsOnlyReturned` |
| `HybridSearchProofs!BothBeatOne` | the arithmetic of `BothFirst`, for all ranks |
| `HybridSearchProofs!AnswersWereActive` | `Spec => []ReturnsWhatWasActive` |
| `HybridSearchProofs!FusionAlwaysFair` | `Spec => []FusionIsFair` |
| `HybridSearchProofs!SearchesAreExact` | `VSpec => []ResultIsExact` |
| `HybridSearchProofs!VectorReadsJustified` | over one corpus, `VSpec` answers with one of `VectorResults` |
| `ImporterProofs!IndexAlwaysSound` | `Spec => []IndexSound` |
| `ImporterProofs!NothingOverwritten` | `Spec => NeverOverwrites` |
| `ImporterProofs!ImportRestores` | `Spec => []RestoresTheBackup` |
| `ImporterProofs!RetryIsIdempotent` | `Spec => []RetryFindsAllDone` |
| `ImporterProofs!DryRunForetells` | `Spec => []AsPreviewed` |
| `MigrationsProofs!VersionAlwaysTrue` | `Spec => []VersionIsTrue` |
| `SdkWalProofs!SendsAreBounded` | one agent: `Spec => []SendsBounded` |
| `SdkWalProofs!LossNeedsAFault` | one agent: `Spec => OnlyFaultsDrop` |
| `SdkWalProofs!LogIsARetryQueue` | one agent: `Spec => ImplementsQueue` |
| `RecallCacheProofs!HitsAreRecent` | `Spec => []HitIsRecent` |
| `RecallCacheProofs!HitsAnswerTheQuery` | `Spec => []HitAnswersQuery` |
| `RecallCacheProofs!LeastRecentGoesFirst` | `Spec => EvictsLeastRecent` |

*EmbedQueue.* Freshness is not inductive alone: a completion relies on what the
drainer holds. The inductive invariant (`Inv`) is the type invariant, that a
running job has an attempt left (what keeps the count in its type when
`mark_failed` adds to it), that a drainer between two transactions has a claim
and, before it completes, a vector of that claim's text, and likewise for a
thread and the entry it read. From it follows what a step can do to rows and
vectors at all (`DataStep`): insert, write a vector of the row's present text in
the space all others have, rewrite a row with its vector to a later revision,
purge, or adopt a space. `VectorFresh`, `SingleSpace` and the refinement
need only that. For receipts, a further invariant (`RInv`) says that none is for
a later revision than its row has, so that whoever changes the vector after it
has made the revision later too, or embedded the same text in the same space.
`DoneIsFinal` needs one more fact, that no job has a number that was not yet
given (`JobsInOrder`), as `enqueue` would otherwise write over a closed one.

`DoneMeansIndexed` is about the one way in which a job may be closed without a
vector: its version is no longer the row's. Its invariant (`IndexInv`) says that
a row that was ever rewritten has a vector, that a job carries a revision its
row has or had, with the text of that revision, and that a claim whose job still
runs is of this run of it. The last is what needs one drainer: a second server
that starts resets the job and tries it again, after which the first drainer,
completing a claim of other attempts, closes the job as stale.

`OnlyFaultsStrand` follows from it: of the jobs of a row without a vector the
last is not closed, and an open job is never deleted, so such a row leaves the
queue only if it was never in it. Two kinds of rows never are: those of a thread,
and those that `InsertUnqueued` adds, which the property names. What remains are
the threads (`EntryHeld`):
the entry a thread has read of a row without a vector is what the row still is,
for a rewrite would have brought a vector, so the store that comes last does
not refuse it as outdated. `RunningIsHeld` is inductive by itself and needs no
bound on the drainers: whoever lets go of a job that runs has closed or failed
it, has gone down, or has lost the record.
It is the safety half of `JobsSettle`, which is the property that a run checks.

*Reconcile.* Every step of `RSpec` is one of the queue, a second enqueue, or one
of an operator, who writes nothing but audits; so the invariants of the queue
hold beside it (`ServerInv`). An audit is true because `Apply` compares evidence
it reads in its own transaction. That it lasts is the harder half (`AuditsLast`):
a job's number is never given to another row, and no step takes the vector of a
row that stays, as an update brings its own and a purge takes both; by
`VectorFresh` the vector is of the present text.

*DreamLifecycle.* Every step either leaves the rows alone or is one of a few
kinds (merge, delete, restore, purge, time). The invariant says that rows are
typed, actors are typed, that what a dream is about to merge is a nonempty
group of rows and what a request holds is a row, and that the properties
hold. `Anchored` (no group of hidden rows is merged among itself only) is not
assumed but derived: following `consolidated_into` strictly lowers the row's
number, and a nonempty set of numbers has a least. It is model-checked in no
run, as it follows from `OldestFirst`, which is.

*HotTier.* That an archived row is gone is inductive only together with what
requests carry: a request about to write a cold copy carries a row that is
deleted, and ids are given once. With the order of cold ids added
(`ColdInOrder`) cold copies keep their text and origin, and a case split over
all steps shows that a row that leaves the hot tier is carried by its request
until it arrives. The promises of single requests are proved of `MCSpec`, which
fixes at the start which clients there are: where there is one, what `add` has
read is still true when it inserts (`StillNew`), and the snapshot that eviction
works through agrees with the tier (`Orderly`): its entries can be paired off with
rows of the same texts (`Covered`; equal texts may change places). That each delete
keeps this so is what `Apart` is needed for: where no listed text is a home, no
longer, of another's beginning, the row it hits holds the text of the entry whose
turn it is. Nothing is assumed of the texts themselves. For the way into the hot tier little
is needed (`Promoted`: both rows of a promote exist); the rest is a case
split over what can make a row active or end the promote that is to hide it.

*HybridSearch.* Counts go up only with the results that the same step returns.
The fusion's order is arithmetic: with `limit <= rrf_k`, `1/(k+i) + 1/(k+j)` is
more than `1/(k+r)` for all ranks below the limit. `FusionIsFair` follows for
every list that is sorted by it: a row found by both ways cannot stand behind
one found by one; and whatever stands before the best by text was found by text
too, where there are fewer than `limit` others, so that it is not cut off (a
pigeonhole over the places of the list). That what was
returned was active is inductive with the two lists that a search has read and
with all rows active now among those it may still read (`HInv`).

*VectorSearch.* Ranks in a finite set are the numbers below its size, each taken
once, so sorting is a bijection and is determined by its set; two sets that
agree on all rows before a boundary have the same sorted beginning. When
`Proven` holds, all rows the index did not name lie behind that boundary (`KnnExact`); the last
resort drops rows of the sorted list's end only (`ScalarExact`). So the answer is exact
whatever window it was found in. `VectorReadsJustified` is the step from there
to `HybridSearch`: over the same rows, distances and limit the answer is the
sequence that `VectorResults` holds.

*Importer.* The invariant is that rows, vectors and records are typed, that the
index is sound, and that an import waiting for the provider either has been
overtaken by a write (`current` is false) or still finds the row absent and
the index open to the space it asked for. Steps that write mark all other
imports as overtaken (`LoudStep`), steps that do not keep what these rely on
(`QuietStep`). For the restored backup the invariant is about the part of the
backup that an import has gone through: as long as nobody interfered and nothing
failed, each record so far is settled (`Progress`), and a step of the import
itself unsettles none, because it overwrites nothing. A settled record is one
that `_restore_record` skips.

*Migrations.* A process at statement `k` of a script has all statements before it
behind it, its own or another's, and no statement undoes one (`Ahead`, `Lasting`).
The audit of 011 lasts because the rows it tells of were hidden before: hence
the assumption on scripts.

*SdkWal.* With one agent a write is in one place at a time: still to be made, to
be appended, or one entry, of the file or in the agent's hands (`Copies`).
What is in the file and not in the hands was executed, buried or forgotten, or is
of `Splits` (`Covered`), and an entry was sent as often as it says, give or take the
replay under way, for which a death or a failure makes up (`Counts`). What an
agent holds never ends in a cut line (`Hands`), for `splitlines` has taken it for
a whole one, and a dead-letter file that does remembers a fault (`CutDead`); so only
an append can join an entry to one, and only a fault makes burying fail. The
refinement and both other properties follow. Two agents would
write over each other's file.

*RecallCache.* The invariant (`CacheInv`) is that each entry is filed under the key
of its own answer and was stored at most `Delay` after the server looked, and that the
entries stand in the order of their last use. So the first entry is the one to
evict, and a hit is at most `TTL` after its storing.

*Sums and folds.* The characters of a tier are a sum over its rows, a dry run a
fold over the backup. The provers cannot instantiate an induction over data with
an operator, so these proofs speak of sets of numbers: the numbers of which a
claim holds are a set that has 0 and with each number the next (`OneByOne`, by
the least number outside it). That the recursive function exists, that a sum
may be taken in any order (`AnyFirst`), and that it falls by the length of the
row that goes (`OneRowLess`) follow so. With them, what `_evict_hot` believes of
the tier is what is there (`Counts`), when nobody else is at it and each delete
hits the row it means; so when it stops, at the latest with an empty tier, the
tier is within its limits. For
the dry run, `Foretold` says that an undisturbed import is always at one of the
places that its dry run went through, and has the rest of that run before it.

**Only model-checked.** Liveness (`JobsSettle`, `LogDrains`, `Answers`,
`AllComeUp`), which like ENABLED is beyond the proof system used here. Every
invariant and every action property of the passing runs is proved. Some theorems
have a premise that the property needs: `DoneMeansIndexed` and
`OnlyFaultsStrand` do not hold for two servers, nor the properties of the log
for two agents, nor those of single requests (`AddsOnlyNew`, eviction) for two
clients at a time.

## 5. Where code and words disagree

* `dream_undelete`: a row deleted between a dream's read and its write is
  consolidated, so that the purge that `cold_delete` promises never comes.
* `mig_half`: an SQL migration is committed statement by statement, although
  the runner says it is "wrapped in transaction per migration".

Without a run of their own, but in the models:

* `_evict_hot` says "Archive oldest hot entries until under capacity"
  (`core/engine.py:156`). Without the premise `Apart`, `OldestGoFirst` and
  `EvictionSuffices` are violated in the instance of `hot_all`, by one client
  and without a fault.
* The SDK's client "NEVER raises into agent code"
  (`src/clients/hippo-sdk-python/src/hippo_sdk/client.py:5`), but `drain_wal` lets
  through what `entry.get` raises on a line that is JSON and no object
  (`ReplayRaises`).

## 6. Not modelled

* MCP server and command line: they forward calls to the engine.
* Configuration, metrics, HTTP transport, the audit web page, scripts:
  parameters, counters and presentation, on which no modelled decision depends.
* Embedding providers over HTTP and their LRU cache: a call returns the vector
  of its text in the present space or fails; the cache returns what the
  provider would.
* Which rows are similar or have decayed, importance and access counts inside
  a dream, and `dream_runs`: data, of which every outcome is allowed; rows
  imported with the columns of a life already lived are not among the initial
  states of `DreamLifecycle`.
* The hold an audit puts on `fetch_one_pending` (see `Reconcile`), and evidence
  that no code of the repository can produce (blob and index that disagree,
  malformed receipts).
* Export to Markdown and CSV, which cannot be imported, and the validation of
  hand-written backups.
* Ranking of the text search (any order), the substring scan over the hot tier,
  timelines: they read only.
