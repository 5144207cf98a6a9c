# A TLA+ verification of localdb

localdb is a local-first document search engine: a daemon indexes directories,
web pages and feeds into per-store libSQL tables and answers hybrid searches over
HTTP, MCP and a command line. This directory holds TLA+ models of the parts of it
whose correctness depends on order (of tasks, requests, transactions, failures and
restarts) or on arithmetic at a boundary, the TLC configurations that check them, and
TLAPS proofs of every safety property they check: of the job queue, its refinement and its
clients, the scheduler, ingestion, the index tables and searches, the registry, the migrations,
the data directory, outgoing HTTP, the chunker and the conversion of Markdown to blocks.

To run it, from this directory:

    tlc -workers 2 -config JobQueueSafety.cfg MCJobQueue     # one run
    tlapm JobQueueProofs.tla                                 # one module's proofs

`PROJECT.json` lists the runs, the theorems, the mapping from every definition to
source lines, the mutants that show each property can fail, the hazards and the
findings. Paths below are relative to `src/`.

## 1. Inventory

### Components

| Component | State | Operations | Correct when |
|---|---|---|---|
| **Job queue** `server/src/job_queue.rs` | job registry, in-flight store set, handles (cancellation token, event channel), bounded mpsc channel, worker pool | `submit`, `process_job`, `cancel`, `list_jobs`, `subscribe`, eviction of terminal jobs | jobs of a store never overlap; every job settles once, with what really happened; a store is given back; subscribers learn the end |
| **Job endpoints** `server/src/handlers/jobs.rs` | one SSE stream per request | create, get, list, cancel, `job_events` | a stream ends with the job's one final state |
| **Refresh scheduler** `server/src/scheduler.rs` | record per url/feed source: last refresh, in-flight flag | `register`, `unregister`, `tick`, stamp watcher | a source is refreshed again and again, a full interval apart, exactly while it exists |
| **Daemon state** `server/src/state.rs` | backend handle, configuration, scheduler handle, embedder and fetcher caches | add/update/remove store, add/remove source, listings | scheduler and database agree; what was reported is what is stored |
| **Daemon start and discovery** `server/src/daemon.rs`, `socket.rs`, `cli/src/daemon_client.rs`, `scaffold.rs` | socket, URL file, port, first-run configuration | bind, probe, serve, register sources, clean up stale files, seed the default store | one daemon per data directory, found by every command; a first run always ends with its store |
| **Job execution** `server/src/job_exec.rs` | the job's source list, index, caches | resolve sources, run each, persist feed validators | a failed source does not hide behind its validators |
| **Ingestion pipeline** `core/src/ingestion*` | document index in memory, observed URIs, error flags | `run_source_ingestion`, callback arms, prune and liveness sweeps | documents follow their origins; only real absences delete |
| **Ingestors** `ingest/src` | none beyond a run | path walk, url, feed (200/304, revisit) | every entry is reported once, with the outcome it had |
| **Outgoing HTTP** `fetch/src` | per-host limiter, cooldowns, a request's retry budget | fetch, redirects, retries, destination guard | bounded waiting; a host's wish to wait is kept; public fetches stay public |
| **Storage connections** `store-libsql/src/connection.rs` | writer mutex, reader pool | open by schema version, `WriteTx`, reads | a write is all or nothing |
| **Migrations** `store-libsql/src/migrations` | `user_version`, history table, tables | migrate, downgrade, rebuild, legacy upgrade, first open | version, history and tables agree after any crash or race |
| **Tenant tables** `store-libsql/src/tenant` | resources, chunks, blocks, vectors, FTS | upsert, delete, touch, both search legs, reads | rows of a document replaced together |
| **Registry** `store-libsql/src/registry` | stores, sources, feed cache columns | upsert, look-up, paged listing, delete with cascade | names unique, no orphan rows, no acknowledged store lost |
| **Search** `core/src/search.rs`, `documents.rs` | one search's legs, cursors | widening legs, rank fusion, pages, document read-back | citations exist; paging shows each hit once |
| **Chunker** `core/src/chunker` | none | turn windows, line and table packers, numbering | all the text, within the target |
| **Markdown blocks** `core/src/markdown_blocks.rs` | element stack, running text | parser events to typed blocks | no text lost or doubled; blocks know their start and headings |
| **MCP** `mcp/src` | store list at start, upstream connection, scope | read-only tools, scoped proxy | a scope is never left |
| **Command line** `cli/src` | a job being attached to | SSE with polling fallback; store, source and `db` commands | reports the job's real end |
| **Configuration** `core/src/config` | YAML file, policy version | load, scaffold, watch | a changed policy re-indexes |
| **Extraction** `extract/src`, **Embedding** `embed/src` | model handles | parse bytes, embed text | functions of their input |

### How they interact

`POST /v1/jobs` and the scheduler both call `JobQueue::submit`; a worker runs the
job's future, which is `job_exec::run_job`. The future reads the registry, asks the
ingestor of each source for its entries, turns them into blocks and chunks and writes
them through the tenant tables; the ingestor reads origins through the fetcher. SSE
streams and the scheduler's stamp watchers subscribe to the job's event channel.
Administration requests change the registry, and the scheduler's records after it. All
of these are tokio tasks of one process: they interleave at every await. A request's future
is dropped when its client disconnects; a job's future is dropped when it is cancelled;
all of them are dropped at shutdown.

Across processes, everything meets in one data directory: a command first probes the
daemon's socket and URL file and routes to the daemon or opens the database itself, the
`db` commands change the schema, MCP sessions run in the daemon or behind a proxy. Between
processes only SQL statements, transactions and file operations are atomic.

### What is hard

Everything listed under `hazards` in `PROJECT.json`, in five groups: a decision and
the write that depends on it separated by an await or a statement (cancel and start, mark and
stamp, listing and registering, look-up and upsert, version read and transaction); a future
dropped or a process killed half way; bounded structures at their limit (channel, event ring,
retention cap, retry budget, chunk target); state cached for speed (document index, feed
validators, check stamps, a session's store list) that must never hide work or widen a
scope; and files left behind by a process that is gone.

## 2. Modules

    JobService  <--refines--  JobQueue  <--extends--  IndexCommand <-- MCIndexCommand
                                 ^                        ^
                 JobQueueRefinement <------ JobQueueProofs
                                 ^-- MCJobQueue
    (promise of JobService)  -->  Scheduler  <-- SchedulerProofs, MCScheduler
    (one job per store; refreshes recur)  -->  Ingestion  <-- IngestionProofs, MCIngestion
    (a document's rows)  -->  Retrieval
    (requests)  -->  Http

    Migrations  <--extends--  DataDirectory  <-- DataDirectoryProofs (of both)
    Catalog, Retrieval  <-- StoreProofs
    Ingestion, Http     <-- IngestionProofs
    Chunker             <-- ChunkerProofs
    MarkdownBlocks      <-- MarkdownProofs
    Sorting, for Catalog and Retrieval
    Lemmas (numbers, finite sets, sequences), for StoreProofs and MarkdownProofs
    MCSystem = DataDirectory, Catalog, Retrieval, Http, Chunker, MarkdownBlocks

Two compositions are real products: `IndexCommand` puts clients on top of the whole of `JobQueue`,
and `DataDirectory` puts daemons, commands and discovery files on top of the whole of `Migrations`
(`DirectoryImplementsMigrations` proves that it changes the store only by steps of `Migrations`).
The others are composed by assumption and guarantee. `Scheduler` contains the queue as `JobService`
describes it (one job per store, terminal before released), and assumes the liveness that the queue
shows (`StoresFreed`, `CancelledRunningStops`). `Ingestion` has one job at a time, which is
`OneTaskPerStore`, and assumes that refreshes come again, which is the scheduler's
`RefreshesRecur`; it writes a document in one step, which is the transaction `Retrieval` takes apart.
`MCSystem` is no composition: its parts share no state, and a behaviour picks one of them.

### JobQueue

`stage[j]` is the program point of the one task that owns job `j`: the submitting request
(`reserved`, `installed`, `registered`), the channel (`queued`), the worker (`dequeued` to
`release`), or nobody (`new`, `over`, `dropped`). Each action is one critical section:
one lock held, or one channel operation. Correspondence:

| Variable | Code |
|---|---|
| `inflight` | `JobQueue::in_flight`, the set of reserved store ids |
| `handles`, `cancelled`, `events` | the `JobHandle` map; its token; all ever sent on its broadcast channel, of which a receiver can still read the last `EventCapacity` |
| `registry` | the `JobRegistry` map; `IndexJob` is reduced to state, error code and completion time |
| `queue`, `open` | the mpsc channel and whether its receiver lives |
| `task` | the spawned future and what its `JoinHandle` will say |
| `snapshot` | the `terminal_snapshot` local of `process_job` (and of submit's failure path) |
| `attach` | one record per SSE request: first registry read, subscribe, second registry read, stream |
| `acked` | history: pending jobs whose cancellation was answered Ok |

Workers are interchangeable, so only their number is modelled. A refused submit changes nothing
and is therefore no action. `ShutDown` drops the workers and the receiver, after which a submit
still in progress takes the failed-send path. `SubmitDropped` drops a submit future at an await, of the ordinary path (`dropped`) or of the failed-send
path: a job `given_up` stays pending without its store, an `abandoned` one is settled and keeps its handle, so that whoever subscribes to it is never told its end. Both can
only happen while the queue is shutting down, and their entries and channels go with the process.

### JobService and JobQueueRefinement

`JobService` is what callers may rely on: a store has at most one job, a job ends once, its outcome
stays until it is forgotten, and the store is given back only afterwards; once it has closed it may give up a job it has not started (`GiveUp`). `ImplementsJobService`
says that `JobQueue` refines it; it is checked by TLC and proved. The map takes a job's status from its
registry entry (`accepted` from the reservation on) and a store's holder from the job that owns the reservation.

### IndexCommand

`localdb index` and the auto-index of `source add`: a command takes its stores one by one, submits a
job for each (`CommandStarts`, the POST and its lost answer), attaches over SSE with the queue's own attach actions,
falls back to polling when the stream breaks, and turns what it learnt into what it says (`Said`); an embedded command without sources says
"empty" and submits nothing (`NothingToIndex`). `transport`
says whether the queue is a daemon's, which other callers use too and which may be killed and
started again, or the command's own. `client[c]` is the local state of `attach_to_job` and its callers.

### Scheduler

The run loop (`TickDue`, `TickSubmit`, `TickRefused`, `TickMark`, `TickDone`), the stamp watchers,
the administration calls of `AppState` split at each backend or scheduler call, the start-up
registration task, and the queue's jobs. Source ids are ULIDs and are never used twice (`used`); a store
name can be deleted and created again under a new id. The code only asks whether an interval has passed, so a
record keeps the time since its stamp, saturating at the interval: the model needs no clock bound.
`rested` is the history the interval property is stated over.

### Ingestion

One job over the sources of a store, against origins that change under it. `job` holds what
`run_job` and `run_source_ingestion` keep in memory: the sources left, the document index `idx`, the
cache columns read at the start (`snap`), and for the current source the entries left, those seen and
those confirmed gone, the error flag, whether the enumeration was complete, and the validators received.
`rows` and `cache` are the database. A page is a version number, 0 when the origin has none; a validator stands
for the version it was issued for; `fresh` says that `last_checked_at` is inside the recheck floor. A fault (an
origin, a parser, the embedder or the database failing) is a nondeterministic choice that uses up a budget.

Fetching an entry and writing its rows is one step. The fetch reads only the origin and the write changes only
the database (in one transaction), so a change of the origin, the policy or the clock between them can be moved
before or after the step. The one concurrent step that touches the same rows, `source remove`, can be moved before
the whole step: the write then fails on the foreign key as it does in the code. A conditional request's
validators come from the index loaded at the start, which the model also does.

`excused` and `absent` are histories: the entries a run left without a row legitimately (no content, or deleted as
gone), and those absent at their origin at some moment of the current source's run.

### Migrations

`version`, `rows` and `schema` are `PRAGMA user_version`, the `schema_migrations` table and what the tables show;
`at[p]` is the statement process `p` runs next. A process reads the version outside any transaction and plans from it;
each migration, each downgrade step and the seed of a fresh store is one `BEGIN IMMEDIATE` transaction, everything else
commits by itself: the tables of `create_schema` one by one (`CreateTable`), those of a rebuild likewise dropped one by one (`DropTable`), from a list read before. A process can be killed, or give up on a locked database, before any of them. What a migration does to
the tables is reduced to whether it has been applied, so drift within a step is not modelled, and what the tables hold is not followed. `Admitted` is not code: a `db` command
refuses to run beside a daemon it finds and nothing keeps two of them apart. Which kinds of process are run alone is the constant `Alone`.

### DataDirectory

Adds to `Migrations` the discovery files (`sock`, `url`, `port` hold the process they lead to), the first-run configuration,
and the stages of `serve`, of a command that probes and then routes or opens the database, and of the `db` commands, which refuse to run
beside a daemon they find. `serve` installs no signal handler, so a stopped daemon is a killed one and leaves its files. `overlapped`
is a history: since the directory was last quiet, a start-up has overlapped another or a probe. All daemons are configured with one address; `Probe` lets any program
answer at the address of `daemon.url`, or at the default one, and a port taken by another program fails a start-up.

### Catalog

The store and source tables as sets of rows; a command is a sequence of statements (`command[c]`), interleaved with those of others, in the
daemon or embedded; the store list is walked page by page, for `store list` and before a daemon's `source add`, and an embedded `source remove` asks its stores one after the other. `session` is an MCP session, which sees the stores as of the daemon's start, behind a proxy with
its own scope. The proxy outlives the daemon and keeps the scope it resolved when it connected; that its next call reaches the daemon that has been started since is assumed, since `rmcp` may reconnect. Ids and names share one number space, because nothing in the code keeps a store's name from being another store's id.
`accounts` is the history of what store commands reported. The order of listings is `InOrder` of `Sorting`, which says what a sort by name returns in a form that can be
reasoned about.

### Retrieval

The indexed content (`resources`, `chunks`, `blocks`), the index jobs that write it, the write transactions of the tenant statement by statement, and one reader that searches
(widening dense leg with the exact scan, full-text leg, fusion, pages) or reads a document back. Every statement of a reader sees its own snapshot, so
transactions commit between any two of them. A job (`jobs[j]`) loads its index once (`StartJob`) and decides from it what to skip, what to replace and what to prune, however long ago that was, and updates it with what it
writes itself; chunking and embedding happen between the load and the transaction and read nothing of the tables. The job queue keeps two jobs of a store apart within one process; two embedded commands, or one beside a daemon, have two
queues, so any number of jobs may have one store. `raced` is a history: the URIs written by a job behind whose back another had written them. Identifiers are content addressed as in the code. Similarity and relevance
are parameters, any numbers; the approximate vector index may return any rows. `Targets` is what each surface makes of the store names it is given; `rrf_fuse_global` adds the shares of each leg (`add_leg`) on a scale on
which `1 / (k + rank + 1)` is a whole number (`Scale`), as far as two legs of every store reach. A query over no stores has no leg to run (`FirstLeg`) and goes straight to fusion, as in `search.rs`.

### Http

One record per request: its attempts, the inline budget it has spent, the wait it is in, the hop it follows. `cooldown` and `bucket`
are the limiter's per-host state; time counts down in units. `promised` is a history: the longest wait a host still has a claim to.
Whether a name resolves to public or private addresses is data, and the guard's three places (preflight, redirect policy, resolver filter) are where the code has them.

### Chunker

Each loop of the chunker is an action per round: the turn window, `chunk_code` with `split_overlong_line`, the table packer, which calls `chunk_code`, and
the prose splitter, external. The numbers of the chunks are `chunk_each`'s, which counts what a format returns from zero, whatever the format had put there, so `Emit` numbers as it goes. A text is its lines, a line its offsets and its characters with their byte width, so that bytes and characters
differ; where a line has blanks is a choice. The sizer is a parameter. `out` is the chunks so far, each with the pieces of text in it.

### MarkdownBlocks

The converter's element stack, its running text and the blocks so far, one action per parser event. The parser is external: it opens and closes
elements as its grammar allows. A piece of text is known by the offset of its event. `seen` is the history the property is stated over: the pieces,
the elements they were in, and where an HTML fragment stood.

## 3. Runs

| Run | Instance | States | Shows |
|---|---|---|---|
| `queue_safety` | 3 jobs, 2 stores, 2 workers, queue 1, retention cap 0, no grace; callers leave, runtime shuts down | 3.2 M | no overlap on a store, cancel finds its handle, an accepted pending cancel sticks, outcomes are real, refinement of `JobService` |
| `queue_events` | 2 jobs, 1 worker, 1 SSE request, event ring of 1, 2 progress events, cap 1, grace 1, 4 instants; shutdown | 5.5 M | the terminal event is never lost to lag or teardown; frames are final; 404 only past the grace |
| `queue_client` | 2 jobs, 2 stores, 1 command, daemon and embedded; the network fails, the daemon restarts, other callers leave; fair | 205 k | reports are true, commands end, stores are freed, a cancelled running job stops |
| `queue_guard_leak` | 2 jobs, 1 store, callers leave | violation | finding 1 |
| `scheduler_safety` | 2 sources (intervals 1 and 2) in one store, 1 administrator, manual jobs, 2 store ids | 27 k | records match rows; a full interval between refreshes |
| `scheduler_liveness` | 1 source added while the start-up task runs, interval 2, 2 store ids, fair | 30 k | refreshes recur: no in-flight flag is left behind |
| `scheduler_orphan` | 2 sources, 2 administrators, start-up task | violation | finding 2 |
| `ingest_store` | a path source with 2 files, a url source, 1 fault, pruning, aborts, removals, unreadable metadata | 2.5 M | deletes only what was missing; nothing stays of a removed source; the index claims nothing the store lacks |
| `ingest_feed` | a feed with 2 entries, 2 feed versions, 2 policies, 1 fault, batch of 1, pruning, aborts | 4.6 M | validators hide no work; check stamps are earned; only confirmed absences delete |
| `ingest_catch_up` | the same feed, retaining refreshes, batch of 2, fair | 150 k | every stable listed entry is eventually indexed |
| `ingest_stat_error` | as `ingest_store` without removals | violation | finding 3 |
| `system` | the six modules of `MCSystem`, below | 2.7 M | what each of them promises |

The parts of `system`:

| Part | Instance | Properties |
|---|---|---|
| data directory | 2 processes of any kind, killed anywhere, remote commands; stores at version 0, 3, 4, 7, 8 or 9 with baseline 4 and head 8; steps 5 and 7 irreversible, 6 repeatable | `VersionInLockstep`, `ServingUndisturbed`, `FirstRunSeeded` |
| catalogue, and MCP | 2 clients (1 beside an MCP session), 2 stores, 2 sources, names one of which is also a possible id, pages of one row, one walk of the store list at a time, source ids drawn in ascending order, daemon starts and dies | `StoresAccountedFor`, `ListingComplete`, `RemovalsStayInScope`, `ScopeHolds` |
| index, and writers | 2 stores that share a document, documents of 1 or 2 chunks rewritten and re-cut; 1 job at a time beside a search with legs of 2, widening factors 1 and 2, 1 transaction during a read; apart from that 2 jobs at once, of one store or two | `IndexIsExact`, `CitationsGrounded`, `SearchFindsAll` |
| http | 2 requests, a public, a mixed and a private host, hints of none, 1 and 3, 2 retries, 1 redirect, budget, inline cap and cooldown cap of 2; an embedding request by itself | `RetriesAreBounded`, `PublicStaysPublic`, `CooldownsHold` |
| chunker | target 4, windows of 3 turns with stride 2; all texts of up to 3 lines and tables of up to 3 rows below, at and above the target, conversations of up to 4 turns | `TextKept`, `ChunksFit` |
| markdown | every document of up to 4 elements and 2 pieces of text, nested up to 4 deep, 2 heading levels | `BlocksFaithful` |

Deadlock is checked in every run but `queue_client` and `system`, whose behaviours end: the commands have ended and no job is left, a
document is cut, a parser is at the end of its text.

### The bounds and why they are enough

*Queue.* Three jobs on two stores is the least with a pair on one store and an independent job next to it; two workers let that pair
be attempted in parallel, and a channel of one makes submitters wait. A retention cap of 0 makes each completion evict
an earlier job (safety); cap 1 with grace 1 and four instants separates "over the cap" from "old enough" on both sides
(events). A ring of one event with two progress events makes every subscriber able to lag. Properties about
one request need one request: requests do not see one another. Store names are only compared, so they are symmetric.

*Commands.* Two jobs let another caller's job hold the store the command wants, or the worker it waits for; two stores let a command go on, or
stop, after the first. One restart and unlimited losses cover each point at which the client can be cut off. The clock stands still in this run, so that in it a job is unknown after a restart only; that a job is also unknown once it has
outlived the grace, and that `ReportsAreTrue` holds then, is part of the proof, whose inductive invariant was checked with two instants more (2.2 M states). The safety
of the queue and of its clients for any bound is proved.

*Scheduler.* Two sources of one store contend for it, with different intervals; two store ids cover deletion and re-creation.
Two jobs alive suffice because a store has one unreleased job, and a second id is taken while the first is still being watched.

*Ingestion.* Two entries let one fail while the other succeeds, and make a batch of one leave something out. Two
versions (present and absent, plus a second policy and a second feed document) suffice to be stale in each cached
way. A batch of one, in `ingest_feed`, is the limit that binds; in `ingest_catch_up` the batch holds both entries, because that the bounded rotation
reaches every entry within a number of runs is not promised. One fault at any step, in any of its kinds, is the partial failure the hazards speak of; pairs of faults
are not covered by these runs.

*System.* Two processes are what every race in the data directory is between, and the stores' versions are one of each class the open dispatch
tells apart (none, legacy, baseline, partly migrated, head, newer). A name that may be an id, with two stores, gives every spelling
its two meanings, and pages of one row let a store come or go before, at and behind a walk's place. A walk only reads, so two at once would see what each sees alone; the ids of sources are only compared
for equality, so the order they are drawn in is no loss; and an embedding request takes no token and meets no cooldown, so it has nothing to do with a fetch beside it. Two jobs are what every race for a URI is between. Legs of two over up to four chunks exhaust the index, and one commit during a read falls between any two of its statements. Waits
of one unit are within a budget of two and two are not. Lines and rows of 1, 2, 4, 6 and 11 characters against a target of four, in one and two bytes, meet each
comparison of the packers on both sides and at equality. Four elements hold any element in any other in a third, which is what the converter's stack looks at.
What the six parts promise is also proved without bounds (section 4).

### What the properties except

A property that the code keeps only under a condition names that condition, as a history variable or a constant, so that nothing else can break it unseen:

- `ServingUndisturbed`: `overlapped`. A daemon binds its socket, opens the database (which may migrate) and only then its port; a probe in between takes the socket
  for stale and removes it. The daemon goes on, undiscoverable, and a maintenance command that probes goes ahead beside it. Of two daemons that start together the property says nothing: what it covers is what earlier ones
  left behind and what others clean up while one serves.
- `FirstRunSeeded`: `excused`. A process killed between creating the database and seeding it leaves the installation without its "default" store, because the next one finds the file; and the user may remove the store.
- `CooldownsHold`: `missed`. `acquire` reads the cooldown once and then sleeps for a token; a cooldown that begins meanwhile is not seen by that attempt.
- `StoresAccountedFor`: `revived`. `update_store` reads a row and upserts it; a store removed in between comes back.
- `VersionInLockstep`: `Alone`, here `{"downgrade", "rebuild"}`. Nothing in the code enforces it: the documentation asks that the daemon be stopped, and the `db` commands refuse beside a daemon they find, but not beside one another or an embedded
  command. Beside another process that migrates or creates, a downgrade or a rebuild can leave a version whose tables and history are not there.
- `IndexIsExact`: `raced`. `resources` has no unique index on the store and the URI (`store-libsql/src/schema.rs:163`), and each job replaces only the resource its own index knows (`server/src/job_exec.rs:229`). Of two embedded
  `localdb index` of one store, both begun before a file changed and seeing different contents of it, each adds its own resource, or they leave chunks of two policies under one; later runs replace one of the two.
- `ListingComplete`: a store removed under a walk moves those behind it one place forward, so one of them may be skipped; one added moves them back, so one may come twice. Pages are cut by offset (`server/src/handlers/stores.rs:35`).
- `ScopeHolds`: a proxy's scope is the ids of its stores; once such a store is removed, a later daemon may take the id for the name of another store.
- `StoresFreed`: stores behind a submission whose caller left (finding 1).
- `CacheHidesNothing`, `CatchesUp`: `excused` entries, which a run dropped with reason.
- `BlocksFaithful`: text the converter drops (`adrift`: loose text after an HTML fragment), see the observations.

### Fairness

*Queue and commands.* tokio polls a task again when what it waits for is ready, so every step of a submit, a worker and a stream is weakly
fair. A blocked `send` waits on tokio's semaphore, which is first come, first served: hence strong fairness of `SubmitEnqueue`. An
aborted task reaches a yield point (`TaskAborted`). A command's own steps are weakly fair; its timeouts and its polling are what let it end
when the daemon does not answer. Nobody has to submit, cancel or attach. That a task ends by itself is no fairness of the queue:
`TasksEnd` is a premise of `StoresFreed` and `CommandsEnd`, and `CancelledRunningStops` holds without it.

*Scheduler.* The loop's timer, the clock, the start-up task, the queue's jobs, the watchers and requests under way are weakly
fair; nobody has to send a request. `RefreshesRecur` is checked for one scheduled source per store. With several, the source
that finds the store taken is skipped and tried again at the next tick, and nothing makes it win then: the code does not
promise more, and neither does the property.

*Ingestion.* A job's steps and the recheck floor are weakly fair. A retaining refresh of each source starts again and
again (strong fairness, because another job may hold the store at any moment): the scheduler's `RefreshesRecur`.
No fairness on pruning, aborting or administration.

### Findings

1. **A dropped submit leaks its store** (`server/src/job_queue.rs:462`). `submit` reserves the store and passes several
   awaits before the job is handed over. When the client disconnects in between, the future is dropped and nothing
   releases the reservation; the store is refused until a restart. The comment at line 218 describes the set as
   stores "with a job currently queued or running".
2. **A removed source stays scheduled** (`server/src/daemon.rs:178`). The start-up task registers sources from a listing
   while requests are served; a source removed in between is registered afterwards and refreshed, unsuccessfully, until the next restart. `add_source` has the same gap
   between its row and its registration.
3. **An unreadable entry is taken for a deleted one** (`core/src/ingestion/enumerate.rs:138`). `is_dir()` and `is_file()` are
   false when metadata cannot be read; the file drops out of an enumeration that counts as complete, and a pruning job deletes its document.

Where a finding would make a property fail, a passing run checks it under the complementary condition (no caller leaves;
one administrator after start-up; `DeletesOnlyMissing`, which admits exactly the unreadable file), so within the bounds the finding is the only way.

### Observations

Met while reading and modelling; no run is about them.

- *Jobs and fetching.* A job takes its configuration before it builds its embedder and its fetchers after; one that straddles a configuration reload replaces the
  shared fetcher pair (`server/src/state.rs:389`), and the next job a third time, so that two limiters pace one host under one configuration.
- *Search.* The exact scan (`store-libsql/src/tenant/read.rs`) runs for every store with fewer matches than the limit. `POST /v1/search` accepts a limit of 0.
  The MCP tools do not drop a store that is named twice before they search. A document is read back in three snapshots. Offset pages skip or repeat rows when the table changes.
- *Migrations.* Of two confirmed `db migrate` of a store older than the chain, the second reads the version before the first has rebuilt the store and drops it after (`store-libsql/src/migrations/migrate.rs:103` and `:163`):
  what was indexed in between is gone. No property follows documents through a rebuild.
- *Waiting.* The retry budget bounds the sleeps between attempts. The cooldown and the token that `acquire` waits for come on top of it.
- *Sources.* `source remove` through a daemon ignores `--store`; an MCP session sees the stores of the daemon's start.
- *Chunker.* The documentation says that turns beyond the budget are dropped "from the front", the code shrinks the window from its end (and then continues there, so nothing is lost).
  A table none of whose rows fits with its header is indexed without it. `split_overlong_line` cuts a last remainder at its last blank even when it fits. Pieces of
  an oversized turn carry their label on top of the budget. `output.rs:12` says the id hashes the span; `finalize_ids` uses the block and the number in it.
- *Markdown.* Terms and one-line definitions of a definition list outside any other element, and text after an HTML fragment in a tight list item, are dropped. A code block in a list item
  or an image in a paragraph is emitted before the text around it and does not break the run, where `specs/07-adr-blocks-canonical-ir.md:109` says it always does. `heading_path` keeps an empty
  entry for a skipped level, `heading_index.rs` drops it, though its comment says "the same way".
- *Model downloads.* The file that marks a model directory as complete is the first of the required files to be downloaded (`embed/src/hf_download.rs`); a process that stops after it leaves a directory that is taken for
  complete. Two processes that download one model write the same `.part` file.

## 4. Proofs

Every theorem is for all values of the constants under the named `ASSUME`s of its modules, which only give the constants their types
(the theorems that assume something of `Alone`, `BootOverlaps`, `OneAdministrator` or `StatErrors` are named below): any number of jobs, stores, workers, sources, administrators, processes, clients, requests, hosts, documents, any bounds and any interval.

| Module | Theorem | Property |
|---|---|---|
| `JobQueueProofs` | `TypeCorrect` | `TypeOK` |
| | `InvariantHolds` | `QueueInvariant`, the inductive invariant |
| | `StoresSerialized` | `OneTaskPerStore` |
| | `CancelFindsHandle` | `NonTerminalHasHandle` |
| | `PendingCancelSticks` | `CancelledPendingNeverRuns` |
| | `OutcomesReal` | `OutcomeIsReal` |
| | `TerminalNeverLost`, `TerminalLast` | `TerminalStillAhead`, `TerminalIsLast` |
| | `FramesFinal` | `FrameIsFinal` |
| | `OutcomesNeverChange` | `OutcomesAreFinal` |
| | `RetentionHolds` | `Retention`, inductive beside `QueueInvariant` |
| | `NotFoundAfterGrace` | `NotFoundOnlyAfterGrace` |
| | `QueueImplementsService` | `ImplementsJobService` |
| | `CommandInvariantHolds` | `CommandInvariant`, inductive, of the queue with its clients |
| | `ReportsTrue` | `ReportsAreTrue` |
| `SchedulerProofs` | `SchedulerInvariantHolds` | `SchedulerInvariant`, inductive |
| | `IntervalWaitedOut` | `WaitsOutTheInterval` |
| | `RecordsFollowRows` | `RecordsMatchRows` |
| `IngestionProofs` | `IngestionInvariantHolds` | `IngestionInvariant`, inductive |
| | `RemovedSourcesStayRemoved` | `RemovedStaysRemoved` |
| | `SkipChecksAreGrounded` | `SkipCheckGrounded` |
| | `ValidatorsHideNothing` | `CacheHidesNothing` |
| | `OnlyMissingDeleted`, `OnlyAbsentDeleted` | `DeletesOnlyMissing`, `DeletesOnlyAbsent` |
| | `StampsAreVerified` | `TouchMeansVerified` |
| | `HttpInvariantHolds` | `HttpInvariant`, inductive, of `Http` |
| | `BudgetHolds` | `RetriesAreBounded` |
| | `PublicOnly` | `PublicStaysPublic` |
| | `CooldownsRespected` | `CooldownsHold` |
| `DataDirectoryProofs` | `SchemaInvariantHolds` | `SchemaInvariant`, inductive, of `Migrations` |
| | `LockstepHolds` | `VersionInLockstep` |
| | `DirectoryImplementsMigrations` | `DirSpec => Spec` of `Migrations` |
| | `DirectoryInLockstep` | `VersionInLockstep` |
| | `FirstRunAlwaysSeeded` | `FirstRunSeeded` |
| | `ServingStaysUndisturbed` | `ServingUndisturbed` |
| `StoreProofs` | `TablesInvariantHolds`, `SessionInvariantHolds` | the inductive invariants |
| | `StoresAccounted` | `StoresAccountedFor` |
| | `ScopeRespected` | `ScopeHolds` |
| | `ScopeInvariantHolds`, `RemovalsScoped` | `RemovalsStayInScope`, with its inductive invariant |
| | `ListingInvariantHolds`, `ListingsComplete` | `ListingComplete`, with its inductive invariant |
| | `TablesStayExact` | `TablesExact /\ JobsKnow`, inductive |
| | `IndexedExactly` | `IndexIsExact` |
| | `SearchInvariantHolds` | `SearchInvariant`, inductive |
| | `CitationsStayGrounded` | `CitationsGrounded` |
| | `SearchesFindAll` | `SearchFindsAll` |
| `ChunkerProofs` | `ChunkerInvariantHolds` | `ChunkerInvariant`, inductive |
| | `NoTextLost` | `TextKept` |
| | `ChunksAlwaysFit` | `ChunksFit` |
| `MarkdownProofs` | `MarkdownInvariantHolds` | `MarkdownInvariant`, inductive |
| | `BlocksAlwaysFaithful` | `BlocksFaithful` |

**Job queue.** None of the properties is inductive alone. `OneTaskPerStore` speaks of tasks, but a step that makes a task
live looks only at its own job, and needs to know that no other job past its reservation has the same store: `GuardExclusive`.
Being past the reservation is a matter of `stage`, so `Lifecycle` ties the stage to the entry, the task and the snapshot,
and `QueueHoldsQueued` says that what a worker receives is in stage `queued`, once. `HandleSpan` puts the handle's life
around the entry's non-terminal life; from it come `NonTerminalHasHandle` and what a subscriber finds. `CancelAccepted`
carries an accepted cancel from the pending state over the worker's check to the outcome. `OutcomeRecorded` carries the task's
result into the snapshot, where it survives the entry's eviction. `ChannelContent` says that before the teardown a channel
has only progress and afterwards ends with the snapshot; `AttachConsistent` places a receiver in it. Then
`TerminalStillAhead` follows: a receiver positioned at most one past the end before the teardown has the terminal event at
or after its position, and the ring always keeps the newest event, whatever its capacity. The proof has one step per action:
`JobStep` shows what an action does to its own job's part of the invariant, `UntouchedInv`
that a job the action leaves alone (except for losing its terminal entry to eviction) keeps its part; `GuardStep`,
`QueueStep` and the `Attach` lemmas treat the parts that relate several jobs. `EvictionRemovesOnly` is the one fact about eviction
needed: it removes only terminal entries and never the protected one.

**Retention.** A 404 is seen by a request long after the eviction that causes it, possibly by its second look at the registry. `Retention` bridges the two: a settled job without an entry has been terminal for
longer than the grace. It is kept because an entry only goes by eviction, whose cutoff is the grace (`EvictionWaits`), because a terminal write never evicts the job it settles (`SettleWaits`), and because the clock
only goes on. How many entries eviction takes, the retention cap, plays no part.

**The queue's clients.** A restart empties the registry while clients still hold job ids, so `QueueInvariant` does not survive it. `QueueHolds` is the same with jobs admitted that the present daemon has forgotten (`Forgotten`), for which it
claims nothing; the queue's lemmas are stated for it, and without a restart there is no such job (`NoneForgotten`). `Follows` ties a command's stage to its job: it is the one it submitted, for the store it is at,
its submission was not dropped, and its SSE request, if any, is about that job. `FollowsOwn` keeps two commands off one job, so that a timeout drops nobody else's submit. `Truthful` says that everything reported still is so,
which needs what no step takes back (`GoesOn`): an accepted job stays accepted, a settled one keeps its task's result, even over a restart. A step then either is a command's own, with one lemma per kind of step
(`Submits`, `Streams`, `FollowsToTheEnd`, `Polls` and so on), or leaves every command as it was (`OthersLoseNothing`). `FollowsToTheEnd` rests on `AttachConsistent` (the frame is the job's snapshot), `Polls` on `Retention`.

**Refinement.** Under the queue's invariant every action is a step of `JobService` or leaves its variables alone: reserving accepts, starting and finishing
change one job's status, releasing frees the store whose holder the job was (`GuardExclusive` again makes the holder unique), eviction forgets.

**Scheduler.** `TickSubmit` acts on a snapshot of due sources that was drawn up earlier. `DueRested` says that each source still on it has rested, because nothing but the loop itself starts
a refresh; `OneUnfinished` gives a source one unfinished refresh at most; `FlagTells` says that the in-flight flag is up while a refresh is unstamped and that, when it is down, the record does not claim a longer rest than the
source had, the steps between a submit and its mark excepted; and `AddedOnce` says that a source is registered once, before its first refresh. The last is why all three theorems assume
`BootOverlaps = FALSE`: during start-up the registration task and `add_source` can both register a source, and the second registration forgets the first's stamp. `RecordsFollowRows` also assumes `OneAdministrator`; finding 2 is what
happens otherwise. Its invariant `RecordsAgree` says what the request under way has changed in the table and not yet in the scheduler (`RequestsGoOn`), that all other sources agree (`OthersMatch`), and that a row carries the present id of its store.

**Ingestion.** What a run may delete depends on what it saw and when. `Absences` says that an entry of the current source that was neither seen, nor confirmed gone, nor is still to come was absent at some moment of the run
(or, with unreadable metadata, skipped): hence `DeletesOnlyMissing`, and, where `StatErrors = FALSE`, `DeletesOnlyAbsent`. `Ownership` says whose a row is, in the table as in the index loaded at the start, and that the index claims no content the table has not had
since. `RunHidesNothing` is the difficult part: before a run without errors stores a feed's new validators, every entry of that feed version is indexed, excused, or still in the list of the run; `Claims` adds that validators and policies
are those of the past, so that no later version is taken for an older one, also when the policy or the feed changes in the middle of the run. Nothing is assumed of the other constants.

**Index tables.** `IndexIsExact` compares identifiers. `TablesExact` says that the three tables are those of their documents, row by row, with one document per URI of a store that is not `raced`; `JobsKnow` that a job knows one row of a URI at most, of its own store, and
every row the table has of a URI that neither is `raced` nor has been written by another job since: so the row it replaces is the one that is there, however old its index. That identifiers of different documents differ is shown from how they are composed
(`PartsTell`), over the one-digit contents and URIs the model uses. Re-indexing a document, with the same or another policy, then replaces exactly its own rows, also beside a store that shares its content. What a job writes without knowing of a row is the exception, and stays marked for as long as its URI has a row.

**Search.** `SearchInvariant` says what a search under way holds, at each of its statements. Whatever is written meanwhile, every hit is of a searched store and of a row that passed the filters at some moment since the search began (`Grounded`, over the
history `touched`): a leg only finds rows of its own snapshot, and fusing and paging invent no key. While nothing has been written and the matches of each searched store fit a leg, the exact scan makes each dense leg all the matches of its store, whatever the approximate index answers
(`DenseLeg`), the pools are those legs strung together as far as the stores have been searched (`Pooling`), and what has been shown is a prefix of one list, the fusion of all that matches (`Paging`, `AllOf`); every page computes that
fusion again and must get the same list. That it is one list, with each key once, is a fact about sorting: in a total order of a finite set the ranks are the numbers up to its size, each once (`RanksCount`, `RanksSort`), and scores with the key behind them make a
total order whatever the scores are (`FusionSorts`). `Scale` and the sums of `add_leg` only have to be numbers for this. Scores, widening factors, leg size and the number of stores are arbitrary.

**Migrations.** `Stage` says what the statement a process is about to run relies on, although others may have moved the version since it was read: a plan
holds all the steps above some version the store has already reached (`todo[p] = k + 1 .. HeadVersion` for a `k` at most the present version), a schema being created has the tables no longer to do, a rebuild's list has every table there is until it finds nothing left, a downgrade finds the
version it read. `Tables` adds to `VersionInLockstep` that a store without a version has at most the tables of the head and the baseline's row; `OneAlone` is the exclusion, from which `Grows` follows: while no downgrade and no
rebuild is under way, versions only go up, one step at a time, or from nothing to the head. `SchemaInvariantHolds`, `LockstepHolds` and `DirectoryInLockstep` assume `Alone = {"downgrade", "rebuild"}`.

**Data directory.** Each step of a daemon or command is a step of `Migrations` or leaves the store alone, so `LockstepHolds` carries over. `FirstRunInvariant` adds to `FirstRunSeeded` what it is
about to rely on (`Loaded`): a process that has read an untouched configuration and did not set out to seed found the store file there, so whoever creates the file is one that seeds.
`ServingInvariant` follows a daemon from its probe to its last discovery file: unless a start-up has overlapped another or a probe, it starts while all others have settled (`StartsAlone`), and what it has bound, written and opened stays as it was (`Holds`), because
whoever could undo it would have found it. `Role` says which kind of process may be where. Nothing is assumed of `Alone`.

**Registry.** `TablesInvariant` is `StoresAccountedFor` with unique ids and two parts about what is in flight: `Pending` says that ids about to be inserted were drawn for that, by one command, and are not yet reported, and
that a row about to be written back was created once; `Ledger` orders drawn, created, removed and revived. `SessionInvariant` says that the allowed ids are those the scope's names denoted
when the session began, that an embedded session holds no other store, and that an allowed id which the daemon behind a proxy does not know was removed. `ScopeInvariant` says that a removal under way has resolved its ids within its scope, and that every source that still has one of its matches is of a store it named. `ListingInvariant` compares a walk's offset with the place of each store in the order of names: unless a store was removed under the walk, what it began
with and has not seen is at its offset or behind it (`Unseen`), and unless one was added, what it has seen is before it (`Seen`). An added row moves places up and a removed one down, one of the two at most, and an update moves none, because it never changes a name (`NamesFixed`).

**Outgoing HTTP.** `Charged` says that what has been slept, and what is still to be slept, was charged to the budget; `Guarded` that no hop of a public request is a private literal, so that the resolver's filter covers the rest; `Paced` that a request
which has missed no cooldown waits at least what its host was promised; and no host's cooldown is less than what it promised.

**Chunker.** `Position` places each loop in its text, `Coverage` and `Order` say that the chunks of a block and what is held back are exactly the text up to there, in order, `Extent` that no chunk is of a block still to come, and `Fit` bounds what is held back. Nothing is assumed of the sizer, which may even be non-monotonic, as a tokenizer is; of the window only that the stride does not exceed it, as in every preset.

**Markdown blocks.** The running text, the elements on the stack and the blocks are one row of *places* (the running text is place 0, the stack below it, the blocks above), and a piece of text is held by at most one (`Apart`), by one exactly unless it is adrift (`Accounted`), and
there once (`Sound`). A step of the converter moves what one place holds, as a whole, to another, or puts a new piece into one; the steps are reduced to such moves before anything else is shown of them (`Move`, `Carries`).
Where a piece is must tell what it is in: `Placed` says that the place's start is the element the piece belongs to, or that it is a run's. That needs the stack to agree with the parser's open elements although an HTML fragment drops the stack and not the elements: `Nested` and `Mirrors`. `Ordered`
puts pieces and bounds in the order of the document, and `Started` keeps a run's start between its first piece's outermost element and the piece. Runs are the difficult part: a run is closed by the flush at a structural element and by nothing else, so of two pieces in different places a
bound lies between them (`SplitAtBounds`), and of two pieces with a bound between them the earlier is in a block already, and in an earlier one (`BoundsClose`, `BoundsPart`); `Closed` says that a run is not in a block before a bound has followed it. Heading paths are shown by induction over the blocks: after each, the six levels
hold exactly the headings that stand. The bounds on elements, pieces and nesting are arbitrary.

**Lemmas.** The library's induction takes a predicate, which these provers cannot instantiate. `Induction` takes a set instead, and `Recursion` shows that a function defined step by step exists, its steps being a function too; so what the models' recursive functions
compute (strung and joined sequences, sums, heading paths) can be proved for every input.

**Only model-checked.** The five liveness properties: `StoresFreed`, `CancelledRunningStops`, `CommandsEnd`, `RefreshesRecur` and `CatchesUp`. Fairness, and the `ENABLED` in it, is beyond the prover. The invariants they lean on are proved.

## 5. Not modelled

- Rendering, logging, argument and request parsing, JSON shapes and error texts, on every surface: no state of their own, though much of the code. Together with tests beside the code they are why the mapped lines are
  a fraction of all lines.
- `extract`: functions of a document's bytes around external parsers; a step of `Ingestion` takes each of their outcomes.
- `embed`: numeric inference and provider formats; the model download and its file protocol (see the observations). The retry decision of hosted providers is in `Http`.
- The configuration watcher (`server/src/watcher.rs`) and the caches of embedder and fetchers (`server/src/state.rs`); validation of a configuration.
- Front matter, content hashes and `heading_index.rs` beside `MarkdownBlocks`; MIME handling and body limits and the proxies of the environment, which the client's builder reads by default (`fetch/src/http/mod.rs:144`), beside `Http`; snippets and citation text beside `Retrieval`; the metadata refresh, which rewrites columns of a
  row that no modelled decision reads.
- Pragmas, the reader pool and the retry on a locked database: in `Migrations` a process may give up before any statement, elsewhere a statement is atomic.
- In `Ingestion`: metadata hashes (a changed claim reopens the recheck gate, which the model allows
  at any time), progress counters, glob filters, the feed's single-document mode, a feed entry whose deleted page comes back, and URIs listed by two sources (`Scope` is disjoint;
  the documentation discloses that gap).
- In `Scheduler`: errors of the backend calls, so a `remove_store` that fails half way is not covered; several due sources of one store starving one another.
- `core/src/store.rs` is the storage trait, whose implementation `Retrieval` models, and an in-memory test double of it.

## 6. Plan

What is left, in the order of what it would show:

1. **Two daemons that start together, and documents through a rebuild**: the start-up before `overlapped` excuses it, step by step, and what a second confirmed rebuild takes along.
2. **Theorems**: that `Ingestion`'s write step is implemented by the transactions of `Retrieval`; that cited documents can be read back.
3. **Backend errors and dropped requests** in `Scheduler` (`remove_store` half way), shared URIs and a page that comes back in `Ingestion`.
4. **Configuration reload**: the watcher's bounded channel, the two caches it feeds and the limiter of `Http` per configuration.
5. **Model downloads**: the sentinel, the `.part` files and several processes.
6. **heading_index.rs** against `MarkdownBlocks`' heading paths.
