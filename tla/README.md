# datapress: TLA+ models, checks and proofs

datapress serves datasets (Parquet, Delta, or the result of a SQL query over
other datasets) through HTTP, from one of two engines, DataFusion or DuckDB.
Datasets are built in the background, rebuilt on request, on a schedule and
when a dataset they are derived from is rebuilt, and replaced while queries
run. This project models the part of the program in which these activities
meet. Paths below are relative to `crates/`.

## 1. The system

| component | state it keeps | operations | hard because | correct when |
|---|---|---|---|---|
| Refresh scheduler, cascade engine (`core/src/refresh.rs`, handle in `core/src/backend.rs`) | heap of schedules with failure counts, pending debounce timers, two queues, TTL list | tick, cascade request, publish notification, TTL expiry, shutdown | two tasks and the HTTP threads, stamps compared across tasks, timeouts, coalescing | no change of an upstream is forgotten, dependents catch up, shutdown ends |
| DataFusion registry (`datafusion/src/store.rs`) | `configs`, `datasets`, `statuses`, `reload_locks`, `refresh_records`, tables of the SQL engine | startup build, reload, try_reload, first touch, register, unregister | four maps changed in separate steps, copy-on-write maps shared by all datasets, cancellation at awaits, a startup build outside the mutex | the maps agree, Published means loaded, newest generation wins, last good generation stays |
| Generations (`store.rs:2180-2831`, `core/src/storage.rs`) | one directory per generation, manifest as seal | build, spill, seal, collect, reuse | crash between any two writes, failure after the seal, two builders | the sealed are whole, the served one stays on disk, reuse serves the configured SQL |
| DuckDB backend (`duckdb/src/db.rs`, `repository.rs`) | connection pool, registry maps, relations, spilled directories | as DataFusion, in blocking closures | closures outlive their request, pool exhaustion, relations replaced by several statements | maps and engine agree, queries find a relation, connections return |
| Saved queries, TTL (`core/src/handlers/v1.rs:872-1148`) | files in `datasets.d`, main file, TTL list | create, delete, register, persist, reload configuration, expire | file and registry are two steps; names are reused; other rules at the next start | what was answered survives a restart, dependencies stay |
| Startup (`store.rs:332-578`, `db.rs:526-655`) | levels, failed set | level by level builds | failures propagate, spelling of names | exactly what can come up does |
| Requests: middleware, guards, handlers, timeout (`core/src/handlers`, `auth.rs`, `admin.rs`, `timeout.rs`, `server.rs`, `mcp`) | JWKS snapshot and URL, Parquet cache, reload-all wave | every endpoint, MCP methods and tools, key refresh, drain | state read before an await and used after it, keys that rotate, publishes that do not invalidate | only the entitled get answers, hidden columns stay hidden, exports are fresh, everyone is answered |
| Queries (`models.rs`, `schema.rs`, `sql.rs`, `store.rs`, `repository.rs`) | none | validation, authorisation, plans, index, pages, JSON | several paths to one answer, boundaries of chunks and pages | all paths agree |
| Sources (`store.rs`, `db.rs`, `config.rs`) | none | listing, partitions, Delta, residency, credentials | lazy and resident ways to read the same data | both read the same |
| Configuration (`core/src/config.rs`) | files | load, validate, write | two validators, two writers | what is written can be loaded |
| Metrics, pgwire, web pages, clients, bindings | none shared | I/O | | not modelled, section 6 |

How they meet: handlers run on several worker threads and call the `Backend`
trait; the main thread runs the startup builds, the scheduler and the cascade
engine as tasks of a single-threaded runtime. A backend that published calls
`CascadeHandle::notify_published_at`, which feeds the engine; the engine feeds
the scheduler loop; the loop calls `try_reload` of the backend. All builds of
one dataset, except the startup build, share the dataset's reload mutex. The
handlers of the reload endpoints invalidate the Parquet cache, and the queries
endpoint sends TTL entries to the loop.

The hazards this gives rise to are listed in `PROJECT.json`, each with the
properties that watch it, or the reason why none does.

## 2. The modules

    LiveGenerations          what a backend promises: implemented by
      DfStore                  DataFusion registry   (DfStoreProofs)
      DuckRegistry             DuckDB registry and pool (DuckRegistryProofs)
    CascadeRefresh           scheduler and cascade engine (CascadeRefreshProofs)
    Generations              DataFusion's directories (GenerationsProofs)
    Config                   validation, files, order
      SavedQueries             the managed directory, API (SavedQueriesProofs)
      Startup                  start-up builds (OperatorProofs)
      QueryModel               structured requests and column filters
        SqlGuard                 statements (OperatorProofs, for QueryModel too)
        QueryExec, Formats, Sources
        Requests (with Auth, Mcp, SqlGuard) (RequestsProofs)
    JsonRows                 the JSON writer
    MCAlgorithms             inputs for QueryExec, SqlGuard, Formats, JsonRows,
                             Startup and Sources (AlgorithmsProofs)

In brackets, the modules of proofs. Modules composed: Requests runs the
functions of Auth, Mcp, SqlGuard and QueryModel inside its actions; SavedQueries
those of Config; MCAlgorithms draws inputs for the functional modules.

### CascadeRefresh

`run_loop` and `cascade_engine_loop` of `refresh.rs` with the reload of a
backend reduced to: take the mutex, read `build_start`, publish, notify.

* `pending`, `publish_rx`, `cascade_rx` are the engine's map and the two
  channels; `loop`, `engine` the state of the two tasks; `failures` the
  counter of the heap entry; `record` the backend's `RefreshRecord`;
  `build[n]` the holder of n's reload mutex.
* The select of both tasks is biased, which the guards repeat: shutdown before
  messages before timers, cascade requests before ticks.
* The loop awaits each build inline, hence the single value "building" of
  `loop`. The semaphore of `max_concurrent` permits is therefore never
  contended and left out.
* Time is reduced to order. A debounce timer or a tick may be due at any time
  after it was set; `clock` hands out a fresh value to every reading of
  `Instant::now()` that is later compared. Intervals, jitter and backoff do not
  appear. Real readings may coincide; `trigger_at <= build_start` with equal
  readings is covered by neither order of the two steps and is assumed away.
* `live[n].start` and `.at` are the generation's build start and publish. A
  dependent is `Stale` when its generation began to be built before the
  upstream's was published. The build is assumed to read its upstreams after
  `build_start`, as `reload_inner` does (store.rs:778-794).
* `skippedAt` and `failedAt` are history: when a cascade request was last
  consumed without a build that publishes.
* All datasets are published at the start. Publishes by startup builds, first
  touches and registrations do not notify the engine and are not part of the
  module; TTL requests of the loop are actions of SavedQueries.

### DfStore

`Store` of the DataFusion backend. One task per request or background task,
each with a program counter; every access to shared state is a step of its
own. `datasets` and `statuses` are loaded and stored in two steps because
their updates are load, clone, change, store. `locks[n]` is the identity of
the mutex that `reload_locks` holds for n: unregister drops the entry, so the
identity changes while waiters keep the old one. Tasks of the main thread
interleave with one another only at awaits (`Awaiting`). `Cancel` drops a
future at an await: waiting for the mutex, or building. `aborted` and `due` are
history and startup bookkeeping. A generation is the number of its build.

`Scenarios` lists sets of operations used together: the guarantees differ with
and without startup builds, which take no mutex, and the properties say so.

### Generations

One query dataset on local storage. `disk[g]` is a directory: which of its
files are there, whether it has a manifest, and the SQL and the version of the
source it was built from. A build is `Begin`, then `Collect` (stays in memory)
or `Spill`, `Close`, `Seal`, `GcList`, `GcDelete`, `List`, and finally
`Publish`, which stands for the swap in `reload_inner` that DfStore details.
`Fail` is an error or cancellation before the seal, `Reject` one after it
(opening the directory awaits the schema inference and checks the column
filters), `Restart` a crash at any point, in the middle of a collection too,
followed by a boot with any configuration. `Remove` models `remove_dir_all`,
whose errors are logged and passed over: a directory may be gone, partly
removed or not reached.

Reloads share the mutex and are one builder; the startup build is another.
When both have run at once `overlapped` is set: each collection removes the
other's unsealed directory, and the code promises nothing then. ULIDs are
assumed to be chronological (the wall clock does not go back). S3 storage,
where nothing is collected, and the directory removal of unregister are not
in the module.

### LiveGenerations

One variable, the generation readers of each dataset see. A step gives one
dataset a newer generation or takes it away. `DfStore` maps it to `datasets`
(`Visible`) and `DuckRegistry` to the relation of the engine, both while the
dataset kept its one mutex; DfStore also without startup builds, DuckRegistry
without closures that lost their caller. Both maps give 0 where those
conditions do not hold, so that leaving them is a withdrawal.

### DuckRegistry

`Db` of the DuckDB backend. A task takes the mutex and hands a closure to the
blocking pool (`Submit`); the closure needs a connection (`GetConn`), runs one
statement per step and returns (`Return`); the task then updates the maps
(`ReloadDone`, `RegisterDone`, `UnregisterDone`). `Cancel` drops the task: the
mutex is free, the closure runs on, and `orphan` remembers it. `relation` and
`view` are what the engine would answer with; `dirs` are the spilled
generations, with the same manifest rule as `Generations`. `torn`, `vacated`
and `missed` are history. `load_registry` has run in the initial states;
a start that fails after it has created a relation is not among them.

### Config, SavedQueries

`Config` holds `AppConfig::validate`, `validate_for_register`, the column
filters, `topological_dataset_order`, `load` and the two writers. A dataset is
a record of what the rules look at: its kind, the class of its location, the
tables of its SQL, its policies. Messages are left out: a check is a conjunct.

`SavedQueries` adds the disk (`main`, `dir`), the registry seen through the
`Backend` trait, and requests whose accesses are steps of their own. A file is
truncated, then filled (`PersistOpen`, `PersistWrite`, `PersistError`); a crash
may come between. `registry[n].inc` tells instances of a name apart, which the
TTL list of the code does not: `TtlFire` looks the name up, `TtlUnregister`
removes what it finds. `todo` holds the datasets that a config reload has yet
to register, each with its place in the list, so that a name listed twice is
registered twice. `raced` and `undercut` remember overlaps in which the code
makes no promise: a name is `raced` when a request that writes it begins, or a
config reload reaches it, while another one is at work on it; a name is
`undercut` when a request that will read it (a create, a register, any dataset
of a reload's list) begins while it is being deleted.

### Requests, Auth, Mcp

`Auth` has `verify_token` with its checks in order, the middleware and the
guards; `Mcp` the transport checks, the envelope and the dispatch. `Requests`
is the server around them: `Arrive` is the whole of a request up to its first
await (middleware, guard, tool arguments, schema and filter lookup, cache), and
`Run`, `Touch`, `TouchEnd`, `Lock`, `Rebuilt`, `Insert`, `Drop` its steps
afterwards. `Resolve` and `FetchEnd` are the two awaits of `resolve_and_fetch`,
used at boot and by the refresher. `TimeOut` drops a request at any await and
releases its mutex. The dataset is one, and its publish one step, since
`DfStore` has the detail; a publish may bring another layout of columns
(`schemas` of a scenario), under the filters of the one configuration. What a
request carries past its first await is what it found there: `seen` is the
schema, if there was one, `asked` what the handler passes on after filtering
and narrowing; `uses` are the columns the backend then read, of the layout it
met (`Reads`). `floor` and `late` of a request record, when it arrives, the
last acknowledged reload and whether an older export was under way at its
invalidation.

### QueryModel, QueryExec, SqlGuard, Formats, JsonRows, Startup, Sources

Functions, translated one by one and named as in the code. Loops are recursive
functions or closed forms, so that they can be proved about. QueryModel:
`DatasetSchema` and what `QueryRequest` checks and plans. QueryExec: the plans
of both backends, the resident path of DataFusion with its equality index and
`take_page` over chunks; `Evaluate` stands for the SQL engines, and the constant
`Spelling` for the JSON text of a value, by which the index finds it. SqlGuard: a
statement is a tree of queries in visiting order, each with the names it
mentions and with the form the checks do not look into, if it has one
(`unseen`: new names for columns after a table alias or a CTE, whole rows,
TABLE t). The checks see what the code's visitors see; the engine's side
(`Shown`) follows each dataset column through the tree, under its own name or a
new one, as the least set closed under what a query passes on. Formats: byte ranges on
numbers below `Word`, durations, backoff, calendar, with the days before a year
and a month as the reference. JsonRows: the two JSON
writers on bytes, with `Read`, a JSON string reader, as the reference. Startup:
levels and their failures in DataFusion, the sequence of DuckDB, the cycle
finder; a source may be sound, without rows, without files or unreadable, which
the two backends take differently. Sources: listing and partitions of lazy and
resident readers, Delta, residency and memory budgets (rows and KiB of a batch
are separate, since DuckDB's estimate counts rows), credentials (the map that a loop over the
configuration fills is given in closed form), endpoints.

## 3. What is checked

| run | instance | shows |
|---|---|---|
| cascade | a, b feed c; 1 client reload, 1 tick, cascades | TypeOK, IndInv, TriggerCovered; EventuallyFresh and ShutdownCompletes under fairness |
| store | 1 name, 1 main task, 2 workers, 4 operations | TypeOK, PublishedIsLoaded, BuildingIsOwned, EngineAgrees, LoadedIsServed, FirstRegistrationWins, IndInv; ImplementsLive |
| generations | 2 SQL texts, 3 directories, 2 source versions, 1 restart | TypeOK, NewestIsWhole, LiveOnDisk, LiveMatchesConfig, NeverOlder |
| duckdb | 1 name, 2 tasks, 2 connections, 2 changes, 1 read, three configurations | TypeOK, PoolAccounted, EngineInStep, ViewOnDisk, QueryFindsRelation; ImplementsLive |
| queries | 3 names, 2 requests at once, 3 in all, 1 crash | TypeOK, AckedOnDisk, DependencyPresent, ConfiguredStays, TtlExpires |
| requests | 2 requests at once, eleven scenarios of `MCRequests` | TypeOK, AuthorisedAnswers, HiddenStaysHidden, ExportFresh; KeysCatchUp, Answered |
| algorithms | every input of the sets of `MCAlgorithms` | QueryAnswers, GuardSound, FormatsSound, StartupSound, SourcesSound |
| coalesced | as cascade, 2 client reloads | TriggerSurvivesBuild fails |
| timeout | 1 name, reloads only | KeepLastGood fails |
| update | 2 names, reloads only | AtomicUpdate fails |
| lastgood | 3 directories, no restart | LastGoodQueryable fails |
| boot | 1 request, a saved query without tables | RestartAccepted fails |

The last five are disagreements between the code and its own comments or
documentation; `PROJECT.json` quotes the lines.

* *coalesced*: upstream a publishes while a client's older build of c runs;
  the cascade request for c finds the mutex held and is dropped. c stays older
  than a until something else triggers it. TriggerCovered is the part of the
  promise that holds: a request is only lost to a skip or a failure.
* *timeout*: a reload sets Building, is dropped at its await, and nothing sets
  the status back; queries are refused although a generation is live.
* *update*: two reloads of different datasets copy the same map; the second
  store undoes the first. This is why the store run has one name: with two
  threads and two names the maps lose updates and none of its properties hold.
* *lastgood*: the collection runs before the publish and keeps the two newest
  sealed directories. A build that fails after its seal leaves one of them, so
  the next build's collection removes the live one. LiveOnDisk is the part that
  holds: without such a failure the live directory stays.
* *boot*: `validate_for_register` accepts a query with no tables, which
  `validate` refuses at the next start.

What the code does not promise is written into the properties as exceptions,
each with its reason, rather than left out of the models:

* A refresh record's failure is wiped by the record of the next tick's time
  (`refresh.rs:689`).
* unregister drops the mutex's entry while waiters hold the old one, so two
  builds of a name may overlap afterwards: `OneMutex` in DfStore, `Serial` in
  DuckRegistry.
* DuckDB replaces a small materialised query by a drop and a rename
  (`vacated`), and a failed build may have replaced the relation already
  (`torn`).
* An export that read the old version may be put in the cache after the
  invalidation (`late`); scheduled publishes do not invalidate at all, so
  ExportFresh speaks of acknowledged reloads only.
* A request that finds nothing loaded goes on unfiltered, as the comment at
  `v1.rs:303-312` says; the sample of `describe_dataset` and `count_rows` do not
  ask the projection filter (`FilterAsked`).
* The SQL gate looks only at columns of the schema it finds. A name that comes
  with a later publish passes, and with an `include` filter it is then hidden
  (`Unknown` in HiddenStaysHidden).
* datasets.md:121 and 158-162 promise that a hidden column cannot be selected
  through SQL. The gate looks for identifiers in expressions and for asterisks in
  SELECT lists and FROM (`sql.rs:392-404`, `427-455`), and so lets through new
  column names after a table alias or a CTE, whole rows, `COLUMNS` and `TABLE t`
  (which is not checked against the registered datasets either) and an asterisk
  below a subquery of a SELECT list. GuardSound, StatementsGated and
  HiddenStaysHidden speak of the columns of statements that use none of these
  (`NamesItsColumns`), and of the tables other than those of TABLE t (`Unmet`).
* A default projection of which no column is visible stays empty, and both
  backends read an empty projection as all columns (`models.rs:415-422`, whose
  comment at 387-388 says that it is narrowed): `HasProjection`.
* `having` is not looked at by `enforce_column_filters`, although datasets.md:122
  names it beside `where`. It can only name outputs of the aggregation, so
  nothing hidden is shown, but a column the predicate filter excludes can be
  tested there: FiltersKept speaks of `where`.
* DESCRIBE lists the columns of a table whatever its filters, and a table whose
  name is also that of a CTE elsewhere in the statement is not checked
  (`Stray`): GuardSound and HiddenStaysHidden except both.
* The server never asks again where the keys are: KeysCatchUp is about an
  issuer that stays where it was found.
* Two requests that write one name, a config reload that comes to a name of its
  list included (`raced`); a deletion that a new dependent overtakes, a TTL
  that ends and names not in lower case (`undercut`, DependencyPresent).
* The names of CTEs are collected for the whole statement although `sql.rs:18`
  speaks of scopes (`Stray` in GuardSound); the page offset wraps at 2^64; an
  empty `in` and spellings like 1.0 are treated differently by the two paths
  (`Regular`); a null in a dictionary and column names that need escaping
  (JsonRows); layouts that the lazy listing sees differently (`HiveShaped`);
  memory reservation with one of two settings (ReservationFits); shared
  buckets (OwnCredentials).
* A source without rows fails at the start of DataFusion; DuckDB creates an
  empty table and publishes it (`db.rs:963-1013`), so StartsRight states for each
  backend what comes up. It is about eager datasets: `startup_levels` orders no
  others.
* DuckDB compares `estimated_size` of `duckdb_tables()`, a number of rows
  (`db.rs:1389-1399`), with the threshold in bytes (`1132-1134`): with `auto` it
  may keep in memory what DataFusion demotes. BuildKeepsRows therefore claims the
  same rows for both backends, and the same place only in one direction.
* materialized.md:301 says that `force_lazy_above_mb = 0` disables
  auto-demotion. Both backends compare with 0 as with any other threshold
  (`store.rs:2405-2442`, `db.rs:1132-1134`), and the models do too: every build
  with rows is demoted then.
* The engines return rows of an unordered plan in the order of the table
  (`Evaluate`), which the partitions of DataFusion's table (`store.rs:2878-2888`)
  do not promise. A default alias of an aggregation cannot be named by `having` or
  `order_by` in QueryModel, and duplicate columns of a projection, which
  DataFusion refuses, are answered; a table without chunks, which resident data never
  is, is answered before its columns are checked (`store.rs:1275-1282`) but not so
  in QueryExec.
* The first range of a header must be well formed (RangeServed): a malformed one
  is answered 416, where the comment at `handlers/mod.rs:355-365` says the body
  is served with 200.
* In a chain (b derived from a, c from a and b) the loop may rebuild c before b
  although materialized.md:352-354 promises topological order; c is rebuilt
  again once b publishes.

**Bounds.** `MaxReloads`, `MaxTicks`, `MaxCalls`, `MaxGens`, `MaxSource`,
`MaxBoots`, `MaxChanges`, `MaxReads`, `MaxCrashes` and the budgets of the
scenarios of Requests bound how often the environment acts, never the reaction
of the code. One reload and one tick of each dataset's choice, with the
cascades they cause, let two triggers of c, a tick of c and a client's build of
c overlap in every order. Four operations of three tasks cover a holder, a
waiter and a later caller of a mutex, and any operation after them. Three
directories are the fewest with which a live generation can be third newest;
in DuckRegistry the one of the start and two changes are three as well. Two
connections are enough for a closure to hold one while another waits behind a
reader. Three requests on two tasks create, delete and create again, or let a
dependent appear during a deletion. The scenarios of Requests separate
questions that do not interact: credentials against keys (all tokens and
operations, one request), rotations (three changes of the issuer), exports
against reloads (four requests on two slots and a scheduled build), filters
against first touches and reloads, shutdown. For the filters one request meets
up to three scheduled builds between two layouts: one that gains or loses the
hidden column under an `include` filter, one that gains or loses a visible
column under an `exclude` filter. One reload-all wave runs at a time. The inputs
of MCAlgorithms have two columns, up to five rows in three chunks, three
queries per statement with any of the unseen forms, three datasets at a start
with any of the four kinds of source, builds of three batches on both sides of
a threshold in rows and in bytes; `Word` is small enough for a
product to wrap. The residency of Generations is `auto` only, whose builds may
stay in memory or spill, so that `memory` and `lazy` are among its behaviours.
Deadlock is not checked: every run ends when the bounded inputs are used up.
Symmetry is used for the workers of DfStore, the callers of DuckRegistry and
the SQL texts of Generations, in runs without liveness.

**Fairness.** *cascade*: weak fairness of the engine's receive, of each
debounce timer, of the loop's service of requests, of the two stops and of the
end of every build. Tokio polls a ready task again; a build of the loop is
under a timeout, a client's under the request timeout or the end of its source.
Nothing obliges a client to reload, a tick to be due or an operator to stop the
server. A timer that slides for ever under endless publishes is outside the
instance, where publishes are bounded. *queries*: weak fairness of each
request, which goes on or is dropped, and of the scheduler's two TTL steps; a
boot is not fair, so a process that stays down owes nothing. *requests*: weak
fairness of each request's steps and of the background builds, which end; of
the refresher's tick and its two awaits; of the end of a drain. No client,
issuer, scheduler or timer is fair: Answered holds without the timeout.

**Mutants.** Next to a definition stands, where a property needs it, a mutated
form named in its comment: the bug the property would catch (a dropped
comparison, a lost request, a mutex released early, a check not repeated, a
manifest written first, a connection kept on an error path, an end not capped).
`PROJECT.json` pairs each property with one.

## 4. What is proved

Eight modules of proofs are checked by TLAPS, for every value of the constants
that satisfies the named assumptions. The proofs about state machines rest each
on one inductive invariant, which TLC checked on the states of the component's
run before it was proved.
Where a property has exceptions (section 3), the theorem has the same ones.

| Component | Assumptions on the constants | Properties proved |
|---|---|---|
| CascadeRefresh | finite `Names`, `Dag` maps names to sets of names | TypeOK, TriggerCovered |
| DfStore | nonempty `Names`, `Main` a set of tasks | TypeOK, NewestWins |
| DfStore, one dataset | also `Names = {n}` | PublishedIsLoaded, BuildingIsOwned, EngineAgrees, LoadedIsServed, FirstRegistrationWins, ImplementsLive |
| Generations | `NoSql` is no SQL text, residencies are among the three | TypeOK, NewestIsWhole, LiveOnDisk, LiveMatchesConfig, NeverOlder |
| DuckRegistry | nonempty `Names`, a connection in the pool, configurations of the known forms | TypeOK, PoolAccounted, EngineInStep, ViewOnDisk, QueryFindsRelation, ImplementsLive |
| SavedQueries | finite `Names`, typed definitions that read finitely many tables, a typed main file | TypeOK, AckedOnDisk, DependencyPresent, ConfiguredStays |
| Requests | slots are not called like the jobs, scenarios start in typed states, a published dataset has a version; schemas, requests and statements have the shape their parsers give them; the layouts of a scenario share their filters, which list columns they have | TypeOK, AuthorisedAnswers, ExportFresh, HiddenStaysHidden |
| QueryModel, SqlGuard, Startup (`OperatorProofs`) | none | the facts under HiddenStaysHidden, GuardSound and StartupSound, for every request, statement and checked configuration |
| QueryExec, Formats, JsonRows, Startup, Sources (`AlgorithmsProofs`) | `Word` and `MaxPageSize` are positive; values of the index are not spelled alike; the names and values of the run are lower-cased and spelled as usual | QueryAnswers, GuardSound, FormatsSound, StartupSound, SourcesSound, and below them a theorem for every input of the right shape |

Bounds on what the environment does are natural numbers. The hypotheses about
starts and definitions describe what the program's parsers produce; the one
about the names of slots keeps two kinds of holders of the mutex apart.

* `CascadeRefresh`: `TypeCorrect`; `InvariantHolds`; `NoTriggerForgotten`.
  TriggerCovered is not inductive: a pending trigger may be cleared by a
  publish, and one must know that the publishing build began after the
  upstream's publish. IndInv adds that stamps lie in the past
  (`StampsInPast`), that a running build began after the live one
  (`BuildOrder`), that a queued notification is of a build no newer than the
  live one (`MessageOrder`) and that a pending trigger is younger than the
  publish of each upstream, unless that publish is still to be processed
  (`PendingOrder`). Clearing on `trigger_at <= build_start` then implies that
  the live generation of the dependent began after the upstream's publish.
* `DfStore`: `TypeCorrect`; `InvariantHolds`; `NewestAlwaysWins`. NewestWins
  needs that a mutex has one holder (`MutexExclusive`, which needs
  `MutexFetched`), that no generation is numbered beyond `builds`
  (`GenerationsStarted`) and that no other task carries a copy of `datasets`
  newer than the build under way, which it could store after it
  (`CopiesOlder`). For several names this is more than the run shows.
* `DfStore` implements `LiveGenerations`: `ImplementsLiveGenerations`, for one
  dataset and any tasks, threads and scenarios. A step changes what is visible
  only in `DatasetsStore` and `RemoveLock` (`VisibleStep`). The first stores a
  generation that NewestWins shows to be newer, or, in an unregister, none: a
  second invariant, `RemovesOnly`, says that an unregister never has a
  generation. The second withdraws. With several datasets the theorem would be
  false: run *update* shows how a store brings back another dataset's old
  generation.
* `DfStore`, what a registry of one dataset serves. The hypothesis
  `Names = {n}` is needed: with several, a store of `datasets` or `statuses`
  brings back another dataset's old entry (run *update*). Two datasets and two
  calls are enough for the first four properties to fail, three datasets and
  four calls for FirstRegistrationWins. ServedInv says which operation may be at
  which step (`Shape`), that a Building has a task that will replace it
  (`Owned`), that what is Published, or about to be stored as such, is loaded
  (`Loaded`) and configured (`Configured`), as long as nobody began to remove
  the dataset, and, without startup builds, how far the holder of the mutex has
  come with the table (`TablesOf`) and the status (`StatusOf`). LoadedIsServed,
  for instance, is not inductive because a reload stores Building over Published: one must
  know that it will store Published, or Failed with nothing loaded.
* `Generations`: IndInv follows a build through its stages (`Drawn`, `SameSql`,
  `Stages`: a directory has no manifest before all its data, and is whole and
  the newest when it is listed) and says that there is one builder unless
  startup build and reload overlapped (`OneBuilder`). LiveOnDisk needs
  `LiveKept`: what is sealed and newer than the live directory is about to be
  published, so the collection's two newest always include the live one; a
  generation rejected after its seal breaks this, as LiveOnDisk says. NeverOlder
  needs that a build's data is as new as the live data was when it began
  (`DataOrdered`).
* `DuckRegistry`: the first half of IndInv says who owns what. A closure is in a
  phase of its operation (`Handed`), a blocked task waits for a closure of its
  own (`Awaits`), a mutex has one holder (`Exclusive`), connections are held by
  closures that run (`PoolAccounted`). The second half is about a dataset whose
  mutex was never replaced and whose closures kept their callers: the one closure
  that may change it is its newest (`Owned`, `Progress`), a build that succeeded
  describes the relation it left (`Result`), and the maps agree with the
  relation until a closure touches it (`MapsInStep`). The last three say that a
  view has its files, a live dataset its relation, a running query its dataset.
  `ImplementsLiveGenerations` follows for any number of datasets: DuckDB's maps
  are updated under a lock, so one dataset's update carries nothing of another.
* `SavedQueries`: that a request is alone on its name unless the name is `raced`
  (`Alone`); that it takes the acknowledgement back before it touches the file
  and has the file whole before it registers (`Written`); that a deletion that
  found a managed dataset still finds one (`Removable`); that a deletion past its
  check has no reader in the registry or under way unless `undercut`
  (`NoReaders`), and a dataset about to be published has its dependencies
  (`Prepared`). The attempt corrected the module: `Alone` was not inductive,
  because a config reload may come to a name of its list while that name is
  being deleted; TLC found it with five calls. The overlap is real, and `raced`
  now records it.
* `Requests`: for any requests, tokens, keys, guards and server settings.
  AuthorisedAnswers follows the request from its arrival: whatever way through
  middleware, scope guard, admin token or MCP dispatch leads past the checks, the
  credentials entitle to the operation (`MiddlewareSound`, `GuardIsSound`,
  `ScopesSound`), because every cached key was published by the issuer
  (`KeysPublished`). ExportFresh needs that an entry of the cache, and an export
  about to be one, is as new as the last acknowledged reload unless an export
  was overtaken (`EntriesFresh`), and what a request carries at each step
  (`Steady`). TypeOK includes that the reload mutex is held by who is building.
  HiddenStaysHidden (`HiddenColumnsStayHidden`) has two halves. From its arrival
  a request is `Cleared`: whatever layout it is going to meet, what it would read
  of it (`Reads`) is visible, by `RequestsUseVisible` for structured requests and
  `StatementsGated` for SQL, because the layouts of a dataset share its filters
  (`LayoutFilters`) and visibility depends on nothing else. Once it has read,
  `UsesVisible` says that what it read stays visible in every later layout.
* `OperatorProofs`. `RequestsUseVisible`: a request that `enforce_column_filters`
  lets pass names visible columns only, in every clause that is checked.
  `StatementsGated`: a statement that `validate_and_authorize` lets pass refers
  to registered tables, TABLE t and stray names aside, and if it names its columns
  it shows no hidden one, renamed or not. What its queries show of a column is the
  least closed set of pairs of a query and a form. For a hidden column, which is
  named nowhere, the queries that the walk for asterisks does not enter are
  closed under the same rules, and the root is not among them (`ShownIsNamed`).
  `SpellingKept`: rewriting the names
  of a statement to their canonical spelling changes nothing else.
  `StartsAreRight`: every configuration with at least one dataset whose names
  differ even when case is ignored, in which only queries depend on others and
  a query's SQL reads exactly what it declares (`IsConfig`); any behaviour of the
  sources, any split of a level into builds that end early and late.
  - The order. After each turn of Kahn's loop the queue holds, once each, the
    datasets not yet ordered that wait for none but ordered ones, and a degree
    counts the dependencies not yet ordered (`KahnInv`). So the loop orders all
    datasets, each after what it depends on, or the rest is a `Knot`, where
    everyone depends on another of them (`KahnEnds`).
  - The builds. The k-th dataset of the order is in one of the first k levels
    (`LevelsCover`), so the levels leave none out; a level's datasets do not need
    each other, so each ends as it should in whatever order the level is built
    (`LevelBuilt`). DuckDB's loop does the same a dataset at a time
    (`RegistryLoads`), on what its sources look like to it (`SeenByDuck`: no rows
    are as good as any).
  - The error. While the depth-first search finds nothing, what it has left for
    good is closed under dependencies on queries and holds no knot (`Finished`,
    `LookAllOk`, `VisitsOk`): with a knot it finds a cycle (`CycleFound`), and the
    piece of the path it returns closes (`CycleNamed`). The fallback of
    `find_cycle_path` is never reached.
* `AlgorithmsProofs`, beyond the run's inputs:
  - `QueriesFiltered`: the plan of a structured query that passes the filters
    shows, tests and sorts by visible columns only. `BackendsPlanAlike`: both
    backends refuse the same requests and make the same plan of the others, where
    no literal is null.
  - `FastPathsAgree`: for every table, any cut of its rows into chunks and any
    index policy, the resident path answers and counts what the plan does. A
    slice has, after each chunk, exactly the rows of the window seen so far
    (`SliceStep`); the index finds the rows of which the conditions hold
    (`IndexFinds`), because no two values share a spelling; `take_page` takes each
    id from the chunk that holds it and puts it back in its place (`PageTaken`).
    Either way the answer is a page (`PageIn`) of the rows that match, and there
    is one such page. The requests are the `Regular` ones
    (section 3).
  - `PagesTiled`: page k is the k-th piece of the answer cut at limit
    (`PageOfCut`), and enough pages joined are the whole (`PagesJoin`), as long as
    no offset wraps. Sorting and dropping duplicates are covered: they come
    before the cut (`Uncut`) and do not depend on the page.
  - `RangesServed`, `DurationsKept`, `BackoffsBounded`: for files, durations and
    failure counts of any size.
  - `TimesFaithful`: every second since 1970. The loop over the years keeps
    "days before the year + days left = days" (`YearsTaken`) and ends after at
    most days / 365 rounds, since each takes off 365 or more; the one over the
    months ends before December does (`MonthsTaken`).
  - `CellsKept`: texts of any length and bytes. The reference reader is a state
    machine over bytes; what `write_str` writes for a byte takes it from one plain
    state to the next with that byte added (`ReadEscaped`), whatever came before
    (`ReadPrefix`).
  - `BuildsKeepRows`: what a build puts on disk and in memory, demoted batches
    included, is its input in some order: every batch is kept, none twice, and
    the running sizes never shrink. The backends may differ in the place; a count
    of rows stays below the bytes of the same batches (`RowsWithinBytes`), so
    DuckDB never demotes what DataFusion holds. `ReservationsFit`; `LayoutsKept`: where the
    layout is of the form `HiveShaped`, lazy and resident readers find the same
    files and partition columns; `DeltasAlike`, `ForcedAlike`; `CredentialsKept`:
    a source is read with its own credentials unless a bucket is shared;
    `EndpointsStable`.

The library's induction theorems cannot be used here, so the proofs argue by a
least counterexample: a nonempty set of naturals has a least element, from which
`UpToN` gives induction over `0 .. n`, `RecursionExists` a function that follows
given steps, and `RecursionTyped` that the function a definition by recursion
chooses is one. `Selected`, `KahnOrder`, the levels of a start, `dfs_find_cycle`,
`FlattenSeq`, `slice_global`, `TakeYears`, `Reading`, the partitions of a path and
the sizes of a build are reasoned about in this way.

Only model-checked:

* EventuallyFresh, ShutdownCompletes, TtlExpires, KeysCatchUp and Answered:
  fairness is out of the prover's reach.
* The properties of the violation runs, which do not hold.

## 5. Plan

Done: all modules of section 2, the proofs of section 4.

1. Proofs, for any number of datasets: a registration that is past the engine's check of its table replaces
   nothing live, which unlike FirstRegistrationWins does not depend on one dataset.
2. Requests over two datasets, so that the cache's eviction and the order of
   the reload-all wave appear in one model.
3. Generations: the removal of directories by unregister; S3 storage.
4. The chunk channel of the Arrow streams with a receiver that leaves.

## 6. Not modelled

* Metrics, the Swagger document, the documentation and explorer pages, the
  OAuth2 helpers of those pages: output without state that is read back.
* The PostgreSQL wire server: an adapter of a third-party crate over the shared
  session, with shims that rewrite catalogue queries as text.
* The Rust client, the command line and the Python bindings: conversion of
  arguments and HTTP calls.
* The engines themselves (DataFusion, DuckDB, Delta, object stores), TLS,
  sockets, TOML and SQL parsing, signature checks: external; the models state
  what the code relies on.
* Sizes and types of Arrow data beyond what the JSON writer and the index
  distinguish; wording of errors and logs.
