---------------------------- MODULE DuckRegistry ----------------------------
(***************************************************************************)
(* The registry of the DuckDB backend, crates/duckdb/src/db.rs: the maps,  *)
(* the relations of the engine, the connection pool and the blocking       *)
(* closures in which every statement runs.                                 *)
(*                                                                         *)
(* A task is a request or a call of the scheduler.  It waits for the mutex *)
(* of its dataset, hands a closure to the blocking pool and awaits it.  A  *)
(* task that is dropped (request timeout, reload timeout) releases the     *)
(* mutex, but its closure runs on (db.rs:223-230).  Every statement of a   *)
(* closure is a transaction, and a step, of its own.                       *)
(***************************************************************************)
EXTENDS Naturals, FiniteSets

CONSTANTS
    Names,      \* datasets
    Tasks,      \* requests and scheduler calls that run at once
    Config,     \* the configurations in use
    PoolSize,   \* connections of the pool
    MaxChanges, \* bound: closures that change relations
    MaxReads    \* bound: closures that read them

\* A file as a table or, lazy, as a view; a query as a table, spilled to
\* storage, or one of the two depending on its size (auto).
Form == {"table", "view", "memory", "auto", "lazy"}

ASSUME NamesAssumption == Names # {}
ASSUME PoolAssumption == PoolSize \in Nat \ {0}
ASSUME ConfigAssumption == Config \subseteq [form : Form, managed : BOOLEAN]
ASSUME BoundsAssumption == MaxChanges \in Nat /\ MaxReads \in Nat

MaxJobs == MaxChanges + MaxReads

VARIABLES
    configs,     \* the configuration of each dataset, or NoConfig
    datasets,    \* the generation whose schema is registered, 0 for none
    row_counts,  \* the generation whose rows were counted, 0 for none
    statuses,    \* DatasetStatus, "absent" when there is no entry
    mutex,       \* identity of the entry of n in reload_locks
    relation,    \* the generation the engine's relation n holds, 0 for none
    view,        \* the directory that relation reads, 0 when it is a table
    dirs,        \* the directories of n on the storage
    task,        \* the tasks
    job,         \* the closures
    jobs,        \* closures handed out so far
    free,        \* connections in the pool
    orphan,      \* history: a closure that changes n lost its caller
    torn,        \* history: a build of n failed after it changed relation n
    vacated,     \* history: an auto build dropped relation n to make room
    missed       \* history: a query of n ran and found no relation

maps == <<configs, datasets, row_counts, statuses, mutex>>
engine == <<relation, view, dirs>>
history == <<orphan, torn, vacated, missed>>
vars == <<maps, engine, task, job, jobs, free, history>>

Jobs == 1 .. MaxJobs

\* Generation 1 is the one load_registry builds, j + 1 the one of closure j.
Gen(j) == j + 1
Gens == 1 .. (MaxJobs + 1)

DatasetStatus == {"absent", "building", "published", "failed"}
NoConfig == [form |-> "none", managed |-> FALSE]

\* A directory holds data, data and its manifest, or only a manifest.
Dir == {"none", "data", "sealed", "hollow"}

Task == [op : {"none", "reload", "register", "unregister"},
         name : Names, cfg : Config \cup {NoConfig},
         pc : {"idle", "lock", "block"}, mutex : Nat, job : 0 .. MaxJobs]
Job == [op : {"none", "reload", "register", "unregister", "query", "stream"},
        name : Names, cfg : Config \cup {NoConfig},
        phase : {"none", "conn", "run", "tmp", "dropped", "copied", "viewed",
                 "sealed", "made", "described", "streaming", "ok", "err"},
        schema : 0 .. MaxJobs + 1, rows : 0 .. MaxJobs + 1]

SomeName == CHOOSE n \in Names : TRUE
Idle == [op |-> "none", name |-> SomeName, cfg |-> NoConfig, pc |-> "idle",
         mutex |-> 0, job |-> 0]
NoJob == [op |-> "none", name |-> SomeName, cfg |-> NoConfig, phase |-> "none",
          schema |-> 0, rows |-> 0]

Configured(n) == configs[n] # NoConfig
HasLive(n) == datasets[n] # 0

-----------------------------------------------------------------------------
(***************************************************************************)
(* load_registry has run.                                                  *)
(***************************************************************************)

\* What the start-up build of a dataset leaves behind.  A query that failed
\* may have failed after its relation was created; any other failure either
\* stops the server or means that the source matched no file.
BootOutcome(cfg) ==
    IF cfg = NoConfig
    THEN {[live |-> 0, relation |-> 0, view |-> 0, status |-> "absent"]}
    ELSE {[live |-> 1, relation |-> 1, status |-> "published",
           view |-> v] : v \in CASE cfg.form = "lazy" -> {1}
                                 [] cfg.form = "auto" -> {0, 1}
                                 [] OTHER -> {0}}
         \cup {[live |-> 0, relation |-> r, view |-> 0, status |-> "failed"] :
                 r \in IF cfg.form = "memory" THEN {0, 1} ELSE {0}}

Init ==
    /\ configs \in [Names -> Config \cup {NoConfig}]
    /\ \E boot \in [Names -> UNION {BootOutcome(configs[n]) : n \in Names}] :
         /\ \A n \in Names : boot[n] \in BootOutcome(configs[n])
         /\ datasets = [n \in Names |-> boot[n].live]
         /\ row_counts = [n \in Names |-> boot[n].live]
         /\ statuses = [n \in Names |-> boot[n].status]
         /\ relation = [n \in Names |-> boot[n].relation]
         /\ view = [n \in Names |-> boot[n].view]
         /\ dirs = [n \in Names |->
                     [g \in Gens |-> IF g = 1 /\ boot[n].view = 1
                                     THEN "sealed" ELSE "none"]]
    /\ mutex = [n \in Names |-> 0]
    /\ task = [t \in Tasks |-> Idle]
    /\ job = [j \in Jobs |-> NoJob]
    /\ jobs = 0
    /\ free = PoolSize
    /\ orphan = [n \in Names |-> FALSE]
    /\ torn = [n \in Names |-> FALSE]
    /\ vacated = [n \in Names |-> FALSE]
    /\ missed = [n \in Names |-> FALSE]

-----------------------------------------------------------------------------
(***************************************************************************)
(* Calls.                                                                  *)
(***************************************************************************)

\* A task fetches the mutex of n, creating its entry, and waits for it.
AskMutex(t, op, n, cfg) ==
    task' = [task EXCEPT ![t] = [op |-> op, name |-> n, cfg |-> cfg,
                                 pc |-> "lock", mutex |-> mutex[n], job |-> 0]]

Held(n, id) ==
    \E t \in Tasks : /\ task[t].pc = "block"
                     /\ task[t].name = n /\ task[t].mutex = id

Reading == {"query", "stream"}

\* The bounds of the instance.
InBounds(op) ==
    LET handed == {j \in 1 .. jobs : (job[j].op \in Reading) = (op \in Reading)} IN
    Cardinality(handed) < IF op \in Reading THEN MaxReads ELSE MaxChanges

\* web::block, spawn_blocking: a new closure, which first needs a connection.
Submit(op, n, cfg) ==
    /\ InBounds(op)
    /\ jobs' = jobs + 1
    /\ job' = [job EXCEPT ![jobs + 1] =
                  [op |-> op, name |-> n, cfg |-> cfg, phase |-> "conn",
                   schema |-> 0, rows |-> 0]]

SetStatus(n, s) ==
    statuses' = IF statuses[n] = "absent" THEN statuses
                ELSE [statuses EXCEPT ![n] = s]

ReloadCall(t, n) ==
    /\ task[t].pc = "idle"
    /\ Configured(n)
    /\ AskMutex(t, "reload", n, configs[n])
    /\ UNCHANGED <<maps, engine, job, jobs, free, history>>

\* Mutation of TryReload: the mutex is not tried.
TryReloadAnyway(t, n) ==
    /\ task[t].pc = "idle"
    /\ Configured(n)
    /\ SetStatus(n, "building")
    /\ Submit("reload", n, configs[n])
    /\ task' = [task EXCEPT ![t] =
                  [op |-> "reload", name |-> n, cfg |-> configs[n],
                   pc |-> "block", mutex |-> mutex[n], job |-> jobs + 1]]
    /\ UNCHANGED <<configs, datasets, row_counts, mutex, engine, free, history>>

\* try_reload goes on only where the mutex is free.
TryReload(t, n) ==
    /\ task[t].pc = "idle"
    /\ Configured(n)
    /\ ~Held(n, mutex[n])
    /\ SetStatus(n, "building")
    /\ Submit("reload", n, configs[n])
    /\ task' = [task EXCEPT ![t] =
                  [op |-> "reload", name |-> n, cfg |-> configs[n],
                   pc |-> "block", mutex |-> mutex[n], job |-> jobs + 1]]
    /\ UNCHANGED <<configs, datasets, row_counts, mutex, engine, free, history>>

RegisterCall(t, n, cfg) ==
    /\ task[t].pc = "idle"
    /\ ~HasLive(n)
    /\ AskMutex(t, "register", n, cfg)
    /\ UNCHANGED <<maps, engine, job, jobs, free, history>>

UnregisterCall(t, n) ==
    /\ task[t].pc = "idle"
    /\ Configured(n) /\ configs[n].managed
    /\ AskMutex(t, "unregister", n, configs[n])
    /\ UNCHANGED <<maps, engine, job, jobs, free, history>>

\* The caller has the mutex: it marks a reload, and submits its closure.
Acquire(t) ==
    LET n == task[t].name IN
    /\ task[t].pc = "lock"
    /\ ~Held(n, task[t].mutex)
    /\ task[t].op = "register" => ~HasLive(n)
    /\ IF task[t].op = "reload" THEN SetStatus(n, "building") ELSE UNCHANGED statuses
    /\ Submit(task[t].op, n, task[t].cfg)
    /\ task' = [task EXCEPT ![t].pc = "block", ![t].job = jobs + 1]
    /\ UNCHANGED <<configs, datasets, row_counts, mutex, engine, free, history>>

\* A registration finds, under the mutex, that another one has won.
RegisterLost(t) ==
    /\ task[t].pc = "lock" /\ task[t].op = "register"
    /\ ~Held(task[t].name, task[t].mutex)
    /\ HasLive(task[t].name)
    /\ task' = [task EXCEPT ![t] = Idle]
    /\ UNCHANGED <<maps, engine, job, jobs, free, history>>

\* sample and query: a published dataset only (ensure_ready_sync).  The
\* caller's part ends here: dropping it changes nothing.
QueryCall(n) ==
    /\ statuses[n] = "published" /\ HasLive(n)
    /\ Submit("query", n, NoConfig)
    /\ UNCHANGED <<maps, engine, task, free, history>>

\* The Arrow streams: any registered dataset; the closure is detached.
StreamCall(n) ==
    /\ HasLive(n)
    /\ Submit("stream", n, NoConfig)
    /\ UNCHANGED <<maps, engine, task, free, history>>

-----------------------------------------------------------------------------
(***************************************************************************)
(* Closures.                                                               *)
(***************************************************************************)

Building(j) == job[j].op \in {"reload", "register"}

\* Mutation of GetConn: the connection stays in the pool.
GetConnShared(j) ==
    /\ job[j].phase = "conn"
    /\ free > 0
    /\ job' = [job EXCEPT ![j].phase = "run"]
    /\ UNCHANGED <<maps, engine, task, jobs, free, history>>

\* DbPool::get takes a connection as soon as there is one.
GetConn(j) ==
    /\ job[j].phase = "conn"
    /\ free > 0
    /\ free' = free - 1
    /\ job' = [job EXCEPT ![j].phase = "run"]
    /\ UNCHANGED <<maps, engine, task, jobs, history>>

\* What is left of a closure: its result.
Ended(j, outcome, schema, rows) ==
    [NoJob EXCEPT !.op = job[j].op, !.phase = outcome, !.schema = schema,
                  !.rows = rows]

\* Mutation of Return: an error path forgets the connection.
ReturnLeaky(j, outcome) ==
    /\ job' = [job EXCEPT ![j] = Ended(j, outcome, 0, 0)]
    /\ free' = IF outcome = "err" THEN free ELSE free + 1

\* The closure returns; dropping PooledConn puts the connection back.
Return(j, outcome) ==
    /\ job' = [job EXCEPT ![j] = Ended(j, outcome, 0, 0)]
    /\ free' = free + 1

\* CREATE [OR REPLACE] TABLE/VIEW ... AS SELECT: one statement.  Without OR
\* REPLACE (register) it needs the name to be free.
Create(j) ==
    LET n == job[j].name IN
    /\ Building(j) /\ job[j].phase = "run"
    /\ job[j].cfg.form \in {"table", "view", "memory"}
    /\ job[j].op = "register" => relation[n] = 0
    /\ relation' = [relation EXCEPT ![n] = Gen(j)]
    /\ view' = [view EXCEPT ![n] = 0]
    /\ job' = [job EXCEPT ![j].phase = "made"]
    /\ UNCHANGED <<maps, dirs, task, jobs, free, history>>

\* Mutation of CreateTmp: the old relation makes room at once.
CreateTmpInPlace(j) ==
    /\ Building(j) /\ job[j].phase = "run"
    /\ job[j].cfg.form \in {"auto", "lazy"}
    /\ job' = [job EXCEPT ![j].phase = "tmp"]
    /\ relation' = [relation EXCEPT ![job[j].name] = 0]
    /\ UNCHANGED <<maps, view, dirs, task, jobs, free, history>>

\* A query that may be spilled is built into a temporary table first.
CreateTmp(j) ==
    /\ Building(j) /\ job[j].phase = "run"
    /\ job[j].cfg.form \in {"auto", "lazy"}
    /\ job' = [job EXCEPT ![j].phase = "tmp"]
    /\ UNCHANGED <<maps, engine, task, jobs, free, history>>

\* Small enough: the old relation is dropped (errors are ignored) ...
DropOld(j) ==
    LET n == job[j].name IN
    /\ job[j].phase = "tmp" /\ job[j].cfg.form = "auto"
    /\ job' = [job EXCEPT ![j].phase = "dropped"]
    /\ \/ /\ relation' = [relation EXCEPT ![n] = 0]
          /\ view' = [view EXCEPT ![n] = 0]
       \/ UNCHANGED <<relation, view>>
    /\ vacated' = [vacated EXCEPT ![n] = TRUE]
    /\ UNCHANGED <<maps, dirs, task, jobs, free, orphan, torn, missed>>

\* ... and the temporary table takes its name.
Rename(j) ==
    LET n == job[j].name IN
    /\ job[j].phase = "dropped"
    /\ relation[n] = 0
    /\ relation' = [relation EXCEPT ![n] = Gen(j)]
    /\ job' = [job EXCEPT ![j].phase = "made"]
    /\ UNCHANGED <<maps, view, dirs, task, jobs, free, history>>

\* Too large, or lazy: COPY TO the storage ...
Copy(j) ==
    /\ job[j].phase = "tmp"
    /\ dirs' = [dirs EXCEPT ![job[j].name][Gen(j)] = "data"]
    /\ job' = [job EXCEPT ![j].phase = "copied"]
    /\ UNCHANGED <<maps, relation, view, task, jobs, free, history>>

\* ... CREATE OR REPLACE VIEW over the files ...
CreateView(j) ==
    LET n == job[j].name IN
    /\ job[j].phase = "copied"
    /\ relation' = [relation EXCEPT ![n] = Gen(j)]
    /\ view' = [view EXCEPT ![n] = Gen(j)]
    /\ job' = [job EXCEPT ![j].phase = "viewed"]
    /\ UNCHANGED <<maps, dirs, task, jobs, free, history>>

\* ... the manifest ...
Seal(j) ==
    /\ job[j].phase = "viewed"
    /\ dirs' = [dirs EXCEPT ![job[j].name][Gen(j)] =
                    IF @ = "data" THEN "sealed" ELSE "hollow"]
    /\ job' = [job EXCEPT ![j].phase = "sealed"]
    /\ UNCHANGED <<maps, relation, view, task, jobs, free, history>>

HasManifest(n) == {g \in Gens : dirs[n][g] \in {"sealed", "hollow"}}

\* Mutation of Keep: the two oldest.
KeepOldest(n) ==
    {g \in HasManifest(n) : Cardinality({h \in HasManifest(n) : h < g}) < 2}

\* The two newest directories with a manifest.
Keep(n) ==
    {g \in HasManifest(n) : Cardinality({h \in HasManifest(n) : h > g}) < 2}

\* ... and gc_storage, whose errors are logged and passed over.
Gc(j) ==
    LET n == job[j].name IN
    /\ job[j].phase = "sealed"
    /\ \E K \in {Keep(n), Gens} :
         dirs' = [dirs EXCEPT ![n] =
                    [g \in Gens |-> IF g \in K THEN @[g] ELSE "none"]]
    /\ job' = [job EXCEPT ![j].phase = "made"]
    /\ UNCHANGED <<maps, relation, view, task, jobs, free, history>>

\* introspect_schema, then count_rows, of whatever the name now stands for.
Describe(j) ==
    LET n == job[j].name IN
    /\ job[j].phase = "made"
    /\ relation[n] # 0
    /\ job' = [job EXCEPT ![j].phase = "described", ![j].schema = relation[n]]
    /\ UNCHANGED <<maps, engine, task, jobs, free, history>>

Count(j) ==
    LET n == job[j].name IN
    /\ job[j].phase = "described"
    /\ relation[n] # 0
    /\ job' = [job EXCEPT ![j] = Ended(j, "ok", job[j].schema, relation[n])]
    /\ free' = free + 1
    /\ UNCHANGED <<maps, engine, task, jobs, history>>

\* A statement of a build fails: `?` leaves the closure at once.
BuildFails(j) ==
    /\ Building(j)
    /\ job[j].phase \notin {"conn", "ok", "err"}
    /\ Return(j, "err")
    /\ torn' = IF job[j].phase \in {"run", "tmp", "copied"} THEN torn
               ELSE [torn EXCEPT ![job[j].name] = TRUE]
    /\ UNCHANGED <<maps, engine, task, jobs, orphan, vacated, missed>>

\* unregister's DROP TABLE, DROP VIEW; an error is ignored.
DropRelation(j) ==
    LET n == job[j].name IN
    /\ job[j].op = "unregister" /\ job[j].phase = "run"
    /\ \/ /\ relation' = [relation EXCEPT ![n] = 0]
          /\ view' = [view EXCEPT ![n] = 0]
       \/ UNCHANGED <<relation, view>>
    /\ Return(j, "ok")
    /\ UNCHANGED <<maps, dirs, task, jobs, history>>

Removing(n) == \E t \in Tasks : /\ task[t].op = "unregister"
                                /\ task[t].pc = "block" /\ task[t].name = n

\* A query reads the relation of the name, if there is one.
Read(j) ==
    LET n == job[j].name IN
    /\ job[j].op \in Reading /\ job[j].phase = "run"
    /\ missed' = IF job[j].op = "query" /\ relation[n] = 0 /\ ~Removing(n)
                 THEN [missed EXCEPT ![n] = TRUE] ELSE missed
    /\ IF relation[n] = 0 THEN Return(j, "err")
       ELSE IF job[j].op = "query" THEN Return(j, "ok")
       ELSE /\ job' = [job EXCEPT ![j].phase = "streaming"]
            /\ UNCHANGED free
    /\ UNCHANGED <<maps, engine, task, jobs, orphan, torn, vacated>>

\* The client has read the stream or is gone: the writer ends, or its next
\* send into the bounded channel fails.
StreamEnd(j) ==
    /\ job[j].phase = "streaming"
    /\ Return(j, "ok")
    /\ UNCHANGED <<maps, engine, task, jobs, history>>

-----------------------------------------------------------------------------
(***************************************************************************)
(* The caller goes on.                                                     *)
(***************************************************************************)

\* The closure's result is there; the task takes it and returns.
Returned(t, op, outcome) ==
    /\ task[t].pc = "block" /\ task[t].op = op
    /\ job[task[t].job].phase = outcome
    /\ job' = [job EXCEPT ![task[t].job] = Ended(task[t].job, outcome, 0, 0)]
    /\ task' = [task EXCEPT ![t] = Idle]

\* Mutation of ReloadDone: only the schema is taken over.
ReloadDoneNoRows(t) ==
    LET n == task[t].name IN
    /\ Returned(t, "reload", "ok")
    /\ datasets' = [datasets EXCEPT ![n] = job[task[t].job].schema]
    /\ SetStatus(n, "published")
    /\ UNCHANGED <<configs, mutex, row_counts, engine, jobs, free, history>>

\* The swap of the maps; the cascade engine is notified (CascadeRefresh).
ReloadDone(t) ==
    LET n == task[t].name IN
    /\ Returned(t, "reload", "ok")
    /\ datasets' = [datasets EXCEPT ![n] = job[task[t].job].schema]
    /\ row_counts' = [row_counts EXCEPT ![n] = job[task[t].job].rows]
    /\ SetStatus(n, "published")
    /\ UNCHANGED <<configs, mutex, engine, jobs, free, history>>

\* Keep-last-good.
ReloadFailed(t) ==
    LET n == task[t].name IN
    /\ Returned(t, "reload", "err")
    /\ SetStatus(n, IF HasLive(n) THEN "published" ELSE "failed")
    /\ UNCHANGED <<configs, datasets, row_counts, mutex, engine, jobs, free, history>>

RegisterDone(t) ==
    LET n == task[t].name IN
    /\ Returned(t, "register", "ok")
    /\ datasets' = [datasets EXCEPT ![n] = job[task[t].job].schema]
    /\ row_counts' = [row_counts EXCEPT ![n] = job[task[t].job].rows]
    /\ configs' = [configs EXCEPT ![n] = task[t].cfg]
    /\ statuses' = [statuses EXCEPT ![n] = "published"]
    /\ UNCHANGED <<mutex, engine, jobs, free, history>>

RegisterFailed(t) ==
    /\ Returned(t, "register", "err")
    /\ UNCHANGED <<maps, engine, jobs, free, history>>

\* The entries go, the mutex with them, and last the directory tree, unless
\* that fails.
UnregisterDone(t) ==
    LET n == task[t].name IN
    /\ Returned(t, "unregister", "ok")
    /\ datasets' = [datasets EXCEPT ![n] = 0]
    /\ row_counts' = [row_counts EXCEPT ![n] = 0]
    /\ configs' = [configs EXCEPT ![n] = NoConfig]
    /\ statuses' = [statuses EXCEPT ![n] = "absent"]
    /\ mutex' = [mutex EXCEPT ![n] = @ + 1]
    /\ dirs' \in {dirs, [dirs EXCEPT ![n] = [g \in Gens |-> "none"]]}
    /\ UNCHANGED <<relation, view, jobs, free, history>>

\* A timeout drops the task where it awaits; its closure is not stopped.
Cancel(t) ==
    /\ task[t].pc # "idle"
    /\ orphan' = IF task[t].pc = "block" THEN [orphan EXCEPT ![task[t].name] = TRUE]
                 ELSE orphan
    /\ task' = [task EXCEPT ![t] = Idle]
    /\ UNCHANGED <<maps, engine, job, jobs, free, torn, vacated, missed>>

-----------------------------------------------------------------------------
Call(t) ==
    \E n \in Names :
        \/ ReloadCall(t, n)
        \/ TryReload(t, n)
        \/ \E cfg \in Config : RegisterCall(t, n, cfg)
        \/ UnregisterCall(t, n)

Continue(t) ==
    \/ Acquire(t)
    \/ RegisterLost(t)
    \/ ReloadDone(t)
    \/ ReloadFailed(t)
    \/ RegisterDone(t)
    \/ RegisterFailed(t)
    \/ UnregisterDone(t)

JobStep(j) ==
    \/ GetConn(j)
    \/ Create(j)
    \/ CreateTmp(j)
    \/ DropOld(j)
    \/ Rename(j)
    \/ Copy(j)
    \/ CreateView(j)
    \/ Seal(j)
    \/ Gc(j)
    \/ Describe(j)
    \/ Count(j)
    \/ BuildFails(j)
    \/ DropRelation(j)
    \/ Read(j)
    \/ StreamEnd(j)

Next ==
    \/ \E t \in Tasks : Call(t) \/ Continue(t) \/ Cancel(t)
    \/ \E n \in Names : QueryCall(n) \/ StreamCall(n)
    \/ \E j \in Jobs : JobStep(j)

Spec == Init /\ [][Next]_vars

-----------------------------------------------------------------------------
(***************************************************************************)
(* Properties.                                                             *)
(***************************************************************************)

\* Type invariant; the pool never holds more than its connections.
TypeOK ==
    /\ configs \in [Names -> Config \cup {NoConfig}]
    /\ datasets \in [Names -> 0 .. MaxJobs + 1]
    /\ row_counts \in [Names -> 0 .. MaxJobs + 1]
    /\ statuses \in [Names -> DatasetStatus]
    /\ mutex \in [Names -> Nat]
    /\ relation \in [Names -> 0 .. MaxJobs + 1]
    /\ view \in [Names -> 0 .. MaxJobs + 1]
    /\ dirs \in [Names -> [Gens -> Dir]]
    /\ task \in [Tasks -> Task]
    /\ job \in [Jobs -> Job]
    /\ jobs \in 0 .. MaxJobs
    /\ free \in 0 .. PoolSize
    /\ orphan \in [Names -> BOOLEAN]
    /\ torn \in [Names -> BOOLEAN]
    /\ vacated \in [Names -> BOOLEAN]
    /\ missed \in [Names -> BOOLEAN]

\* The mutex of n was the only one and no closure was left to itself: what
\* the code's guarantees rest on.
Serial(n) == mutex[n] = 0 /\ ~orphan[n]

Busy(n) == \E t \in Tasks : task[t].name = n /\ task[t].pc = "block"

\* The maps and the engine agree on the generation that is served whenever
\* no reload holds the mutex: row_counts is in lock-step with datasets
\* (db.rs:88) and the schema is that of the table, unless a build failed after
\* it had replaced the relation.
EngineInStep ==
    \A n \in Names : Serial(n) /\ ~Busy(n) /\ HasLive(n) =>
        /\ row_counts[n] = datasets[n]
        /\ ~torn[n] => relation[n] = datasets[n]

\* A relation that reads files of a generation finds them: the view is moved
\* before the manifest is written and the older directories are collected.
ViewOnDisk ==
    \A n \in Names : Serial(n) /\ view[n] # 0 =>
        dirs[n][view[n]] \in {"data", "sealed"}

\* A query of a published dataset finds its relation, whatever reloads run
\* beside it, for every form whose replacement is one statement (the comment
\* on reload, db.rs:175-178).
QueryFindsRelation ==
    \A n \in Names : Serial(n) /\ ~vacated[n] => ~missed[n]

\* What the queries of n read, while the mutex does its work.
Visible == [n \in Names |-> IF Serial(n) THEN relation[n] ELSE 0]

\* The relations implement LiveGenerations: a query never reads an older
\* generation than the one before it read.
Live == INSTANCE LiveGenerations WITH live <- Visible

ImplementsLive == Live!Spec

Holding == {j \in Jobs : job[j].phase \notin {"none", "conn", "ok", "err"}}

\* Every connection is in the pool or with a closure that still runs: none is
\* lost on an error path, and the closure of a dropped caller gives its own
\* back (PooledConn).
PoolAccounted == free + Cardinality(Holding) = PoolSize

=============================================================================
