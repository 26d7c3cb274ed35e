------------------------------ MODULE DfStore ------------------------------
(***************************************************************************)
(* The dataset registry of the DataFusion backend: Store in                *)
(* crates/datafusion/src/store.rs.                                         *)
(*                                                                         *)
(* The store keeps, for every dataset, its configuration (configs, behind  *)
(* an RwLock), its live generation (datasets), its lifecycle state         *)
(* (statuses) and the table the query engine scans (ctx).  datasets and    *)
(* statuses are each one HashMap behind an ArcSwap: an update loads the    *)
(* map, clones it, changes one entry and stores the clone, which is two    *)
(* steps here.  Reloads, first touches, registrations and removals of one  *)
(* dataset serialise on a mutex found in reload_locks; a startup build     *)
(* takes no lock.                                                          *)
(*                                                                         *)
(* A task is a request or a background task.  Tasks run on several threads *)
(* and interleave at every access to shared state, except that the tasks   *)
(* of one thread interleave only where they await: waiting for the mutex   *)
(* and building.                                                           *)
(***************************************************************************)
EXTENDS Integers, FiniteSets

CONSTANTS
    Names,         \* dataset names
    Tasks,         \* requests and background tasks
    Main,          \* the tasks that share the main thread
    Scenarios,     \* the sets of operations the tasks may use together
    MaxCalls       \* bound: operations the tasks start

Operations ==
    {"startup", "reload", "try_reload", "touch", "register", "unregister"}

ASSUME NamesAssumption == Names # {}
ASSUME MainAssumption == Main \subseteq Tasks
ASSUME ScenariosAssumption == Scenarios \subseteq SUBSET Operations
ASSUME BoundsAssumption == MaxCalls \in Nat

VARIABLES
    ops,       \* the operations of this behaviour, a member of Scenarios
    configs,   \* the configuration's kind, or "none"
    datasets,  \* live generation, 0 when the map has no entry
    tables,    \* generation of the table registered in ctx, 0 when none
    statuses,  \* lifecycle state and on_start policy, or Absent
    locks,     \* identity of the mutex reload_locks holds for the name
    builds,    \* builds started so far: the source of generation numbers
    calls,     \* operations started so far
    due,       \* the configuration of a startup build yet to start, or "none"
    aborted,   \* datasets of which a build was given up after Building
    task       \* what each task is doing

registry == <<configs, datasets, tables, statuses, locks>>
rest == <<ops, calls, due, aborted>>
vars == <<registry, builds, rest, task>>

-----------------------------------------------------------------------------
(***************************************************************************)
(* Values.                                                                 *)
(***************************************************************************)

\* A dataset of the config file, or a managed one that may be unregistered.
Kind == {"static", "managed"}

DatasetStatus == {"pending", "building", "published", "failed"}
OnStart == {"eager", "lazy", "skip"}
Entry == [st : DatasetStatus, on : OnStart]
Absent == [st |-> "absent", on |-> "none"]

Pc == {"idle", "getlock", "acquire", "recheck", "sload", "sstore", "build",
       "dereg", "reg", "dload", "dstore", "conf", "unlock"}

\* What a task may store for its dataset: a status, or "remove".
Want == DatasetStatus \cup {"remove"}

NoMap == [n \in Names |-> 0]
NoEntries == [n \in Names |-> Absent]

Idle == [op |-> "none", name |-> CHOOSE n \in Names : TRUE, pc |-> "idle",
         cfg |-> "none", lock |-> 0, gen |-> 0, want |-> "building",
         dsnap |-> NoMap, ssnap |-> NoEntries]

Task == [op : Operations \cup {"none"}, name : Names, pc : Pc,
         cfg : Kind \cup {"none"}, lock : Nat, gen : Nat, want : Want,
         dsnap : [Names -> Nat], ssnap : [Names -> Entry \cup {Absent}]]

\* t is at an await: idle, building or in lock().await.  try_lock never waits.
Awaiting(t) ==
    \/ task[t].pc \in {"idle", "build"}
    \/ task[t].pc = "acquire" /\ task[t].op # "try_reload"

\* A task runs unless another task of its thread is between two awaits.
Runs(t) == t \in Main => \A u \in Main \ {t} : Awaiting(u)

At(t, pc) == task[t].pc = pc /\ Runs(t)

\* t holds the mutex it fetched: it is past its acquisition.
Holds(t) ==
    /\ task[t].op \notin {"none", "startup"}
    /\ task[t].pc \notin {"idle", "getlock", "acquire"}

\* Mutation of LockFree: the mutex is free again once the build is done.
LockFreeAfterBuild(n, k) ==
    \A u \in Tasks : Holds(u) /\ task[u].pc \in {"sload", "sstore", "build"} =>
        task[u].name # n \/ task[u].lock # k

LockFree(n, k) ==
    \A u \in Tasks : Holds(u) => task[u].name # n \/ task[u].lock # k

Goto(t, pc) == task' = [task EXCEPT ![t].pc = pc]
Return(t) == task' = [task EXCEPT ![t] = Idle]

\* t returns without storing the status that should follow its Building.
GiveUp(t) ==
    /\ Return(t)
    /\ aborted' = IF task[t].op = "register" THEN aborted
                                            ELSE aborted \cup {task[t].name}

-----------------------------------------------------------------------------
\* new_nonblocking: every configured dataset is Pending and nothing is built.
Init ==
    /\ ops \in Scenarios
    /\ configs \in [Names -> Kind \cup {"none"}]
    /\ statuses \in [Names -> [st : {"pending"}, on : OnStart] \cup {Absent}]
    /\ \A n \in Names : configs[n] = "none" <=> statuses[n] = Absent
    /\ datasets = NoMap
    /\ tables = NoMap
    /\ locks = [n \in Names |-> 1]
    /\ builds = 0
    /\ calls = 0
    /\ due = [n \in Names |-> IF statuses[n].on = "eager" THEN configs[n] ELSE "none"]
    /\ aborted = {}
    /\ task = [t \in Tasks |-> Idle]

-----------------------------------------------------------------------------
(***************************************************************************)
(* Entry points.                                                           *)
(***************************************************************************)

Call(t, op, n, cfg, pc, want) ==
    /\ op \in ops
    /\ calls < MaxCalls
    /\ calls' = calls + 1
    /\ At(t, "idle")
    /\ task' = [task EXCEPT ![t] = [Idle EXCEPT !.op = op, !.name = n, !.cfg = cfg,
                                                !.pc = pc, !.want = want]]
    /\ UNCHANGED <<registry, builds, ops, aborted>>

\* Each dataset that was eager at the start gets one startup build, whatever
\* became of it since; it goes straight to its status update, without
\* reload_locks.  One whose upstream failed is marked Failed and not built.
StartupCall(t, n) ==
    /\ t \in Main
    /\ due[n] # "none"
    /\ due' = [due EXCEPT ![n] = "none"]
    /\ \E want \in {"building", "failed"} :
         Call(t, "startup", n, due[n], "sload", want)

\* reload (a request) and try_reload (the scheduler and the reload-all wave)
\* look the configuration up before the mutex.
ReloadCall(t, op, n) ==
    /\ op = "reload" => t \notin Main
    /\ configs[n] # "none"
    /\ Call(t, op, n, configs[n], "getlock", "building")
    /\ UNCHANGED due

\* ensure_ready finds a lazy dataset that was never built.
TouchCall(t, n) ==
    /\ statuses[n] = [st |-> "pending", on |-> "lazy"]
    /\ Call(t, "touch", n, "none", "getlock", "building")
    /\ UNCHANGED due

\* register: the fast pre-check, which looks at datasets only.
RegisterCall(t, n) ==
    /\ t \notin Main
    /\ datasets[n] = 0
    /\ \E k \in Kind : Call(t, "register", n, k, "getlock", "published")
    /\ UNCHANGED due

\* unregister (a request, or the scheduler when a TTL expires): only a
\* managed dataset.
UnregisterCall(t, n) ==
    /\ configs[n] = "managed"
    /\ Call(t, "unregister", n, "none", "getlock", "remove")
    /\ UNCHANGED due

\* The entry of reload_locks, created on demand.
GetLock(t) ==
    /\ At(t, "getlock")
    /\ task' = [task EXCEPT ![t].pc = "acquire",
                            ![t].lock = locks[task[t].name]]
    /\ UNCHANGED <<registry, builds, rest>>

-----------------------------------------------------------------------------
(***************************************************************************)
(* The steps of an operation.                                              *)
(***************************************************************************)

\* Where an operation continues once it holds the mutex.
Locked(op) ==
    IF op \in {"touch", "register"} THEN "recheck"
    ELSE IF op = "unregister" THEN "dereg" ELSE "sload"

Acquire(t) ==
    /\ At(t, "acquire")
    /\ LockFree(task[t].name, task[t].lock)
    /\ Goto(t, Locked(task[t].op))
    /\ UNCHANGED <<registry, builds, rest>>

\* try_reload coalesces when the mutex is held.
Coalesce(t) ==
    /\ At(t, "acquire") /\ task[t].op = "try_reload"
    /\ ~LockFree(task[t].name, task[t].lock)
    /\ Return(t)
    /\ UNCHANGED <<registry, builds, rest>>

\* first_touch_build looks again under the mutex (store.rs:645-655).
TouchRecheck(t) ==
    LET n == task[t].name IN
    /\ At(t, "recheck") /\ task[t].op = "touch"
    /\ IF statuses[n].st = "published" \/ configs[n] = "none"
       THEN Return(t) ELSE Goto(t, "sload")
    /\ UNCHANGED <<registry, builds, rest>>

\* Mutation of RegisterRecheck: a registration does not look again.
RegisterRecheckMissing(t) ==
    /\ At(t, "recheck") /\ task[t].op = "register"
    /\ builds' = builds + 1
    /\ task' = [task EXCEPT ![t].pc = "build", ![t].gen = builds + 1]
    /\ UNCHANGED <<registry, rest>>

\* register looks again under the mutex, then builds without announcing it in
\* statuses (store.rs:871-887).
RegisterRecheck(t) ==
    /\ At(t, "recheck") /\ task[t].op = "register"
    /\ \/ /\ datasets[task[t].name] # 0
          /\ Return(t) /\ UNCHANGED builds
       \/ /\ datasets[task[t].name] = 0
          /\ builds' = builds + 1
          /\ task' = [task EXCEPT ![t].pc = "build", ![t].gen = builds + 1]
    /\ UNCHANGED <<registry, rest>>

\* statuses.load().
StatusLoad(t) ==
    /\ At(t, "sload")
    /\ task' = [task EXCEPT ![t].pc = "sstore", ![t].ssnap = statuses]
    /\ UNCHANGED <<registry, builds, rest>>

\* Mutation of NewEntry: set_status inserts an entry that is missing.
NewEntryInserting(t) ==
    CASE task[t].op = "unregister" -> Absent
      [] task[t].op = "register" -> [st |-> "published", on |-> "eager"]
      [] OTHER -> [task[t].ssnap[task[t].name] EXCEPT !.st = task[t].want]

\* The entry a task stores: set_status keeps the policy and ignores a missing
\* entry (store.rs:588-591); register inserts an eager Published one (902);
\* unregister removes it (976).
NewEntry(t) ==
    LET old == task[t].ssnap[task[t].name] IN
    CASE task[t].op = "unregister" -> Absent
      [] task[t].op = "register" -> [st |-> "published", on |-> "eager"]
      [] OTHER -> IF old = Absent THEN Absent ELSE [old EXCEPT !.st = task[t].want]

\* statuses.store().  A task that stored Building goes on to build.
StatusStore(t) ==
    /\ At(t, "sstore")
    /\ statuses' = [task[t].ssnap EXCEPT ![task[t].name] = NewEntry(t)]
    /\ \/ /\ task[t].want = "building"
          /\ builds' = builds + 1
          /\ task' = [task EXCEPT ![t].pc = "build", ![t].gen = builds + 1,
                                  ![t].ssnap = NoEntries]
       \/ /\ task[t].want = "remove"
          /\ Goto(t, "unlock") /\ UNCHANGED builds
       \/ /\ task[t].want \in {"published", "failed"}
          /\ Return(t) /\ UNCHANGED builds
    /\ UNCHANGED <<configs, datasets, tables, locks, rest>>

\* Mutation of BuildOk: a reload leaves the engine's table as it was.
BuildOkTableKept(t) ==
    /\ At(t, "build")
    /\ Goto(t, IF task[t].op \in {"startup", "register"} THEN "reg" ELSE "dload")
    /\ UNCHANGED <<registry, builds, rest>>

\* build_dataset succeeds: reload (store.rs:808-811) and first touch
\* (660-661) deregister the old table, startup (515-518) and register
\* (886-891) do not.
BuildOk(t) ==
    /\ At(t, "build")
    /\ Goto(t, IF task[t].op \in {"startup", "register"} THEN "reg" ELSE "dereg")
    /\ UNCHANGED <<registry, builds, rest>>

\* Mutation of BuildErr: back to Published without a look at datasets.
BuildErrPublished(t) ==
    /\ At(t, "build")
    /\ \/ /\ task[t].op # "register"
          /\ task' = [task EXCEPT ![t].pc = "sload", ![t].want = "published"]
       \/ /\ task[t].op = "register"
          /\ Return(t)
    /\ UNCHANGED <<registry, builds, rest>>

\* Mutation of BuildErr: the error returns at once, the status untouched.
BuildErrEarlyReturn(t) ==
    /\ At(t, "build")
    /\ Return(t)
    /\ UNCHANGED <<registry, builds, rest>>

\* build_dataset fails: reload keeps the last good generation (store.rs:
\* 797-806), a startup (540-552) or first-touch build (676-679) is Failed, a
\* registration just returns the error (887).
BuildErr(t) ==
    /\ At(t, "build")
    /\ \/ /\ task[t].op \in {"reload", "try_reload"}
          /\ task' = [task EXCEPT ![t].pc = "sload",
                        ![t].want = IF datasets[task[t].name] # 0
                                    THEN "published" ELSE "failed"]
       \/ /\ task[t].op \in {"startup", "touch"}
          /\ task' = [task EXCEPT ![t].pc = "sload", ![t].want = "failed"]
       \/ /\ task[t].op = "register"
          /\ Return(t)
    /\ UNCHANGED <<registry, builds, rest>>

\* ctx.deregister_table.
Deregister(t) ==
    /\ At(t, "dereg")
    /\ tables' = [tables EXCEPT ![task[t].name] = 0]
    /\ Goto(t, IF task[t].op = "unregister" THEN "dload" ELSE "reg")
    /\ UNCHANGED <<configs, datasets, statuses, locks, builds, rest>>

\* ctx.register_table: the engine refuses a name it already has.  A startup
\* build then marks the dataset Failed (store.rs:518-522); every other
\* operation returns the error at once (662, 812, 891), which leaves a
\* reload's Building behind.
RegisterTable(t) ==
    LET n == task[t].name IN
    /\ At(t, "reg")
    /\ \/ /\ tables[n] = 0
          /\ tables' = [tables EXCEPT ![n] = task[t].gen]
          /\ Goto(t, IF task[t].op = "startup" THEN "conf" ELSE "dload")
          /\ UNCHANGED aborted
       \/ /\ tables[n] # 0 /\ task[t].op = "startup"
          /\ task' = [task EXCEPT ![t].pc = "sload", ![t].want = "failed"]
          /\ UNCHANGED <<tables, aborted>>
       \/ /\ tables[n] # 0 /\ task[t].op # "startup"
          /\ GiveUp(t) /\ UNCHANGED tables
    /\ UNCHANGED <<configs, datasets, statuses, locks, builds, ops, calls, due>>

\* datasets.load() and datasets.store(): the same three lines in every
\* operation (store.rs:528-530, 663-665, 814-816, 893-895, 965-967).
DatasetsLoad(t) ==
    /\ At(t, "dload")
    /\ task' = [task EXCEPT ![t].pc = "dstore", ![t].dsnap = datasets]
    /\ UNCHANGED <<registry, builds, rest>>

DatasetsStore(t) ==
    /\ At(t, "dstore")
    /\ datasets' = [task[t].dsnap EXCEPT ![task[t].name] = task[t].gen]
    /\ task' = [task EXCEPT
                  ![t].pc = IF task[t].op \in {"register", "unregister"}
                            THEN "conf" ELSE "sload",
                  ![t].dsnap = NoMap,
                  ![t].want = IF @ = "remove" THEN "remove" ELSE "published"]
    /\ UNCHANGED <<configs, tables, statuses, locks, builds, rest>>

\* Mutation of ConfigsWrite: a registration forgets its configuration.
ConfigsWriteForgets(t) ==
    /\ At(t, "conf")
    /\ configs' = IF task[t].op = "register" THEN configs
                  ELSE [configs EXCEPT ![task[t].name] = task[t].cfg]
    /\ Goto(t, IF task[t].op = "startup" THEN "dload" ELSE "sload")
    /\ UNCHANGED <<datasets, tables, statuses, locks, builds, rest>>

\* configs.write(): a registration and a startup build insert the
\* configuration they were called with (store.rs:896-899, 524-527), unregister
\* removes the entry (971).
ConfigsWrite(t) ==
    /\ At(t, "conf")
    /\ configs' = [configs EXCEPT ![task[t].name] = task[t].cfg]
    /\ Goto(t, IF task[t].op = "startup" THEN "dload" ELSE "sload")
    /\ UNCHANGED <<datasets, tables, statuses, locks, builds, rest>>

\* unregister drops the entry of reload_locks: the next caller gets a new
\* mutex, while callers that already fetched the old one keep it.
RemoveLock(t) ==
    /\ At(t, "unlock")
    /\ locks' = [locks EXCEPT ![task[t].name] = @ + 1]
    /\ Return(t)
    /\ UNCHANGED <<configs, datasets, tables, statuses, builds, rest>>

\* The request timeout, or the scheduler's, drops the future at an await:
\* the mutex is released and nothing is undone.
Cancel(t) ==
    /\ \/ At(t, "acquire") /\ task[t].op # "try_reload" /\ Return(t) /\ UNCHANGED aborted
       \/ At(t, "build") /\ task[t].op # "startup" /\ GiveUp(t)
    /\ UNCHANGED <<registry, builds, ops, calls, due>>

-----------------------------------------------------------------------------
Enter(t) ==
    \E n \in Names :
        \/ StartupCall(t, n)
        \/ \E op \in {"reload", "try_reload"} : ReloadCall(t, op, n)
        \/ TouchCall(t, n)
        \/ RegisterCall(t, n)
        \/ UnregisterCall(t, n)

Step(t) ==
    \/ GetLock(t)
    \/ Acquire(t)
    \/ Coalesce(t)
    \/ TouchRecheck(t)
    \/ RegisterRecheck(t)
    \/ StatusLoad(t)
    \/ StatusStore(t)
    \/ BuildOk(t)
    \/ BuildErr(t)
    \/ Deregister(t)
    \/ RegisterTable(t)
    \/ DatasetsLoad(t)
    \/ DatasetsStore(t)
    \/ ConfigsWrite(t)
    \/ RemoveLock(t)

Next == \E t \in Tasks : Enter(t) \/ Step(t) \/ Cancel(t)

Spec == Init /\ [][Next]_vars

-----------------------------------------------------------------------------
(***************************************************************************)
(* Properties.                                                             *)
(***************************************************************************)

\* Type invariant.
TypeOK ==
    /\ ops \in Scenarios
    /\ configs \in [Names -> Kind \cup {"none"}]
    /\ datasets \in [Names -> Nat]
    /\ tables \in [Names -> Nat]
    /\ statuses \in [Names -> Entry \cup {Absent}]
    /\ locks \in [Names -> Nat \ {0}]
    /\ builds \in Nat
    /\ calls \in Nat
    /\ due \in [Names -> Kind \cup {"none"}]
    /\ aborted \in SUBSET Names
    /\ task \in [Tasks -> Task]
    /\ \A t \in Tasks : task[t].want = "remove" => task[t].op = "unregister"

\* t works on n: it has begun to change the entries of n.
Working(t, n) ==
    /\ task[t].name = n
    /\ task[t].op = "startup" \/ Holds(t)

\* Nobody ever unregistered n: all its tasks share one mutex.
OneMutex(n) == locks[n] = 1

\* A dataset that answers queries has something to answer with: Published
\* means that a generation is live, whatever startup builds, reloads, first
\* touches and registrations race for it.  ensure_ready (store.rs:622) relies
\* on it when it lets a query through to dataset().
PublishedIsLoaded ==
    \A n \in Names :
        /\ OneMutex(n)
        /\ statuses[n].st = "published"
        /\ \A t \in Tasks : Working(t, n) => task[t].op # "unregister"
        => datasets[n] # 0

\* A build that fails puts the dataset back to Published or Failed: Building
\* outlives its build only when the build was cancelled or its table refused.
BuildingIsOwned ==
    \A n \in Names :
        statuses[n].st = "building" =>
            n \in aborted \/ \E t \in Tasks : Working(t, n)

\* Between operations the in-memory snapshot and the table the SQL engine
\* scans are of one generation, since reload_inner, register and unregister
\* change both under the mutex.  Startup builds, which take no mutex, void it.
EngineAgrees ==
    \A n \in Names :
        /\ OneMutex(n)
        /\ "startup" \notin ops
        /\ \A t \in Tasks : ~Working(t, n)
        => tables[n] = datasets[n]

\* t builds or publishes a generation under the mutex.
Publishing(t) ==
    /\ task[t].pc \in {"build", "dereg", "reg", "dload", "dstore"}
    /\ task[t].op \notin {"startup", "unregister"}

\* What an operation is about to publish is newer than what is live, because
\* the mutex orders builds and publishes alike: a reload that was overtaken
\* cannot bring an older generation back (store.rs:814-816).
NewestWins ==
    \A t \in Tasks :
        /\ Publishing(t)
        /\ OneMutex(task[t].name)
        /\ "startup" \notin ops
        => task[t].gen > datasets[task[t].name]

\* Of two registrations of a name the first wins: one that is about to
\* publish finds nothing live to replace (store.rs:854, 872).
FirstRegistrationWins ==
    \A t \in Tasks :
        /\ Publishing(t) /\ task[t].op = "register"
        /\ OneMutex(task[t].name)
        /\ "startup" \notin ops
        => datasets[task[t].name] = 0

\* What makes NewestWins inductive: the mutex of a name has one holder, and
\* no task carries a copy of datasets that is newer than a build under way.
IdleHasNoOp == \A t \in Tasks : task[t].op = "none" => task[t].pc = "idle"

NoStartup ==
    "startup" \notin ops => \A t \in Tasks : task[t].op # "startup"

MutexFetched ==
    \A t \in Tasks :
        task[t].pc \notin {"idle", "getlock"} /\ task[t].op # "startup" =>
            1 <= task[t].lock /\ task[t].lock <= locks[task[t].name]

MutexExclusive ==
    \A t, u \in Tasks :
        (t # u /\ Holds(t) /\ Holds(u) /\ task[t].name = task[u].name) =>
            task[t].lock # task[u].lock

GenerationsStarted ==
    /\ \A n \in Names : datasets[n] <= builds
    /\ \A t \in Tasks :
         task[t].gen <= builds /\ \A n \in Names : task[t].dsnap[n] <= builds

CopiesOlder ==
    \A t, u \in Tasks :
        /\ Publishing(t)
        /\ OneMutex(task[t].name)
        /\ "startup" \notin ops
        => task[t].gen > task[u].dsnap[task[t].name]

IndInv ==
    /\ IdleHasNoOp
    /\ NoStartup
    /\ MutexFetched
    /\ MutexExclusive
    /\ GenerationsStarted
    /\ CopiesOlder
    /\ NewestWins

\* While the name kept its one mutex and no startup build, which takes none,
\* could interfere, the registry implements LiveGenerations: readers of a
\* dataset never go back to an older generation.
Visible ==
    [n \in Names |-> IF OneMutex(n) /\ "startup" \notin ops THEN datasets[n] ELSE 0]

Live == INSTANCE LiveGenerations WITH live <- Visible

ImplementsLive == Live!Spec

\* Between operations a live generation has its configuration, so that it can
\* be reloaded, and, unless an operation was given up, its Published status.
\* An unregister that got the mutex leaves neither behind.
LoadedIsServed ==
    \A n \in Names :
        /\ OneMutex(n)
        /\ datasets[n] # 0
        /\ \A t \in Tasks : ~Working(t, n)
        => /\ configs[n] # "none"
           /\ \/ statuses[n].st = "published"
              \/ n \in aborted
              \/ "startup" \in ops

\* docs/src/configuration/materialized.md:183, 220: a build that fails or
\* exceeds its timeout leaves the previous generation live and queryable; a
\* query is let through only when the status is Published.
KeepLastGood ==
    \A n \in Names :
        /\ datasets[n] # 0 /\ configs[n] # "none"
        /\ \A t \in Tasks : ~Working(t, n)
        => statuses[n].st = "published"

\* store.rs:585, 720: the status of a name is updated atomically and its
\* generation swapped in atomically; an operation on one dataset leaves the
\* entries of the others alone.
AtomicUpdate ==
    [][\A n \in Names :
        (\A t \in Tasks : task'[t] # task[t] => task[t].name # n) =>
            datasets'[n] = datasets[n] /\ statuses'[n] = statuses[n]]_vars

=============================================================================
