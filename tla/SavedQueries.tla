---------------------------- MODULE SavedQueries ----------------------------
(***************************************************************************)
(* Saved queries: POST, GET and DELETE /api/v1/queries, their files in     *)
(* datasets.d, their time to live, and the other operations that read or   *)
(* write the configuration on disk (POST /datasets, /datasets/persist,     *)
(* /config/reload, start-up).  handlers/v1.rs, config.rs, refresh.rs.      *)
(*                                                                         *)
(* The workers of the server run in parallel: every access to the registry *)
(* or to the disk is a step of its own, and the process may stop between   *)
(* any two of them.  The registry is seen through the Backend trait; what  *)
(* happens inside register and unregister is in DfStore and DuckRegistry.  *)
(***************************************************************************)
EXTENDS Config

CONSTANTS
    Tasks,       \* requests served at once
    Names,       \* datasets
    Main,        \* the server's configuration file at first
    CreateDefs,  \* what the saved queries API is asked to create
    ApiDefs,     \* what POST /datasets is asked to register
    MaxCalls,    \* bound: requests
    MaxCrashes   \* bound: restarts

VARIABLES
    up,        \* the process: "up", "down", or "refused" by its own files
    main,      \* the configuration file
    dir,       \* datasets.d: for each name "none", "torn" or "whole" and a def
    registry,  \* the datasets of the backend
    ttl,       \* deletions the scheduler holds or has spawned
    task,      \* the requests
    calls, crashes,
    births,    \* datasets published so far
    acked,     \* history: the definition a create was answered for, an option
    raced,     \* history: names on which two requests that write overlapped
    undercut   \* history: names that may have lost the race for a dependent

disk == <<main, dir>>
bounds == <<calls, crashes, births>>
history == <<acked, raced, undercut>>
vars == <<up, disk, registry, ttl, task, bounds, history>>

\* What the server knows of a dataset: DatasetConfig, as Config describes it.
ColumnFilter == [include : SUBSET STRING, exclude : SUBSET STRING]
Dataset ==
    [name : Names, kind : {"parquet", "delta", "query"}, place : Place,
     sql : SUBSET STRING, depends_on : Seq(STRING),
     index : [mode : {"auto", "none", "list"}, columns : SUBSET STRING],
     refresh : {"none", "zero", "interval"},
     materialize : {"none", "auto", "memory", "lazy"},
     on_start : {"eager", "lazy", "skip"},
     predicate_filter : ColumnFilter, projection_filter : ColumnFilter,
     managed : BOOLEAN, temp : BOOLEAN, ttl : BOOLEAN]

ASSUME NamesAssumption == Names \subseteq STRING /\ IsFiniteSet(Names)
ASSUME DefsAssumption ==
    /\ CreateDefs # {}
    /\ CreateDefs \subseteq Dataset /\ ApiDefs \subseteq Dataset
    /\ \A d \in CreateDefs : IsFiniteSet(d.sql)
ASSUME MainAssumption ==
    "datasets" \in DOMAIN Main /\ Main.datasets \in Seq(Dataset)
ASSUME BoundsAssumption == MaxCalls \in Nat /\ MaxCrashes \in Nat

AnyDef == CHOOSE d \in CreateDefs : TRUE
NoFile == [state |-> "none", def |-> AnyDef]
Absent == [state |-> "absent", def |-> AnyDef, inc |-> 0]
Idle == [op |-> "none", def |-> AnyDef, pc |-> "idle", todo |-> {}]

\* backend.names() lists what can be queried, dataset_statuses() everything.
Ready == {n \in Names : registry[n].state = "ready"}
Known == {n \in Names : registry[n].state # "absent"}

\* The files of datasets.d in their load order; a torn one does not parse.
Files == {n \in Names : dir[n].state # "none"}
FileSeq == LET s == SetToSeq(Files) IN [i \in DOMAIN s |-> dir[s[i]].def]
Loadable == /\ \A n \in Files : dir[n].state = "whole"
            /\ load(main, FileSeq)

DepsReady(d) == \A x \in Range(d.depends_on) : \E m \in Ready : Lower[m] = x

\* Type invariant.
TypeOK ==
    /\ up \in {"up", "down", "refused"}
    /\ \A n \in Names : /\ dir[n].state \in {"none", "torn", "whole"}
                        /\ registry[n].state \in {"absent", "failed", "ready"}
                        /\ Cardinality(acked[n]) <= 1
    /\ ttl \subseteq [name : Names, inc : Nat, due : BOOLEAN]
    /\ \A t \in Tasks : task[t].pc \in {"idle", "persist", "write", "register",
                                        "publish", "unregister", "unlink"}
    /\ calls \in 0 .. MaxCalls /\ crashes \in 0 .. MaxCrashes
    /\ raced \subseteq Names /\ undercut \subseteq Names

-----------------------------------------------------------------------------
(***************************************************************************)
(* Start-up.                                                               *)
(***************************************************************************)

\* Every dataset is built or fails; a query needs the datasets it reads.
BootRegistry(ds) ==
    {r \in [Names -> {"absent", "failed", "ready"}] :
       /\ \A n \in Names : r[n] = "absent" <=> n \notin NamesOf(ds)
       /\ \A d \in Range(ds) : r[d.name] = "ready" =>
            \A x \in Range(d.depends_on) :
               \E m \in Names : Lower[m] = Lower[x] /\ r[m] = "ready"}

DefOf(ds, n) == CHOOSE d \in Range(ds) : d.name = n

Booted(ds) ==
    \E r \in BootRegistry(ds) :
       registry' = [n \in Names |->
                      IF r[n] = "absent" THEN Absent
                      ELSE [state |-> r[n], def |-> DefOf(ds, n), inc |-> 0]]

Init ==
    /\ up = "down"
    /\ main = Main
    /\ dir = [n \in Names |-> NoFile]
    /\ registry = [n \in Names |-> Absent]
    /\ ttl = {}
    /\ task = [t \in Tasks |-> Idle]
    /\ calls = 0 /\ crashes = 0 /\ births = 0
    /\ acked = [n \in Names |-> {}]
    /\ raced = {} /\ undercut = {}

\* AppConfig::load, then the start-up builds.
Boot ==
    /\ up = "down"
    /\ \/ /\ Loadable
          /\ up' = "up"
          /\ Booted(main.datasets \o FileSeq)
       \/ /\ ~Loadable
          /\ up' = "refused"
          /\ UNCHANGED registry
    /\ UNCHANGED <<disk, ttl, task, bounds, history>>

\* The process stops: what is in memory is lost.
Crash ==
    /\ up = "up"
    /\ crashes < MaxCrashes
    /\ crashes' = crashes + 1
    /\ up' = "down"
    /\ registry' = [n \in Names |-> Absent]
    /\ ttl' = {}
    /\ task' = [t \in Tasks |-> Idle]
    /\ UNCHANGED <<disk, calls, births, history>>

-----------------------------------------------------------------------------
(***************************************************************************)
(* Requests.                                                               *)
(***************************************************************************)
Call(t) == /\ up = "up"
           /\ task[t].pc = "idle"
           /\ calls < MaxCalls
           /\ calls' = calls + 1

Goto(t, pc) == task' = [task EXCEPT ![t].pc = pc]
Finish(t) == task' = [task EXCEPT ![t] = Idle]

\* Requests that write the file or the entry of n.
Writing(n) == {t \in Tasks : task[t].pc # "idle" /\ task[t].def.name = n}
Deleting(n) == {t \in Writing(n) : task[t].op = "delete"}

\* The query the handler builds: depends_on is inferred from the SQL.
Inferred(d) ==
    [d EXCEPT !.depends_on = SetToSeq(d.sql), !.managed = TRUE,
              !.refresh = IF d.temp THEN "none" ELSE @]

\* create_query up to its first write.  An asynchronous create (op "async")
\* answers before the build and never arms the time to live.
CreateCall(t, d, op) ==
    /\ Call(t)
    /\ d.name \notin Known /\ d.name \notin ReservedNames
    /\ SqlValid(d.sql, {Lower[n] : n \in Ready})
    /\ validate_for_register(Inferred(d))
    /\ task' = [task EXCEPT ![t] =
                  [op |-> op, def |-> Inferred(d), todo |-> {},
                   pc |-> IF d.temp THEN "register" ELSE "persist"]]
    /\ raced' = raced \cup {n \in {d.name} : Writing(n) # {}}
    /\ acked' = [acked EXCEPT ![d.name] = {}]
    /\ undercut' = undercut \cup {x \in d.sql : Deleting(x) # {}}
    /\ UNCHANGED <<up, disk, registry, ttl, crashes, births>>

\* persist_to_managed_dir: fs::write truncates the file, then fills it.
PersistOpen(t) ==
    /\ task[t].pc = "persist"
    /\ dir' = [dir EXCEPT ![task[t].def.name].state = "torn"]
    /\ Goto(t, "write")
    /\ UNCHANGED <<up, main, registry, ttl, bounds, history>>

Ack(d) == acked' = [acked EXCEPT ![d.name] = {d}]

\* Mutation of PersistWrite: an asynchronous create is answered, the file
\* left to the build.
PersistWriteLate(t) ==
    LET d == task[t].def IN
    /\ task[t].pc = "write"
    /\ Goto(t, "register")
    /\ \/ /\ task[t].op = "async"
          /\ Ack(d) /\ UNCHANGED dir
       \/ /\ task[t].op # "async"
          /\ dir' = [dir EXCEPT ![d.name] =
                       [state |-> "whole", def |-> to_managed_toml(d)]]
          /\ UNCHANGED acked
    /\ UNCHANGED <<up, main, registry, ttl, bounds, raced, undercut>>

\* An asynchronous create is answered 202 once its file is written.
PersistWrite(t) ==
    LET d == task[t].def IN
    /\ task[t].pc = "write"
    /\ dir' = [dir EXCEPT ![d.name] =
                 [state |-> "whole", def |-> to_managed_toml(d)]]
    /\ Goto(t, "register")
    /\ IF task[t].op = "async" THEN Ack(d) ELSE UNCHANGED acked
    /\ UNCHANGED <<up, main, registry, ttl, bounds, raced, undercut>>

\* The disk refuses the write: the request fails, the file stays as it is.
PersistError(t) ==
    /\ task[t].pc = "write"
    /\ Finish(t)
    /\ UNCHANGED <<up, disk, registry, ttl, bounds, history>>

\* POST /datasets: straight to the backend.
RegisterCall(t, d) ==
    /\ Call(t)
    /\ validate_for_register(d)
    /\ d.name \notin Ready
    /\ task' = [task EXCEPT ![t] = [op |-> "register", def |-> d,
                                    pc |-> "register", todo |-> {}]]
    /\ raced' = raced \cup {n \in {d.name} : Writing(n) # {}}
    /\ undercut' = undercut \cup {x \in Range(d.depends_on) : Deleting(x) # {}}
    /\ UNCHANGED <<up, disk, registry, ttl, crashes, births, acked>>

\* A list of datasets, by position, and its first entry.
Entries(ds) == {[at |-> i, def |-> ds[i]] : i \in DOMAIN ds}
First(todo) == {e \in todo : \A f \in todo : e.at <= f.at}

\* reload_config: the files are read and validated as at start-up, and what
\* is not live now is registered, one after the other.
ReloadConfig(t) ==
    LET todo == {e \in Entries(main.datasets \o FileSeq) : e.def.name \notin Ready} IN
    /\ Call(t)
    /\ Loadable
    /\ \E e \in First(todo) :
         task' = [task EXCEPT ![t] = [op |-> "config", def |-> e.def,
                                      pc |-> "register", todo |-> todo \ {e}]]
    /\ raced' = raced \cup {n \in Names : Writing(n) # {} /\ \E e \in todo : e.def.name = n}
    /\ undercut' = undercut \cup
          {n \in Names : Deleting(n) # {} /\ \E e \in todo : n \in Range(e.def.depends_on)}
    /\ UNCHANGED <<up, disk, registry, ttl, crashes, births, acked>>

\* What a request does when its register has returned: reload_config turns to
\* the next dataset of its list, the others are over.
TakeNext(t, e) ==
    /\ task' = [task EXCEPT ![t].def = e.def, ![t].pc = "register",
                            ![t].todo = task[t].todo \ {e}]
    /\ raced' = raced \cup {n \in {e.def.name} : Writing(n) \ {t} # {}}

AfterRegister(t) ==
    \/ task[t].todo = {} /\ Finish(t) /\ UNCHANGED raced
    \/ \E e \in First(task[t].todo) : TakeNext(t, e)

\* register, under the mutex of the name: it builds unless the name is live.
Locked(n) == \E t \in Writing(n) : task[t].pc = "publish"

Build(t) ==
    LET d == task[t].def IN
    /\ task[t].pc = "register" /\ ~Locked(d.name)
    /\ \/ /\ d.name \notin Ready /\ DepsReady(d)
          /\ Goto(t, "publish") /\ UNCHANGED raced
       \/ AfterRegister(t)
    /\ UNCHANGED <<up, disk, registry, ttl, bounds, acked, undercut>>

HasTtl(t) == task[t].op = "create" /\ task[t].def.temp /\ task[t].def.ttl

\* The dataset goes live.  A create that waited for it arms the time to live
\* and is answered.
Publish(t) ==
    LET d == task[t].def IN
    /\ task[t].pc = "publish"
    /\ registry' = [registry EXCEPT ![d.name] =
                      [state |-> "ready", def |-> d, inc |-> births + 1]]
    /\ births' = births + 1
    /\ ttl' = IF HasTtl(t)
              THEN ttl \cup {[name |-> d.name, inc |-> births + 1, due |-> FALSE]}
              ELSE ttl
    /\ acked' = IF task[t].op = "create" /\ ~d.temp
                THEN [acked EXCEPT ![d.name] = {d}] ELSE acked
    /\ AfterRegister(t)
    /\ UNCHANGED <<up, disk, calls, crashes, undercut>>

\* persist_dataset: the block is appended, nothing is compared.
PersistDataset(n) ==
    /\ up = "up" /\ calls < MaxCalls
    /\ n \in Ready
    /\ calls' = calls + 1
    /\ main' = [main EXCEPT !.datasets =
                  Append(@, to_toml_block(registry[n].def))]
    /\ UNCHANGED <<up, dir, registry, ttl, task, crashes, births, history>>

-----------------------------------------------------------------------------
(***************************************************************************)
(* Deletion.                                                               *)
(***************************************************************************)

\* delete_query compares names as written.
Dependents(n) == {m \in Known : n \in Range(registry[m].def.depends_on)}

\* A request under way is about to register a dataset that reads n.
ReaderComing(n) ==
    \E t \in Tasks : /\ task[t].pc # "idle"
                     /\ \/ n \in Range(task[t].def.depends_on)
                        \/ \E e \in task[t].todo : n \in Range(e.def.depends_on)

\* Mutation of DeleteCall: dependents are not looked for.
DeleteCallAnyway(t, n) ==
    /\ Call(t)
    /\ n \in Known /\ registry[n].def.managed
    /\ task' = [task EXCEPT ![t] = [op |-> "delete", def |-> registry[n].def,
                                    pc |-> "unregister", todo |-> {}]]
    /\ acked' = [acked EXCEPT ![n] = {}]
    /\ raced' = raced \cup {m \in {n} : Writing(m) # {}}
    /\ undercut' = undercut \cup (IF ReaderComing(n) THEN {n} ELSE {})
    /\ UNCHANGED <<up, disk, registry, ttl, crashes, births>>

\* Mutation of DeleteCall: the managed flag is not looked at.
DeleteCallAnyName(t, n) ==
    /\ Call(t)
    /\ n \in Known
    /\ Dependents(n) = {}
    /\ task' = [task EXCEPT ![t] = [op |-> "delete", def |-> registry[n].def,
                                    pc |-> "unregister", todo |-> {}]]
    /\ acked' = [acked EXCEPT ![n] = {}]
    /\ raced' = raced \cup {m \in {n} : Writing(m) # {}}
    /\ undercut' = undercut \cup (IF ReaderComing(n) THEN {n} ELSE {})
    /\ UNCHANGED <<up, disk, registry, ttl, crashes, births>>

\* delete_query and the first check of unregister: 404 or 403 unless the
\* dataset is managed, 409 if another one names it.
DeleteCall(t, n) ==
    /\ Call(t)
    /\ n \in Known /\ registry[n].def.managed
    /\ Dependents(n) = {}
    /\ task' = [task EXCEPT ![t] = [op |-> "delete", def |-> registry[n].def,
                                    pc |-> "unregister", todo |-> {}]]
    /\ acked' = [acked EXCEPT ![n] = {}]
    /\ raced' = raced \cup {m \in {n} : Writing(m) # {}}
    /\ undercut' = undercut \cup (IF ReaderComing(n) THEN {n} ELSE {})
    /\ UNCHANGED <<up, disk, registry, ttl, crashes, births>>

\* Mutation of Unregister: the entry is marked, not removed.
UnregisterMark(t) ==
    LET n == task[t].def.name IN
    /\ task[t].pc = "unregister" /\ ~Locked(n)
    /\ registry' = [registry EXCEPT ![n].state = "removed"]
    /\ Goto(t, "unlink")
    /\ UNCHANGED <<up, disk, ttl, bounds, history>>

\* unregister behind the mutex: whatever the name stands for now goes.
Unregister(t) ==
    LET n == task[t].def.name IN
    /\ task[t].pc = "unregister" /\ ~Locked(n)
    /\ registry' = [registry EXCEPT ![n] = Absent]
    /\ Goto(t, "unlink")
    /\ UNCHANGED <<up, disk, ttl, bounds, history>>

\* remove_from_managed_dir, whose failure is only logged.
Unlink(t) ==
    LET n == task[t].def.name IN
    /\ task[t].pc = "unlink"
    /\ \/ dir' = [dir EXCEPT ![n] = NoFile]
       \/ UNCHANGED dir
    /\ Finish(t)
    /\ UNCHANGED <<up, main, registry, ttl, bounds, history>>

\* A request dropped while it waits (a client that leaves, a timeout).  The
\* build of an asynchronous create is a task of its own.
Drop(t) ==
    /\ task[t].op # "async"
    /\ task[t].pc \in {"register", "publish", "unregister"}
    /\ Finish(t)
    /\ UNCHANGED <<up, disk, registry, ttl, bounds, history>>

\* The scheduler finds an entry due and spawns the unregistration, which
\* looks the name up: it must be managed.
TtlFire(e) ==
    /\ ~e.due
    /\ ttl' = (ttl \ {e}) \cup
              {[e EXCEPT !.due = TRUE] :
                 n \in {n \in {e.name} \cap Known : registry[n].def.managed}}
    /\ UNCHANGED <<up, disk, registry, task, bounds, history>>

\* Mutation of TtlUnregister: the task is spawned and never does its work.
TtlUnregisterLost(e) ==
    /\ e.due /\ ~Locked(e.name)
    /\ ttl' = ttl \ {e}
    /\ undercut' = undercut \cup {e.name}
    /\ UNCHANGED <<up, disk, registry, task, bounds, acked, raced>>

\* unregister, spawned by the scheduler: no look at dependents or files.
TtlUnregister(e) ==
    /\ e.due /\ ~Locked(e.name)
    /\ ttl' = ttl \ {e}
    /\ registry' = [registry EXCEPT ![e.name] = Absent]
    /\ undercut' = undercut \cup {e.name}
    /\ UNCHANGED <<up, disk, task, bounds, acked, raced>>

Progress(t) ==
    \/ PersistOpen(t) \/ PersistWrite(t) \/ PersistError(t)
    \/ Build(t) \/ Publish(t)
    \/ Unregister(t) \/ Unlink(t)

Next ==
    \/ Boot \/ Crash
    \/ \E t \in Tasks :
         \/ \E d \in CreateDefs, op \in {"create", "async"} : CreateCall(t, d, op)
         \/ \E d \in ApiDefs : RegisterCall(t, d)
         \/ \E n \in Names : DeleteCall(t, n)
         \/ ReloadConfig(t)
         \/ Progress(t) \/ Drop(t)
    \/ \E n \in Names : PersistDataset(n)
    \/ \E e \in ttl : TtlFire(e) \/ TtlUnregister(e)

\* Spawned tasks and the scheduler's loop run on while the process is up; the
\* requests too, since each of them either goes on or is dropped.
Fairness ==
    /\ \A t \in Tasks : WF_vars(Progress(t) \/ Drop(t))
    /\ WF_vars(\E e \in ttl : TtlFire(e))
    /\ WF_vars(\E e \in ttl : TtlUnregister(e))

Spec == Init /\ [][Next]_vars /\ Fairness

-----------------------------------------------------------------------------
(***************************************************************************)
(* Properties.                                                             *)
(***************************************************************************)

\* A saved query whose creation was answered is on the disk, whole and as it
\* was accepted, until its deletion, or its creation anew, is asked for: a restart finds it
\* (create_query persists before it registers and answers).  Two requests
\* that write one name at once are excepted: the later write to the file need
\* not belong to the one that was registered last.
AckedOnDisk ==
    \A n \in Names : \A d \in acked[n] :
        n \notin raced => dir[n] = [state |-> "whole", def |-> to_managed_toml(d)]

\* A dataset that other datasets read stays in the registry (delete_query
\* answers 409).  It can go when its time to live ends, when the deletion was
\* under way before the dependent appeared, and when a dependent names it in
\* another case, since the guard compares the names as they are written.
DependencyPresent ==
    \A q \in Ready : \A x \in Range(registry[q].def.depends_on) :
        \/ x \in undercut
        \/ \E m \in Known : Lower[m] = Lower[x]
        \/ \E m \in Names : m # x /\ Lower[m] \in {x, Lower[x]}

\* Datasets of the main file are not removed at run time: unregister lets
\* managed ones pass only (store.rs, db.rs).  The check is made before the
\* mutex is taken, so a deletion that overlaps other writes of the name may
\* hit a later dataset.
ConfiguredStays ==
    [][\A n \in Names :
         (n \in Known /\ ~registry[n].def.managed /\ up' = "up" /\ n \notin raced
            /\ \A e \in ttl : ~(e.name = n /\ e.due))
           => registry'[n].state # "absent"]_vars

\* A temporary query with a time to live, created by a request that waited
\* for it, is eventually gone (the scheduler's loop, refresh.rs).
Lives(n, k) == n \in Ready /\ registry[n].inc = k

TtlExpires ==
    \A n \in Names, k \in 1 .. MaxCalls :
        (Lives(n, k) /\ \E e \in ttl : e.name = n /\ e.inc = k) ~> ~Lives(n, k)

\* What the server accepted it can load again: when no request is at work and
\* no write failed, a restart succeeds (config.rs:2509: validate_for_register
\* applies the same rules as the start-up loader).
RestartAccepted ==
    (/\ up = "up"
     /\ \A t \in Tasks : task[t].pc = "idle"
     /\ \A n \in Names : dir[n].state # "torn") => load(main, FileSeq)
=============================================================================
