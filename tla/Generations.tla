---------------------------- MODULE Generations ----------------------------
(***************************************************************************)
(* Materialised generations of one query dataset on local storage:         *)
(* build_query_dataset and its helpers in crates/datafusion/src/store.rs   *)
(* over crates/core/src/storage.rs.                                        *)
(*                                                                         *)
(* A build runs the query and either stays in memory or writes a new       *)
(* generation directory: the parquet files, then the manifest that seals   *)
(* them, then a garbage collection of the older directories, and only then *)
(* the table over the new directory that the caller publishes.  A build    *)
(* may fail or be cancelled on the way, and the process may crash and      *)
(* restart with another configuration over the same directories.           *)
(*                                                                         *)
(* Reloads are serialised by the reload mutex and are one builder here;    *)
(* the startup build takes no mutex and is another.  A directory is named  *)
(* by a ULID, whose order is that of its creation: a number here.          *)
(***************************************************************************)
EXTENDS Integers, FiniteSets

CONSTANTS
    Sqls,        \* the SQL texts the dataset may be configured with
    Residencies, \* the residencies it may be configured with
    MaxGens,     \* bound: generation directories created
    MaxSource,   \* bound: versions of the upstream data
    MaxBoots     \* bound: restarts

NoSql == "none"

ASSUME SqlsAssumption == NoSql \notin Sqls
ASSUME ResidenciesAssumption == Residencies \subseteq {"memory", "auto", "lazy"}
ASSUME BoundsAssumption ==
    MaxGens \in Nat /\ MaxSource \in Nat /\ MaxBoots \in Nat

VARIABLES
    config,      \* the dataset's configuration of this boot
    source,      \* version of the data the query reads
    disk,        \* disk[g]: the directory of generation g
    nextGen,     \* the next ULID
    live,        \* the published generation
    job,         \* what each builder is doing
    due,         \* the startup build has yet to start
    boots,       \* restarts so far
    rejected,    \* sealed generations whose build was then given up
    overlapped   \* a startup build and a reload have run side by side

vars == <<config, source, disk, nextGen, live, job, due, boots, rejected,
          overlapped>>
world == <<config, source, due, boots>>

-----------------------------------------------------------------------------
Gens == 1..MaxGens
Builders == {"startup", "reload"}
Config == [sql : Sqls, residency : Residencies, reuse_on_start : BOOLEAN]

\* data: whether the parquet files are all there, some of them, or none.
Dir == [data : {"none", "some", "all"}, manifest : BOOLEAN,
        sql : Sqls \cup {NoSql}, src : Nat]
NoDir == [data |-> "none", manifest |-> FALSE, sql |-> NoSql, src |-> 0]

Pc == {"idle", "query", "write", "seal", "gclist", "gc", "list", "publish"}
Job == [pc : Pc, gen : Nat, sql : Sqls \cup {NoSql}, src : Nat,
        reused : BOOLEAN, keep : SUBSET Gens]
NoJob == [pc |-> "idle", gen |-> 0, sql |-> NoSql, src |-> 0,
          reused |-> FALSE, keep |-> {}]
RunQuery == [NoJob EXCEPT !.pc = "query", !.sql = config.sql, !.src = source]

\* gen is 0 for a generation in memory.
Live == [on : {"none", "memory", "disk"}, gen : Nat,
         sql : Sqls \cup {NoSql}, src : Nat]
NoLive == [on |-> "none", gen |-> 0, sql |-> NoSql, src |-> 0]

\* list_complete_generations: the directories with a readable manifest.
Complete == {g \in Gens : disk[g].manifest}

\* The n newest members of S.
Newest(n, S) == {g \in S : Cardinality({h \in S : h > g}) < n}

\* The directory holds all that its manifest promises.
Whole(g) == disk[g].manifest /\ disk[g].data = "all"

Init ==
    /\ config \in Config
    /\ source = 1
    /\ disk = [g \in Gens |-> NoDir]
    /\ nextGen = 1
    /\ live = NoLive
    /\ job = [b \in Builders |-> NoJob]
    /\ due \in BOOLEAN
    /\ boots = 0
    /\ rejected = {}
    /\ overlapped = FALSE

-----------------------------------------------------------------------------
(***************************************************************************)
(* A build.                                                                *)
(***************************************************************************)

Moves(b, pc) == job[b].pc # "idle" /\ job' = [job EXCEPT ![b].pc = pc]

\* Mutation of Reusable: the manifest's SQL hash is not compared.
ReusableAnySql == config.reuse_on_start /\ Complete # {}

\* Mutation of Reusable: the option is not looked at.
ReusableAlways == \E g \in Newest(1, Complete) : disk[g].sql = config.sql

\* try_reuse_generation: the newest complete generation, if its SQL hash is
\* that of the configuration.  Reloads ask too, not only the boot.
Reusable ==
    /\ config.reuse_on_start
    /\ \E g \in Newest(1, Complete) : disk[g].sql = config.sql

\* A build begins: it opens a reusable generation or runs the query over the
\* data of this moment.
Begin(b) ==
    /\ job[b].pc = "idle"
    /\ b = "startup" => due
    /\ due' = (due /\ b # "startup")
    /\ \/ /\ Reusable
          /\ \E g \in Newest(1, Complete) :
               job' = [job EXCEPT ![b] = [NoJob EXCEPT
                          !.pc = "list", !.gen = g, !.sql = disk[g].sql,
                          !.src = disk[g].src, !.reused = TRUE]]
       \/ /\ ~Reusable
          /\ job' = [job EXCEPT ![b] = RunQuery]
    /\ overlapped' = (overlapped \/ \E c \in Builders : job[c].pc # "idle")
    /\ UNCHANGED <<config, source, disk, nextGen, live, boots, rejected>>

\* The result stays in memory: residency memory, or auto under the threshold.
Collect(b) ==
    /\ job[b].pc = "query"
    /\ config.residency # "lazy"
    /\ Moves(b, "publish")
    /\ UNCHANGED <<world, disk, nextGen, live, rejected, overlapped>>

\* Mutation of Spill: the directory is sealed before its files are written.
SpillSealed(b) ==
    /\ job[b].pc = "query"
    /\ config.residency # "memory"
    /\ nextGen <= MaxGens
    /\ nextGen' = nextGen + 1
    /\ disk' = [disk EXCEPT ![nextGen] =
          [data |-> "some", manifest |-> TRUE, sql |-> job[b].sql,
           src |-> job[b].src]]
    /\ job' = [job EXCEPT ![b].pc = "write", ![b].gen = nextGen]
    /\ UNCHANGED <<world, live, rejected, overlapped>>

\* Mutation of Spill: the ULID is not fresh.
SpillSameId(b) ==
    /\ job[b].pc = "query"
    /\ config.residency # "memory"
    /\ nextGen <= MaxGens
    /\ disk' = [disk EXCEPT ![nextGen] =
          [data |-> "some", manifest |-> FALSE, sql |-> job[b].sql,
           src |-> job[b].src]]
    /\ job' = [job EXCEPT ![b].pc = "write", ![b].gen = nextGen]
    /\ UNCHANGED <<world, nextGen, live, rejected, overlapped>>

\* The result goes to storage: a new directory and its first parquet file.
Spill(b) ==
    /\ job[b].pc = "query"
    /\ config.residency # "memory"
    /\ nextGen <= MaxGens
    /\ nextGen' = nextGen + 1
    /\ disk' = [disk EXCEPT ![nextGen] =
          [data |-> "some", manifest |-> FALSE, sql |-> job[b].sql,
           src |-> job[b].src]]
    /\ job' = [job EXCEPT ![b].pc = "write", ![b].gen = nextGen]
    /\ UNCHANGED <<world, live, rejected, overlapped>>

\* The last parquet file is closed.  When the other builder's collection has
\* removed the directory meanwhile, the file may be all there is of it.
Close(b) ==
    /\ job[b].pc = "write"
    /\ \E data \in {"some", "all"} :
         /\ disk[job[b].gen].data = "some" => data = "all"
         /\ disk' = [disk EXCEPT ![job[b].gen].data = data,
                                 ![job[b].gen].src = job[b].src]
    /\ Moves(b, "seal")
    /\ UNCHANGED <<world, nextGen, live, rejected, overlapped>>

\* write_manifest_to_storage: the seal, in a directory made anew if need be.
Seal(b) ==
    /\ job[b].pc = "seal"
    /\ disk' = [disk EXCEPT ![job[b].gen] =
          [data |-> @.data, manifest |-> TRUE, sql |-> job[b].sql,
           src |-> job[b].src]]
    /\ Moves(b, "gclist")
    /\ UNCHANGED <<world, nextGen, live, rejected, overlapped>>

\* Mutation of Keep: only the newest complete generation is kept.
KeepOne(g) == Newest(1, Complete) \cup {g}

\* What gc_storage_generations keeps: the two newest complete generations and
\* the one just written.
Keep(g) == Newest(2, Complete) \cup {g}

GcList(b) ==
    /\ job[b].pc = "gclist"
    /\ job' = [job EXCEPT ![b].pc = "gc", ![b].keep = Keep(job[b].gen)]
    /\ UNCHANGED <<world, disk, nextGen, live, rejected, overlapped>>

\* The directories gc_generations removes: incomplete ones whatever keep says.
Victims(keep) ==
    {g \in Gens : disk[g] # NoDir /\ (g \notin keep \/ ~disk[g].manifest)}

\* remove_dir_all of each of V, an error being logged and passed over: a
\* directory is gone, has lost some files, or has not been reached.
Remove(V) ==
    \E fate \in [V -> {"gone", "partly", "unreached"}] :
        disk' = [g \in Gens |->
            CASE g \in V /\ fate[g] = "gone" -> NoDir
              [] g \in V /\ fate[g] = "partly" -> [disk[g] EXCEPT !.data = "some"]
              [] OTHER -> disk[g]]

GcDelete(b) ==
    /\ job[b].pc = "gc"
    /\ Remove(Victims(job[b].keep))
    /\ job' = [job EXCEPT ![b].pc = "list", ![b].keep = {}]
    /\ UNCHANGED <<world, nextGen, live, rejected, overlapped>>

\* build_listing_state_from_storage opens the directory; a schema it cannot
\* infer is replaced by the query's.
List(b) ==
    /\ job[b].pc = "list"
    /\ Moves(b, "publish")
    /\ UNCHANGED <<world, disk, nextGen, live, rejected, overlapped>>

\* The caller publishes what the build returned.
Publish(b) ==
    /\ job[b].pc = "publish"
    /\ live' = [on |-> IF job[b].gen = 0 THEN "memory" ELSE "disk",
                gen |-> job[b].gen, sql |-> job[b].sql, src |-> job[b].src]
    /\ job' = [job EXCEPT ![b] = NoJob]
    /\ UNCHANGED <<world, disk, nextGen, rejected, overlapped>>

\* The query or a write fails, or the build is cancelled while it awaits one:
\* the directory stays as it is.
Fail(b) ==
    /\ job[b].pc \in {"query", "write", "seal"}
    /\ job' = [job EXCEPT ![b] = NoJob]
    /\ UNCHANGED <<world, disk, nextGen, live, rejected, overlapped>>

\* Opening the directory fails (a column filter names a column that the new
\* schema lacks), or the build is cancelled while it awaits the schema.
Reject(b) ==
    /\ job[b].pc = "list"
    /\ job' = [job EXCEPT ![b] = NoJob]
    /\ rejected' = IF job[b].reused THEN rejected ELSE rejected \cup {job[b].gen}
    /\ UNCHANGED <<world, disk, nextGen, live, overlapped>>

\* A generation that should be reused fails to open: the query is run.
ReuseFails(b) ==
    /\ job[b].pc = "list" /\ job[b].reused
    /\ job' = [job EXCEPT ![b] = RunQuery]
    /\ UNCHANGED <<world, disk, nextGen, live, rejected, overlapped>>

-----------------------------------------------------------------------------
\* The data the query reads changes.
SourceChanges ==
    /\ source < MaxSource
    /\ source' = source + 1
    /\ UNCHANGED <<config, disk, nextGen, live, job, due, boots, rejected,
                   overlapped>>

\* The process ends at any moment and starts again: new_nonblocking keeps
\* nothing but the directories, and collects none of them.
Restart ==
    /\ boots < MaxBoots
    /\ boots' = boots + 1
    /\ config' \in Config
    /\ due' \in BOOLEAN
    /\ live' = NoLive
    /\ job' = [b \in Builders |-> NoJob]
    /\ \/ UNCHANGED disk
       \/ \E b \in Builders :
            job[b].pc = "gc" /\ Remove(Victims(job[b].keep))
    /\ UNCHANGED <<source, nextGen, rejected, overlapped>>

Build(b) ==
    \/ Begin(b)
    \/ Collect(b)
    \/ Spill(b)
    \/ Close(b)
    \/ Seal(b)
    \/ GcList(b)
    \/ GcDelete(b)
    \/ List(b)
    \/ Publish(b)
    \/ Fail(b)
    \/ Reject(b)
    \/ ReuseFails(b)

Next == (\E b \in Builders : Build(b)) \/ SourceChanges \/ Restart

Spec == Init /\ [][Next]_vars

-----------------------------------------------------------------------------
(***************************************************************************)
(* Properties.                                                             *)
(***************************************************************************)

\* Type invariant; a directory is not touched before its ULID is drawn.
TypeOK ==
    /\ config \in Config
    /\ source \in Nat
    /\ disk \in [Gens -> Dir]
    /\ nextGen \in Nat \ {0}
    /\ live \in Live
    /\ job \in [Builders -> Job]
    /\ due \in BOOLEAN
    /\ boots \in Nat
    /\ rejected \in SUBSET Gens
    /\ overlapped \in BOOLEAN
    /\ \A g \in Gens : g >= nextGen => disk[g] = NoDir

\* The newest generation with a manifest, the one that reuse_on_start opens,
\* has all its files, whatever crashed or failed before: the manifest comes
\* last (storage.rs:90) and a collection never half-removes the newest.
NewestIsWhole ==
    \A g \in Newest(1, Complete) : Whole(g) \/ overlapped

\* The table that is being served has its files, across failed builds, crashes
\* and collections, as long as no generation sealed after it was given up
\* (store.rs:2659-2679 keeps the two newest, whether published or not).
LiveOnDisk ==
    (/\ live.on = "disk"
     /\ \A r \in rejected : r < live.gen
     /\ ~overlapped)
    => Whole(live.gen)

\* What is served was produced by the SQL of the current configuration, also
\* when a directory of an earlier boot is reused (store.rs:2800-2809).
LiveMatchesConfig == live.on # "none" => live.sql = config.sql

\* Without reuse_on_start a publish never replaces newer data by older.
NeverOlder ==
    [][(live.on # "none" /\ live'.on # "none"
          /\ ~config.reuse_on_start /\ ~overlapped) =>
        live'.src >= live.src]_vars

\* materialized.md:220-221: a failed build leaves the previously published
\* generation live and queryable, so its files stay.
LastGoodQueryable ==
    live.on = "disk" /\ ~overlapped => Whole(live.gen)

=============================================================================
