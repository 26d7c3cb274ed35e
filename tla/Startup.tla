------------------------------ MODULE Startup -------------------------------
(***************************************************************************)
(* Building the configured datasets when the server starts: DataFusion in  *)
(* levels (Store::startup_levels, spawn_startup_builds), DuckDB one by one *)
(* (load_registry), and the cycle the configuration's error message names  *)
(* (find_cycle_path).                                                      *)
(*                                                                         *)
(* src says what a dataset's own source does: "ok", "nofiles", "error", or *)
(* "norows" when it is found without rows by a build that reads it (a lazy *)
(* listing of files does not, and is "ok").  A query also needs its        *)
(* tables; the names in its SQL are in lower case.                         *)
(***************************************************************************)
EXTENDS Config

Dep(ds, i) == IF is_query(ds[i]) THEN ds[i].depends_on ELSE <<>>

-----------------------------------------------------------------------------
(***************************************************************************)
(* DataFusion.                                                             *)
(***************************************************************************)
EagerIdx(ds) == {i \in DOMAIN ds : ds[i].on_start = "eager"}

\* Eager datasets that a dataset waits for: edges are exact names.
WaitsFor(ds, i) == {j \in EagerIdx(ds) : ds[j].name \in Range(Dep(ds, i))}

\* Mutation of startup_levels: a dataset waits for one of its dependencies.
LevelsByFirst(ds) ==
    LET done[k \in 0 .. Len(ds)] ==
          IF k = 0 THEN {}
          ELSE done[k - 1] \cup {i \in EagerIdx(ds) :
                 WaitsFor(ds, i) = {} \/ WaitsFor(ds, i) \cap done[k - 1] # {}}
    IN [k \in 1 .. Len(ds) |-> done[k] \ done[k - 1]]

\* startup_levels: Kahn's algorithm, a level at a time.  The last levels may
\* be empty.
LevelsDone(ds) ==
    LET done[k \in 0 .. Len(ds)] ==
          IF k = 0 THEN {}
          ELSE done[k - 1] \cup {i \in EagerIdx(ds) : WaitsFor(ds, i) \subseteq done[k - 1]}
    IN done

startup_levels(ds) ==
    [k \in 1 .. Len(ds) |-> LevelsDone(ds)[k] \ LevelsDone(ds)[k - 1]]

LoadedNames(ds, status) == {Lower[ds[i].name] : i \in {j \in DOMAIN ds : status[j] = "Published"}}

\* build_one_startup: the status it ends with.
build_one_startup(ds, src, status, i) ==
    IF src[i] = "ok" /\ (is_query(ds[i]) => ds[i].sql \subseteq LoadedNames(ds, status))
    THEN "Published" ELSE "Failed"

\* One level: datasets with a failed dependency are marked, the others build
\* side by side; those in early end before the rest begin.
RunLevel(ds, src, early, status, level) ==
    LET failed == {ds[i].name : i \in {j \in DOMAIN ds : status[j] = "Failed"}}
        marked == {i \in level : Range(ds[i].depends_on) \cap failed # {}}
        Batch(st, batch) == [i \in DOMAIN ds |-> IF i \in batch
                               THEN build_one_startup(ds, src, st, i) ELSE st[i]]
        pre == [i \in DOMAIN ds |-> IF i \in marked THEN "Failed" ELSE status[i]]
        todo == level \ marked
    IN Batch(Batch(pre, todo \cap early), todo \ early)

\* spawn_startup_builds.
spawn_startup_builds(ds, src, early) ==
    LET levels == startup_levels(ds)
        status[k \in 0 .. Len(levels)] ==
          IF k = 0 THEN [i \in DOMAIN ds |-> "Pending"]
          ELSE RunLevel(ds, src, early, status[k - 1], levels[k])
    IN status[Len(levels)]

-----------------------------------------------------------------------------
(***************************************************************************)
(* DuckDB: on_start is not looked at, and a file dataset that fails for    *)
(* another reason than having no files ends the start.                     *)
(***************************************************************************)

\* register_dataset does not count: a source without rows is a table without
\* rows.
SeenByDuck(ds, src) ==
    [i \in DOMAIN ds |-> IF src[i] = "norows" THEN "ok" ELSE src[i]]

LoadNext(ds, src, acc, i) ==
    LET failed == {ds[k].name : k \in {j \in DOMAIN ds : acc.status[j] = "Failed"}}
        st == IF Range(ds[i].depends_on) \cap failed # {} THEN "Failed"
              ELSE build_one_startup(ds, src, acc.status, i)
    IN IF acc.aborted THEN acc
       ELSE [aborted |-> src[i] = "error" /\ ~is_query(ds[i]),
             status |-> [acc.status EXCEPT ![i] = st]]

load_registry(ds, src) ==
    LET order == topological_dataset_order(ds)
        loaded[k \in 0 .. Len(order)] ==
          IF k = 0 THEN [aborted |-> FALSE, status |-> [i \in DOMAIN ds |-> "Pending"]]
          ELSE LoadNext(ds, SeenByDuck(ds, src), loaded[k - 1], order[k])
    IN loaded[Len(order)]

-----------------------------------------------------------------------------
(***************************************************************************)
(* find_cycle_path: depth first from every query dataset; a dataset that   *)
(* is on the path again closes a cycle.                                    *)
(***************************************************************************)
NotFound(visited) == [visited |-> visited, cycle |-> <<>>]

\* A call of dfs_find_cycle: the dataset, what was seen, and the path to it.
Calls(ds) == [node : DOMAIN ds, visited : SUBSET DOMAIN ds, path : Seq(DOMAIN ds)]
Call(node, visited, path) == [node |-> node, visited |-> visited, path |-> path]

\* One dependency of the last dataset of path; visit visits one not seen before.
LookAt(ds, visit, path, acc, dep) ==
    LET names == NamesSeq(ds)
        next == NameToIdx(names, dep)
    IN IF acc.cycle # <<>> \/ dep \notin Range(names) THEN acc
       ELSE IF ~is_query(ds[next]) THEN acc
       ELSE IF next \notin acc.visited THEN visit[Call(next, acc.visited, path)]
       ELSE IF next \in Range(path)
       THEN [visited |-> acc.visited,
             cycle |-> SubSeq(path, Min({p \in DOMAIN path : path[p] = next}), Len(path))]
       ELSE acc

LookAtAll(ds, visit, call) ==
    LET deps == ds[call.node].depends_on
        path == Append(call.path, call.node)
        seen[p \in 0 .. Len(deps)] ==
          IF p = 0 THEN NotFound(call.visited \cup {call.node})
          ELSE LookAt(ds, visit, path, seen[p - 1], deps[p])
    IN seen[Len(deps)]

\* A path is never longer than there are datasets, so neither is the recursion
\* deeper.
dfs_find_cycle(ds) ==
    LET visit[depth \in 0 .. Len(ds)] ==
          IF depth = 0 THEN [call \in Calls(ds) |-> NotFound(call.visited)]
          ELSE [call \in Calls(ds) |-> LookAtAll(ds, visit[depth - 1], call)]
    IN visit[Len(ds)]

FindFrom(ds, acc, start) ==
    IF acc.cycle # <<>> \/ start \in acc.visited \/ ~is_query(ds[start]) THEN acc
    ELSE dfs_find_cycle(ds)[Call(start, acc.visited, <<>>)]

find_cycle_path(ds) ==
    LET tried[k \in 0 .. Len(ds)] ==
          IF k = 0 THEN NotFound({}) ELSE FindFrom(ds, tried[k - 1], k)
        found == tried[Len(ds)].cycle
    IN IF found = <<>> THEN <<>> ELSE Append(found, found[1])

-----------------------------------------------------------------------------
(***************************************************************************)
(* What a start promises.                                                  *)
(***************************************************************************)

\* Exact spelling of the dependencies, all of them eager.
Plain(ds) ==
    /\ \A d \in Range(ds) : is_query(d) => Range(d.depends_on) \subseteq NamesOf(ds)
    /\ \A d \in Range(ds) : d.on_start = "eager"

\* The dataset and all it depends on, whatever the spelling: the least set that
\* has it and what its members depend on.
NeedsNext(ds, i) ==
    {j \in DOMAIN ds : \E n \in Range(Dep(ds, i)) : Lower[n] = Lower[ds[j].name]}
Needs(ds, i) ==
    {j \in DOMAIN ds : \A S \in SUBSET DOMAIN ds :
        (i \in S /\ \A k \in S : NeedsNext(ds, k) \subseteq S) => j \in S}

\* A dataset comes up exactly when nothing it needs fails, in whatever order
\* the builds of a level end, and in both backends; DuckDB takes a source
\* without rows for good, and gives up on a file dataset that cannot be read.
\* Without a valid order the message names a cycle that is one.
StartsRight(ds, src, early) ==
    LET df == spawn_startup_builds(ds, src, early)
        duck == load_registry(ds, src)
        Comes(i, good) == IF \A j \in Needs(ds, i) : src[j] \in good
                          THEN "Published" ELSE "Failed"
        cycle == find_cycle_path(ds)
        valid == topological_dataset_order(ds) # <<>>
    IN /\ valid /\ Plain(ds) =>
            /\ \A i \in DOMAIN ds : df[i] = Comes(i, {"ok"})
            /\ duck.aborted <=> \E i \in DOMAIN ds : src[i] = "error" /\ ~is_query(ds[i])
            /\ ~duck.aborted =>
                 \A i \in DOMAIN ds : duck.status[i] = Comes(i, {"ok", "norows"})
       /\ ~valid => /\ Len(cycle) >= 2 /\ cycle[1] = cycle[Len(cycle)]
                    /\ \A p \in 1 .. Len(cycle) - 1 :
                         ds[cycle[p + 1]].name \in Range(ds[cycle[p]].depends_on)
=============================================================================
