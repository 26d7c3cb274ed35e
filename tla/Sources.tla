------------------------------ MODULE Sources -------------------------------
(***************************************************************************)
(* Where the rows of a dataset come from: files, with partitions in their  *)
(* paths, Delta tables and S3 buckets (crates/datafusion/src/store.rs,     *)
(* crates/duckdb/src/db.rs, crates/core/src/config.rs), and where the rows *)
(* of a query dataset are kept.                                            *)
(*                                                                         *)
(* A path is a sequence of directories [eq, key, val, wild]: eq when it    *)
(* has the form key=val, val "a=b" when it holds another '=', wild when it *)
(* holds a metacharacter.  A source is [shape, parts, files, columns,      *)
(* wanted]: parts the directories of its location, files the directories   *)
(* of each parquet file there is, in the order a directory lists them,     *)
(* columns what each file has, wanted the configured columns.              *)
(***************************************************************************)
EXTENDS QueryModel

CONSTANT Prefix  \* env_prefix of the dataset names in use, a function

\* The first of several options that is there.
FirstOf(options) ==
    FoldLeft(LAMBDA acc, o : IF acc = {} THEN o ELSE acc, {}, options)

-----------------------------------------------------------------------------
(***************************************************************************)
(* Local parquet.                                                          *)
(***************************************************************************)
Matches(pattern, dirs) ==
    /\ Len(pattern) = Len(dirs)
    /\ \A i \in DOMAIN dirs :
         IF pattern[i].wild
         THEN pattern[i].eq => (dirs[i].eq /\ dirs[i].key = pattern[i].key)
         ELSE pattern[i] = dirs[i]

\* resolve_local_parquet_files: a glob, or what stands directly in a directory.
resolve_local_parquet_files(src) ==
    Selected(src.files, {f \in Range(src.files) : IF src.shape = "glob"
                                                  THEN Matches(src.parts, f)
                                                  ELSE f = src.parts})

\* A directory key=..., and one key=value.
Keyed(s) == s.eq /\ s.key # ""
Valued(s) == Keyed(s) /\ s.val # ""

KeysOf(dirs) == [i \in DOMAIN dirs |-> dirs[i].key]

\* hive_pairs: the keys of a whole path.
hive_pairs(dirs) ==
    KeysOf(Selected(dirs, {s \in Range(dirs) : Valued(s) /\ s.val # "a=b"}))

\* append_partition_cols: a column of the file wins over a key.
append_partition_cols(columns, keys) ==
    LET fields[k \in 0 .. Len(keys)] ==
          IF k = 0 THEN columns
          ELSE IF keys[k] \in Range(fields[k - 1]) THEN fields[k - 1]
          ELSE Append(fields[k - 1], keys[k])
    IN fields[Len(keys)]

\* read_local_parquet and materialise_batches: every file, projected, with
\* the partition columns of its path; all batches must have one schema.
read_local_parquet(src) ==
    LET files == resolve_local_parquet_files(src)
        lower == {Lower[c] : c \in src.wanted}
        kept == IF src.wanted = {} THEN src.columns
                ELSE Selected(src.columns, {c \in Range(src.columns) : Lower[c] \in lower})
        Schema(f) == append_partition_cols(kept, hive_pairs(f))
        err == IF files = <<>> THEN "EmptyDataset"
               ELSE IF kept = <<>> \/ \E f \in Range(files) : Schema(f) # Schema(files[1])
               THEN "Internal" ELSE "ok"
    IN [err |-> err, columns |-> IF err = "ok" THEN Schema(files[1]) ELSE <<>>]

\* split_glob_base_keys, and the same text in lazy_local_listing.
split_glob_base_keys(parts) ==
    LET wild == {i \in DOMAIN parts : parts[i].wild}
        first_wild == IF wild = {} THEN Len(parts) + 1 ELSE Min(wild)
        keyed == Selected(SubSeq(parts, first_wild, Len(parts)),
                          {s \in Range(parts) : Keyed(s)})
    IN [base |-> SubSeq(parts, 1, first_wild - 1), keys |-> KeysOf(keyed)]

\* discover_hive_keys, discover_s3_hive_keys: down the first key=value
\* directory of each level.
discover_hive_keys(files, base) ==
    LET Depth == Max({Len(f) : f \in Range(files)} \cup {0})
        Below(cur) == Selected(files, {f \in Range(files) :
                        /\ Len(f) > Len(cur) /\ SubSeq(f, 1, Len(cur)) = cur
                        /\ Valued(f[Len(cur) + 1])})
        path[k \in 0 .. Depth] ==
          IF k = 0 THEN base
          ELSE LET cur == path[k - 1] IN
               IF Below(cur) = <<>> THEN cur ELSE Append(cur, Below(cur)[1][Len(cur) + 1])
    IN KeysOf(SubSeq(path[Depth], Len(base) + 1, Len(path[Depth])))

lazy_local_listing(src) ==
    CASE src.shape = "glob" -> split_glob_base_keys(src.parts)
      [] src.shape = "dir" ->
           [base |-> src.parts, keys |-> discover_hive_keys(src.files, src.parts)]
      [] OTHER -> [base |-> src.parts, keys |-> <<>>]

\* s3_listing: the same with the partitioning mode; a location without a glob
\* is a prefix.
s3_listing(src, partitioning) ==
    LET l == IF src.shape = "glob" THEN split_glob_base_keys(src.parts)
             ELSE [base |-> src.parts,
                   keys |-> discover_hive_keys(src.files, src.parts)]
    IN IF partitioning = "none" THEN [l EXCEPT !.keys = <<>>] ELSE l

\* ListingTable: the files under a base; below it only key=value directories.
ListedFiles(files, base) ==
    SelectSeq(files, LAMBDA f : /\ Len(f) >= Len(base)
                                /\ SubSeq(f, 1, Len(base)) = base
                                /\ \A i \in Len(base) + 1 .. Len(f) : f[i].eq)

Listing(src, l) ==
    IF ListedFiles(src.files, l.base) = <<>>
    THEN [err |-> "EmptyDataset", columns |-> <<>>]
    ELSE [err |-> "ok", columns |-> append_partition_cols(src.columns, l.keys)]

build_lazy_local_parquet(src) == Listing(src, lazy_local_listing(src))

build_lazy_s3_parquet(src, partitioning) == Listing(src, s3_listing(src, partitioning))

\* The layouts where a dataset may become lazy and keep its columns: no
\* columns are configured, no partition stands above the listing's base, all
\* files below it are of the partitions found, and, for a directory, none.
HiveShaped(src) ==
    LET l == lazy_local_listing(src) IN
    /\ src.wanted = {}
    /\ hive_pairs(l.base) = <<>>
    /\ \A f \in Range(resolve_local_parquet_files(src)) :
         /\ f \in Range(ListedFiles(src.files, l.base))
         /\ hive_pairs(f) = l.keys

LazySame(src) ==
    LET eager == read_local_parquet(src)
        lazy == build_lazy_local_parquet(src)
    IN /\ IsInjective(eager.columns) /\ IsInjective(lazy.columns)
       /\ (HiveShaped(src) /\ eager.err = "ok") => lazy = eager

-----------------------------------------------------------------------------
(***************************************************************************)
(* Delta: a table is not there, broken, without files, without rows, with  *)
(* files that are gone (all of them, or not the first), or sound.          *)
(***************************************************************************)
open_delta_table(t) ==
    CASE t = "absent" -> "EmptyDataset" [] t = "broken" -> "Internal" [] OTHER -> "ok"

\* read_delta and the checks of build_dataset: a full scan.
read_delta(t) ==
    IF open_delta_table(t) # "ok" THEN open_delta_table(t)
    ELSE IF t = "sound" THEN "ok" ELSE "EmptyDataset"

\* build_lazy_delta: the file list, then a probe of one row.
build_lazy_delta(t) ==
    IF open_delta_table(t) # "ok" THEN open_delta_table(t)
    ELSE IF t \in {"nofiles", "norows", "gone"} THEN "EmptyDataset" ELSE "ok"

DeltaSame(t) == t # "partly_gone" => build_lazy_delta(t) = read_delta(t)

-----------------------------------------------------------------------------
(***************************************************************************)
(* Forcing a dataset lazy.  bytes is the size found, an option: a query    *)
(* has none, and listing a bucket may fail.                                *)
(***************************************************************************)
should_force_lazy(d, threshold) ==
    ~d.lazy /\ threshold # 0 /\ \E b \in d.bytes : b > threshold

\* force_lazy_bytes: sizes on S3 are not looked up.
force_lazy_bytes(d, threshold) ==
    ~d.lazy /\ threshold # 0 /\ ~d.s3 /\ \E b \in d.bytes : b > threshold

ForceSame(d, threshold) ==
    ~d.s3 => (should_force_lazy(d, threshold) <=> force_lazy_bytes(d, threshold))

-----------------------------------------------------------------------------
(***************************************************************************)
(* Building a query dataset.  storage is an option [threshold, memory_mb,  *)
(* reservation_mb]; sizes are in KiB.  The stream is a sequence of batches *)
(* [id, rows, bytes].                                                      *)
(***************************************************************************)
MiB == 1024
SortSpillMin == 12 * MiB
SpillFloor == 512
DefaultReservation == 10 * MiB

materialization_pool_bytes(storage) ==
    IF storage = {} THEN 512 * MiB
    ELSE LET s == CHOOSE x \in storage : TRUE
             mb == IF s.memory_mb = {} THEN s.threshold
                   ELSE MiB * CHOOSE m \in s.memory_mb : TRUE
         IN Max({mb, SortSpillMin})

materialization_sort_spill_bytes(storage, pool) ==
    LET set == UNION {s.reservation_mb : s \in storage} IN
    IF set # {} THEN Max({MiB * CHOOSE m \in set : TRUE, SpillFloor})
    ELSE Clamp(pool \div 4, SpillFloor, DefaultReservation)

\* A sort can reserve its merge memory.  validate compares the two settings
\* only when both are given.
ReservationFits(storage) ==
    LET pool == materialization_pool_bytes(storage) IN
    (\A s \in storage :
       s.reservation_mb # {} => \E r \in s.reservation_mb, m \in s.memory_mb : r < m)
      => materialization_sort_spill_bytes(storage, pool) < pool

\* effective_residency.
effective_residency(residency, storage) ==
    IF residency = "auto" /\ storage = {} THEN "memory" ELSE residency

NotEmpty(stream) == Selected(stream, {b \in Range(stream) : b.rows > 0})

\* The sums of the first k numbers, and so the sizes of the first k batches.
Totals(amounts) ==
    LET total[k \in 0 .. Len(amounts)] ==
          IF k = 0 THEN 0 ELSE total[k - 1] + amounts[k]
    IN total
Sizes(batches) == Totals([i \in DOMAIN batches |-> batches[i].bytes])
Bytes(batches) == Sizes(batches)[Len(batches)]

Failed(err) == [err |-> err, held |-> <<>>, files |-> <<>>, demoted |-> FALSE,
                exceeded |-> FALSE]
InMemory(held, exceeded) ==
    [err |-> "ok", held |-> held, files |-> <<>>, demoted |-> FALSE,
     exceeded |-> exceeded]
OnDisk(files, demoted) ==
    [err |-> "ok", held |-> <<>>, files |-> files, demoted |-> demoted,
     exceeded |-> FALSE]

\* Mutation of Demoted: the first batch is not written.
DemotedLossy(buffer, rest) ==
    (IF Len(buffer) > 1 THEN <<Tail(buffer)>> ELSE <<>>) \o <<rest>>

\* write_buffer_to_storage and write_batches_to_storage: the first batch goes
\* to the second file, with what the stream still has.
Demoted(buffer, rest) ==
    (IF Len(buffer) > 1 THEN <<Tail(buffer)>> ELSE <<>>)
    \o <<<<Head(buffer)>> \o rest>>

\* build_query_auto: buffer until the threshold is crossed.
build_query_auto(stream, threshold) ==
    LET full == NotEmpty(stream)
        crossing == {k \in DOMAIN full : Sizes(full)[k] > threshold}
    IN IF full = <<>> THEN Failed("EmptyDataset")
       ELSE IF crossing = {} THEN InMemory(full, FALSE)
       ELSE OnDisk(Demoted(SubSeq(full, 1, Min(crossing)),
                           SubSeq(full, Min(crossing) + 1, Len(full))), TRUE)

build_query_dataset(residency, storage, stream) ==
    LET r == effective_residency(residency, storage)
        full == NotEmpty(stream)
    IN IF r = "lazy" /\ storage = {} THEN Failed("Internal")
       ELSE IF r = "auto"
       THEN build_query_auto(stream, (CHOOSE s \in storage : TRUE).threshold)
       ELSE IF full = <<>> THEN Failed("EmptyDataset")
       ELSE IF r = "memory"
       THEN InMemory(full, \E s \in storage : Bytes(full) > s.threshold)
       ELSE OnDisk(<<full>>, FALSE)

\* estimated_table_bytes: the estimated_size of duckdb_tables() is the number
\* of rows of the table, and the code takes it for bytes.
estimated_table_bytes(batches) ==
    Totals([i \in DOMAIN batches |-> batches[i].rows])[Len(batches)]

\* check_memory_override asks for the quoted name, which is in no row.
QuotedNameBytes == 0

\* register_query_with_storage of DuckDB, which keeps empty results.
BytesPerKiB == 1024

duck_build_query(residency, storage, stream) ==
    LET Over(n) == \E s \in storage : n > BytesPerKiB * s.threshold
        full == NotEmpty(stream)
    IN IF residency = "lazy" /\ storage = {} THEN Failed("Internal")
       ELSE IF residency = "memory" THEN InMemory(full, Over(QuotedNameBytes))
       ELSE IF residency = "auto" /\ ~Over(estimated_table_bytes(full))
       THEN InMemory(full, FALSE)
       ELSE OnDisk(<<full>>, TRUE)

\* No batch has more rows than bytes.
RowsTakeBytes(stream) == \A b \in Range(stream) : b.rows <= BytesPerKiB * b.bytes

\* A build keeps every row, in both backends the same ones, and DataFusion
\* holds more than the threshold in memory only where the configuration says
\* so.  DuckDB counts rows against the same threshold: where residency is auto
\* it may hold what DataFusion demotes, but it demotes nothing that DataFusion
\* holds, as long as rows take at least a byte.  A threshold of 0 is one like
\* the others, although materialized.md:301 lets it turn demotion off.
BuildKeepsRows(residency, storage, stream) ==
    LET df == build_query_dataset(residency, storage, stream)
        duck == duck_build_query(residency, storage, stream)
        Ids(batches) == [i \in DOMAIN batches |-> batches[i].id]
        rows(r) == Ids(r.held) \o Ids(FlattenSeq(r.files))
    IN /\ df.err = "ok" => /\ IsInjective(rows(df))
                           /\ Range(rows(df)) = Range(Ids(NotEmpty(stream)))
                           /\ Range(rows(df)) = Range(rows(duck))
                           /\ residency = "auto" \/ (df.held = <<>>) = (duck.held = <<>>)
                           /\ RowsTakeBytes(NotEmpty(stream)) =>
                                (duck.held = <<>> => df.held = <<>>)
       /\ \A s \in storage :
            Bytes(df.held) > s.threshold => residency = "memory" /\ df.exceeded

-----------------------------------------------------------------------------
(***************************************************************************)
(* S3.  A dataset here is [name, bucket, key, secret]: the two credentials *)
(* as written in its file; env gives those set for a prefix, and for all   *)
(* under "".                                                               *)
(***************************************************************************)

\* resolved_creds: each of the two has its own chain.
resolved_creds(d, env) ==
    [key |-> FirstOf(<<env[Prefix[d.name]].key, d.key, env[""].key>>),
     secret |-> FirstOf(<<env[Prefix[d.name]].secret, d.secret, env[""].secret>>)]

\* build_s3_secret_sql: [err, name, scope, creds].
build_s3_secret_sql(d, env) ==
    LET c == resolved_creds(d, env) IN
    [err |-> IF (c.key = {}) = (c.secret = {}) THEN "ok" ELSE "Internal",
     name |-> Prefix[d.name], scope |-> d.bucket, creds |-> c]

\* load_registry: CREATE OR REPLACE SECRET for each dataset in turn, so that
\* the last of a name stays.
duck_secrets(ds, env) ==
    {build_s3_secret_sql(ds[i], env) : i \in
        {j \in DOMAIN ds : \A k \in DOMAIN ds :
            k > j => Prefix[ds[k].name] # Prefix[ds[j].name]}}

\* The secrets whose scope holds a dataset; DuckDB takes one of them.
SecretsFor(d, ds, env) == {s.creds : s \in {x \in duck_secrets(ds, env) : x.scope = d.bucket}}

\* register_s3_object_store, build_s3: one store for each bucket, the last
\* dataset registered there.
df_store(bucket, ds, env) ==
    LET users == {i \in DOMAIN ds : ds[i].bucket = bucket}
    IN resolved_creds(ds[Max(users)], env)

\* Datasets read with their own credentials, as long as no two share a bucket
\* and, in DuckDB, no two names differ by punctuation or case alone.
OwnCredentials(ds, env) ==
    IsInjective([i \in DOMAIN ds |-> ds[i].bucket]) =>
        \A d \in Range(ds) :
            /\ df_store(d.bucket, ds, env) = resolved_creds(d, env)
            /\ IsInjective([i \in DOMAIN ds |-> Prefix[ds[i].name]])
                 => SecretsFor(d, ds, env) = {resolved_creds(d, env)}

\* effective_endpoint, on the labels of the host.
effective_endpoint(s3, bucket) ==
    LET fold == \/ s3.bucket_in_host = "true"
                \/ s3.bucket_in_host = "auto" /\ s3.style = "virtual"
        in_host == s3.host # <<>> /\ Head(s3.host) = bucket
    IN IF fold /\ s3.host # <<>> /\ ~in_host THEN <<bucket>> \o s3.host ELSE s3.host

EndpointStable(s3, bucket) ==
    LET once == effective_endpoint(s3, bucket)
    IN effective_endpoint([s3 EXCEPT !.host = once], bucket) = once
=============================================================================
