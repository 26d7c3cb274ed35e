------------------------------- MODULE Config -------------------------------
(***************************************************************************)
(* The configuration, crates/core/src/config.rs: what a file must satisfy  *)
(* for the server to start (AppConfig::load, validate), what a dataset     *)
(* must satisfy to be registered at run time (validate_for_register), what *)
(* survives when a dataset is written back to disk, and the build order.   *)
(*                                                                         *)
(* Text is abstracted to what the checks tell apart.  A name is a string   *)
(* with its lower-case form; SQL is the set of tables it names.  An option *)
(* is a set with at most one member.                                       *)
(***************************************************************************)
EXTENDS Naturals, Sequences, FiniteSets, SequencesExt, FiniteSetsExt

CONSTANTS
    Lower,          \* to_lowercase on the names in use, a function
    UrlSafe         \* the names that are alphanumeric (plus _ - .)

ReservedNames == {"reload-all"}
ReservedMounts == {"/", "/api", "/api/v1", "/health", "/healthz", "/readyz",
                   "/version", "/metrics"}

-----------------------------------------------------------------------------
(***************************************************************************)
(* A dataset.  place is what its location turns out to be: a bucket, an    *)
(* s3 URL without one, files, a glob or directory without files, nothing.  *)
(***************************************************************************)
Place == {"s3", "s3_nobucket", "file", "other_file", "glob", "glob_empty",
          "dir", "dir_empty", "missing", "none"}

is_s3(d) == d.place \in {"s3", "s3_nobucket"}
is_query(d) == d.kind = "query"
has_glob(d) == d.place \in {"glob", "glob_empty"}

\* s3_bucket().
BucketOk(d) == d.place # "s3_nobucket"

\* resolve_local_parquet_files(): "error" aborts, "empty" is EmptyDataset.
LocalFiles(d) ==
    CASE is_s3(d) -> "error"
      [] d.place \in {"glob_empty", "dir_empty"} -> "empty"
      [] d.place \in {"file", "glob", "dir"} -> "files"
      [] OTHER -> "error"

NoFilter == [include |-> {}, exclude |-> {}]
FilterActive(f) == f.include # {} \/ f.exclude # {}
FilterValid(f) == f.include = {} \/ f.exclude = {}

\* ColumnFilter::allows: an allowlist wins over a denylist.
Allows(f, lc) ==
    /\ f.include # {} => \E c \in f.include : Lower[c] = lc
    /\ f.include = {} => \A c \in f.exclude : Lower[c] # lc

\* ColumnFilter::listed.
Listed(f) == IF f.include # {} THEN f.include ELSE f.exclude

NameValid(n) == n # "" /\ n \in UrlSafe /\ n \notin ReservedNames

IndexValid(d) == d.index.mode = "list" => d.index.columns # {}

\* DatasetConfig::validate_for_register.
validate_for_register(d) ==
    /\ NameValid(d.name)
    /\ IndexValid(d)
    /\ FilterValid(d.predicate_filter) /\ FilterValid(d.projection_filter)
    /\ is_s3(d) => BucketOk(d)

\* The checks of validate() on the source of one dataset.
SourceValid(d) ==
    CASE is_query(d) -> TRUE
      [] is_s3(d) -> BucketOk(d)
      [] d.kind = "parquet" -> LocalFiles(d) = "files"
      [] OTHER -> d.place # "missing"

\* [dataset.refresh] and [dataset.materialize].
RefreshValid(d) ==
    /\ d.refresh # "none" => is_query(d)
    /\ d.refresh # "zero"

MaterializeValid(d, storage) ==
    d.materialize # "none" =>
        /\ is_query(d)
        /\ d.materialize = "lazy" => /\ storage # {}
                                     /\ d.index.mode = "auto"

DatasetValid(d, storage) ==
    /\ NameValid(d.name)
    /\ IndexValid(d)
    /\ SourceValid(d)
    /\ RefreshValid(d)
    /\ MaterializeValid(d, storage)

-----------------------------------------------------------------------------
(***************************************************************************)
(* Query datasets.  sql is the set of tables the statement names, in lower *)
(* case (SqlGuard says how they are found); a statement that is refused    *)
(* for another reason names the table "?".  depends_on is a sequence of    *)
(* names as written.                                                       *)
(***************************************************************************)
NamesOf(ds) == {d.name : d \in Range(ds)}
LowerNames(ds) == {Lower[n] : n \in NamesOf(ds)}

\* sql::validate with the names of all datasets: the tables must be known.
SqlValid(sql, allowed) == sql \subseteq allowed

QueryValid(d, ds) ==
    LET declared == {Lower[n] : n \in Range(d.depends_on)} IN
    /\ d.depends_on # <<>>
    /\ Lower[d.name] \notin declared
    /\ declared \subseteq LowerNames(ds)
    /\ SqlValid(d.sql, LowerNames(ds))
    /\ d.sql = declared

-----------------------------------------------------------------------------
(***************************************************************************)
(* topological_dataset_order: Kahn's algorithm over exact names.  The same *)
(* loop orders the wave of reload_all_datasets (handlers/v1.rs).           *)
(***************************************************************************)

\* The elements of list that are in S, in their order.
Selected(list, S) ==
    LET kept[k \in 0 .. Len(list)] ==
          IF k = 0 THEN <<>>
          ELSE IF list[k] \in S THEN Append(kept[k - 1], list[k]) ELSE kept[k - 1]
    IN kept[Len(list)]

\* name_to_idx: the last dataset of a name wins.
NameToIdx(names, n) == Max({i \in DOMAIN names : names[i] = n})

\* How often dataset i names dataset j in depends_on.
EdgesTo(names, depends, i, j) ==
    Cardinality({p \in DOMAIN depends[i] :
                   /\ depends[i][p] \in Range(names)
                   /\ NameToIdx(names, depends[i][p]) = j})

InDegree(names, depends) ==
    [i \in DOMAIN names |->
        Cardinality({p \in DOMAIN depends[i] : depends[i][p] \in Range(names)})]

\* One turn of the loop: the node at the front of the queue releases the
\* dependents whose last dependency it was, in index order.
KahnTurn(names, depends, s) ==
    IF s.queue = <<>> THEN s
    ELSE LET node == Head(s.queue)
             hit(i) == EdgesTo(names, depends, i, node)
             released == {i \in DOMAIN names : hit(i) > 0 /\ s.degree[i] = hit(i)}
         IN [queue |-> Tail(s.queue) \o Selected([i \in DOMAIN names |-> i], released),
             order |-> Append(s.order, node),
             degree |-> [i \in DOMAIN names |-> s.degree[i] - hit(i)]]

KahnStart(names, depends) ==
    LET degree == InDegree(names, depends)
        ready == {i \in DOMAIN names : degree[i] = 0}
    IN [queue |-> Selected([i \in DOMAIN names |-> i], ready), order |-> <<>>,
        degree |-> degree]

KahnOrder(names, depends) ==
    LET state[k \in 0 .. Len(names)] ==
          IF k = 0 THEN KahnStart(names, depends)
          ELSE KahnTurn(names, depends, state[k - 1])
    IN state[Len(names)].order

NamesSeq(ds) == [i \in DOMAIN ds |-> ds[i].name]
DependsSeq(ds) ==
    [i \in DOMAIN ds |-> IF is_query(ds[i]) THEN ds[i].depends_on ELSE <<>>]

\* The order, or <<>> for the error "dependency cycle detected".
topological_dataset_order(ds) ==
    LET order == KahnOrder(NamesSeq(ds), DependsSeq(ds)) IN
    IF Len(order) = Len(ds) THEN order ELSE <<>>

-----------------------------------------------------------------------------
(***************************************************************************)
(* The sections of the server.                                             *)
(***************************************************************************)

\* A path: its text, and whether it starts and ends with '/'.
PathShape(p) == p.lead /\ (p.text # "/" => ~p.trail)

\* server.prefix: empty, or a path.
PrefixValid(p) == p.text = "" \/ (p.lead /\ ~p.trail)

\* A mount must not take a reserved route, nor the path of one checked before.
MountValid(p, reserved, earlier) ==
    PathShape(p) /\ p.text \notin reserved /\ p \notin earlier

MountsValid(c) ==
    /\ MountValid(c.docs, ReservedMounts, {})
    /\ MountValid(c.swagger, ReservedMounts, {c.docs})
    /\ MountValid(c.metrics, ReservedMounts \ {"/metrics"}, {c.docs, c.swagger})
    /\ MountValid(c.explorer, ReservedMounts, {c.docs, c.swagger, c.metrics})
    /\ MountValid(c.mcp, ReservedMounts,
                  {c.docs, c.swagger, c.metrics, c.explorer})

AbsoluteUrl(u) == u \in {"http", "https"}

\* [swagger.oauth2] and mcp.public_base_url, when present.
Oauth2Valid(c) == \A o \in c.oauth2 : AbsoluteUrl(o.issuer) /\ o.client_id # ""

BaseUrlValid(c) == \A u \in c.public_base_url : AbsoluteUrl(u)

\* QuackConfig::validate_enabled.
QuackValid(q) ==
    q.enabled =>
        /\ q.uri.scheme = "quack"
        /\ q.uri.host = "localhost" \/ q.allow_other_hostname
        /\ \A length \in q.token : length >= 4

\* PgwireConfig::validate_enabled.
PgwireValid(p) ==
    p.enabled =>
        /\ p.tls_cert = p.tls_key
        /\ p.loopback \/ (p.password /\ p.tls_cert)

Algorithms == {"RS256", "RS384", "RS512", "ES256", "ES384", "PS256", "PS384",
               "PS512"}

AuthValid(a) ==
    a.enabled =>
        /\ AbsoluteUrl(a.issuer)
        /\ a.algorithms \subseteq Algorithms /\ a.algorithms # {}
        /\ a.tenant_claim \in {"", "pointer"}
        /\ a.allowed_tenants # {} => a.tenant_claim # ""

\* [server.storage].  The merge reservation is cut out of the build pool.
StorageValid(s) ==
    /\ s.root # ""
    /\ \A pool \in s.memory_mb, reservation \in s.reservation_mb :
          reservation < pool
    /\ (s.backend = "s3") = (s.root = "s3://")

\* AppConfig::validate.
validate(c) ==
    /\ PrefixValid(c.prefix)
    /\ c.datasets # <<>>
    /\ QuackValid(c.quack) /\ PgwireValid(c.pgwire)
    /\ MountsValid(c) /\ Oauth2Valid(c) /\ BaseUrlValid(c)
    /\ AuthValid(c.auth)
    /\ IsInjective(NamesSeq(c.datasets))
    /\ \A d \in Range(c.datasets) : DatasetValid(d, c.storage)
    /\ \A s \in c.storage : StorageValid(s)
    /\ \A d \in Range(c.datasets) : is_query(d) => QueryValid(d, c.datasets)
    /\ topological_dataset_order(c.datasets) # <<>>

-----------------------------------------------------------------------------
(***************************************************************************)
(* Files.                                                                  *)
(***************************************************************************)

\* to_toml_block: the fields a [[dataset]] block of the main file carries.
to_toml_block(d) ==
    [d EXCEPT !.refresh = "none", !.materialize = "none", !.on_start = "eager",
              !.managed = FALSE, !.temp = FALSE]

\* to_managed_toml: the fields a file of datasets.d carries.
to_managed_toml(d) ==
    [d EXCEPT !.managed = TRUE, !.temp = FALSE,
              !.predicate_filter = NoFilter, !.projection_filter = NoFilter]

\* load: the main file and the managed files must not name the same dataset,
\* and together they must be valid.  load_managed_dir forces managed.
Merged(c, managed) ==
    [c EXCEPT !.datasets = @ \o [i \in DOMAIN managed |->
                                    [managed[i] EXCEPT !.managed = TRUE]]]

load(c, managed) ==
    /\ NamesOf(c.datasets) \cap NamesOf(managed) = {}
    /\ validate(Merged(c, managed))
=============================================================================
