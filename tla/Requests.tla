------------------------------ MODULE Requests ------------------------------
(***************************************************************************)
(* The HTTP server: requests on their way through the middlewares and the  *)
(* handlers (handlers/v1.rs, handlers/mod.rs, mcp), the request timeout    *)
(* (timeout.rs), the refresher of the signing keys (auth.rs), the Parquet  *)
(* cache, the reload-all wave, shutdown (server.rs).                       *)
(*                                                                         *)
(* The backend is one dataset of the DataFusion store, whose registry is   *)
(* specified in detail in DfStore: here a publish is one step, and may     *)
(* bring another layout of columns.  A version counts the publishes.  A    *)
(* request runs on a slot; everything a handler does without awaiting is   *)
(* one step.                                                               *)
(***************************************************************************)
EXTENDS SqlGuard, Mcp

CONSTANTS
    Slots,      \* the requests in flight at a time
    Scenarios   \* a sequence of [srv, requests, issuers, starts, budget]: a
                \* server, what it may be sent, the states of its issuer, of
                \* its dataset, and how often things happen

VARIABLES
    scn,        \* the scenario, a member of DOMAIN Scenarios
    phase,      \* "boot", "up", "drain", "down", "refused"
    issuer,     \* the OIDC provider: [up, discovery, url, keys]
    issued,     \* history: every JWKS the issuer has published
    jwks, uri,  \* the snapshot and the discovered jwks_uri, options
    fetcher,    \* resolve_and_fetch: [pc, url]
    ds,         \* the dataset: [status, on_start, ver, lock, schema]
    cache,      \* the ParquetCache entry, an option of a version
    slot,       \* the requests
    wave,       \* the wave of reload-all: "none", "next", "build", "drop"
    sched,      \* the scheduler's build: "none", "build"
    left,       \* what is left of the budget
    acked,      \* history: the last version a reload answered 200 for
    overtaken   \* history: the last invalidation met an export in flight that
                \* had read a version older than acked

\* What the dataset may be when the server starts to listen.
Start(schemas) ==
    [status : {"pending", "building", "published", "failed"},
     on_start : {"eager", "lazy", "skip"}, ver : Nat, lock : {"none"}, schema : schemas]

\* The layouts the dataset may be published with.  Its filters are those of its
\* configuration, and a build fails if a column they list is missing.
Layouts(schemas) ==
    /\ \A n \in schemas : IsSchema(n) /\ SchemaValid(n)
    /\ \A m, n \in schemas : /\ m.projection_filter = n.projection_filter
                             /\ m.predicate_filter = n.predicate_filter

ASSUME SlotsAssumption == Slots \cap {"wave", "sched", "none"} = {}
ASSUME ScenariosAssumption ==
    \A i \in DOMAIN Scenarios :
        /\ Scenarios[i].starts \subseteq Start(Scenarios[i].srv.schemas)
        /\ \A d \in Scenarios[i].starts : d.status = "published" => d.ver > 0
        /\ Layouts(Scenarios[i].srv.schemas)
        /\ \A q \in Scenarios[i].requests : IsRequest(q.req) /\ WellFormed(q.stmt)

keyVars == <<issuer, issued, jwks, uri, fetcher>>
dataVars == <<ds, cache, wave, sched, acked, overtaken>>
vars == <<scn, phase, keyVars, dataVars, slot, left>>

srv == Scenarios[scn].srv
schema == ds.schema  \* of the last publish
Name == "t"

Jobs == {"wave", "sched"}
Waiting == {"run", "touch", "lock"}
Building == {"build", "rebuild"}
InFlight == Waiting \cup Building \cup {"insert", "drop"}

Queries == {"query", "stream", "query_dataset"}
Counts == {"count", "count_rows"}

\* The tools that answer missing or malformed arguments with an error.
TakesArguments == {"describe_dataset", "query_dataset", "count_rows", "sql"}

\* seen is the schema the handler found, an option; asked what it passes on;
\* uses the columns the backend read.
NoRequest == [pc |-> "idle", kind |-> "none", q |-> {}, seen |-> {}, asked |-> {},
              uses |-> {}, ver |-> 0, floor |-> 0, late |-> FALSE, code |-> 0,
              ok |-> FALSE]

Init ==
    /\ scn \in DOMAIN Scenarios
    /\ issuer \in Scenarios[scn].issuers /\ issued = {issuer.keys}
    /\ ds \in Scenarios[scn].starts
    /\ phase = IF srv.auth.enabled THEN "boot" ELSE "up"
    /\ fetcher = [pc |-> IF srv.auth.enabled THEN "resolve" ELSE "idle", url |-> "none"]
    /\ jwks = {} /\ uri = {}
    /\ cache = {} /\ wave = "none" /\ sched = "none"
    /\ acked = 0 /\ overtaken = FALSE
    /\ slot = [s \in Slots |-> NoRequest]
    /\ left = Scenarios[scn].budget

-----------------------------------------------------------------------------
(***************************************************************************)
(* The signing keys.  JwksCache::boot runs before the listener is bound;   *)
(* then the refresher repeats the same steps at every interval.            *)
(***************************************************************************)
\* Mutation of Tick: the refresher stops at its first success.
TickOnce ==
    /\ srv.auth.enabled /\ phase \in {"up", "drain"}
    /\ fetcher.pc = "idle" /\ jwks = {}
    /\ fetcher' = [fetcher EXCEPT !.pc = "resolve"]
    /\ UNCHANGED <<scn, phase, issuer, issued, jwks, uri, dataVars, slot, left>>

Tick ==
    /\ srv.auth.enabled /\ phase \in {"up", "drain"}
    /\ fetcher.pc = "idle"
    /\ fetcher' = [fetcher EXCEPT !.pc = "resolve"]
    /\ UNCHANGED <<scn, phase, issuer, issued, jwks, uri, dataVars, slot, left>>

Fetch(url) == fetcher' = [pc |-> "fetch", url |-> url]

\* resolve_and_fetch: the cached URL, discovery, or the legacy URL.
Resolve ==
    /\ fetcher.pc = "resolve"
    /\ \/ /\ \E u \in uri : Fetch(u)
          /\ UNCHANGED uri
       \/ /\ uri = {} /\ issuer.up /\ issuer.discovery
          /\ uri' = {issuer.url}
          /\ Fetch(issuer.url)
       \/ /\ uri = {} /\ ~(issuer.up /\ issuer.discovery)
          /\ Fetch("legacy")
          /\ UNCHANGED uri
    /\ UNCHANGED <<scn, phase, issuer, issued, jwks, dataVars, slot, left>>

\* The end of boot or refresh_quiet: an error keeps the keys there are, and
\* refuses to start unless start_degraded.
FetchEnd ==
    LET fetched == issuer.up /\ issuer.url = fetcher.url IN
    /\ fetcher.pc = "fetch"
    /\ jwks' = IF fetched THEN {issuer.keys} ELSE jwks
    /\ fetcher' = [pc |-> "idle", url |-> "none"]
    /\ phase' = IF phase # "boot" THEN phase
                ELSE IF fetched \/ srv.auth.start_degraded THEN "up" ELSE "refused"
    /\ UNCHANGED <<scn, issuer, issued, uri, dataVars, slot, left>>

\* The provider rotates its keys, goes down, comes back, moves.
IssuerChanges ==
    /\ left.issuer > 0
    /\ left' = [left EXCEPT !.issuer = @ - 1]
    /\ issuer' \in Scenarios[scn].issuers \ {issuer}
    /\ issued' = issued \cup {issuer'.keys}
    /\ UNCHANGED <<scn, phase, jwks, uri, fetcher, dataVars, slot>>

-----------------------------------------------------------------------------
(***************************************************************************)
(* Answers.  A tool call answers its errors with 200 and isError.          *)
(***************************************************************************)
Answer(r, code, ok) == [r EXCEPT !.pc = "done", !.code = code, !.ok = ok]

Failed(r, e) == Answer(r, IF r.q.op = "mcp" THEN 200 ELSE Status(e), FALSE)

-----------------------------------------------------------------------------
(***************************************************************************)
(* What a handler decides before its first await.                          *)
(***************************************************************************)
Loaded == ds.ver > 0
LoadedSchemas == [n \in (IF Loaded THEN {Name} ELSE {}) |-> schema]

Plan(err, asked) == [err |-> err, asked |-> asked]
IfLoaded(e) == IF Loaded THEN e ELSE "ok"
NeedsLoaded(e) == IF Loaded THEN e ELSE "NotFound"

\* query_dataset, stream_dataset and call_query_dataset go on unfiltered when
\* nothing is loaded.
\* Mutation of PlanQuery: the stream is not narrowed to the visible columns.
PlanQueryWide(kind, req) ==
    Plan(IfLoaded(enforce_column_filters(req, schema)),
         IF Loaded /\ kind # "stream" THEN Narrowed(req, schema) ELSE req)

PlanQuery(kind, req) ==
    Plan(IfLoaded(enforce_column_filters(req, schema)),
         IF Loaded THEN Narrowed(req, schema) ELSE req)

\* count_dataset, and call_count_rows, which asks no filter.
PlanCount(kind, req) ==
    Plan(IF kind = "count" THEN IfLoaded(count_enforce_column_filters(req, schema))
         ELSE "ok", req)

\* get_schema and call_describe_dataset.
PlanSchema(req) == Plan(NeedsLoaded("ok"), req)

\* sql_query and call_sql.
PlanSql(q) ==
    Plan(validate_and_authorize(q.stmt, DOMAIN LoadedSchemas, LoadedSchemas).err, q.req)

\* parquet_dataset.
PlanParquet(req) ==
    Plan(NeedsLoaded(IF FilterActive(schema.projection_filter) THEN "Forbidden" ELSE "ok"),
         req)

PlanOf(kind, q) ==
    CASE kind \in Queries -> PlanQuery(kind, q.req)
      [] kind \in Counts -> PlanCount(kind, q.req)
      [] kind \in {"schema", "describe_dataset"} -> PlanSchema(q.req)
      [] kind = "sql" -> PlanSql(q)
      [] kind = "parquet" -> PlanParquet(q.req)
      [] OTHER -> Plan("ok", q.req)

\* readyz: eager datasets gate; without one, any published dataset does.  With
\* one dataset the modes All and Any agree.
Ready == ds.status = "published"

\* reload_all_datasets leaves out a dataset that is being built, and one that
\* is pending and not eager.
Reloadable == ~(ds.status = "building" \/ (ds.status = "pending" /\ ds.on_start # "eager"))

-----------------------------------------------------------------------------
(***************************************************************************)
(* A request arrives: the auth middleware, the route's own guard, and the  *)
(* handler up to its first await.                                          *)
(***************************************************************************)
QueriesEnabled == require_admin_configured(srv.admin) \/ srv.auth.enabled

Guard(q, principal) ==
    LET cfg == srv.auth IN
    CASE q.op = "readyz" -> "ok"
      [] q.op = "sql" /\ ~srv.sql.enabled -> "NotFound"
      [] q.op \in {"reload", "reload_all"} ->
           require_reload(cfg, principal, srv.admin, q.admin)
      [] q.op = "queries" ->
           IF QueriesEnabled THEN require_manage(cfg, principal, srv.admin, q.admin)
           ELSE "NotFound"
      [] OTHER -> require_read(cfg, principal)

\* The columns of a cached export, whose layout may be an older one.
AllColumns == UNION {Range(n.columns) : n \in srv.schemas}

\* The handler of kind takes the request r over.
Handle(s, r) ==
    LET plan == PlanOf(r.kind, r.q)
        at == [r EXCEPT !.seen = Range(LoadedSchemas), !.asked = plan.asked, !.floor = acked]
        Goes(x) == slot' = [slot EXCEPT ![s] = x]
    IN \/ /\ plan.err # "ok"
          /\ Goes(Failed(at, plan.err)) /\ UNCHANGED wave
       \/ /\ r.kind = "readyz"
          /\ Goes(Answer(at, IF Ready THEN 200 ELSE 503, Ready)) /\ UNCHANGED wave
       \/ /\ r.kind \in {"list", "status", "queries", "list_datasets",
                         "describe_all_datasets"}
          /\ Goes(Answer(at, 200, TRUE)) /\ UNCHANGED wave
       \/ /\ r.kind = "reload"
          /\ Goes([at EXCEPT !.pc = "lock"]) /\ UNCHANGED wave
       \/ /\ r.kind = "reload_all"
          /\ wave = "none"  \* bound: one wave at a time
          /\ wave' = IF Reloadable THEN "next" ELSE "none"
          /\ Goes(Answer(at, 202, TRUE))
       \/ /\ r.kind = "parquet" /\ plan.err = "ok" /\ cache # {}
          /\ Goes([Answer(at, 200, TRUE) EXCEPT !.ver = CHOOSE v \in cache : TRUE,
                                               !.uses = AllColumns, !.late = overtaken])
          /\ UNCHANGED wave
       \/ /\ plan.err = "ok" /\ (r.kind = "parquet" => cache = {})
          /\ r.kind \in Queries \cup Counts
                         \cup {"schema", "describe_dataset", "sql", "parquet"}
          /\ Goes([at EXCEPT !.pc = "run"]) /\ UNCHANGED wave

Arrive(s, q) ==
    LET auth == AuthMiddleware(q.header, srv.auth, jwks)
        r == [NoRequest EXCEPT !.q = q, !.kind = q.op]
        outcome == McpHandler(q.msg, srv.auth, auth.principal, srv.mcp, srv.sql)
        guard == Guard(q, auth.principal)
        tool == [r EXCEPT !.kind = CHOOSE t \in q.msg.params.tool : TRUE]
        Reply(code, ok) == slot' = [slot EXCEPT ![s] = Answer(r, code, ok)]
                           /\ UNCHANGED wave
    IN /\ phase = "up"
       /\ left.calls > 0
       /\ left' = [left EXCEPT !.calls = @ - 1]
       /\ slot[s].pc \in {"idle", "done"}
       /\ IF auth.err # "ok" THEN Reply(Status(auth.err), FALSE)
          ELSE IF q.op = "mcp" /\ outcome.code # 0
          THEN Reply(outcome.code, outcome.code < 300 /\ outcome.rpc = "none")
          ELSE IF q.op = "mcp" /\ tool.kind \in TakesArguments /\ ~q.msg.params.valid
          THEN Reply(200, FALSE)
          ELSE IF q.op # "mcp" /\ guard # "ok" THEN Reply(Status(guard), FALSE)
          ELSE Handle(s, IF q.op = "mcp" THEN tool ELSE r)
       /\ UNCHANGED <<scn, phase, keyVars, ds, cache, sched, acked, overtaken>>

-----------------------------------------------------------------------------
(***************************************************************************)
(* The dataset, as the handlers use it.                                    *)
(***************************************************************************)
Free == ds.lock = "none"
Hold(b) == ds' = [ds EXCEPT !.lock = b, !.status = "building"]

\* A build is published: a new version, with the layout its files have now.
Publish ==
    \E n \in srv.schemas :
        ds' = [ds EXCEPT !.lock = "none", !.ver = @ + 1, !.status = "published", !.schema = n]

\* reload_inner ends: Ok publishes, Err keeps the last good version, and a
\* timeout drops the future at the await, the status left behind.
EndRebuild(outcome) ==
    \/ outcome = "ok" /\ Publish
    \/ /\ outcome # "ok"
       /\ ds' = [ds EXCEPT !.lock = "none",
                           !.status = IF outcome = "dropped" THEN @
                                      ELSE IF Loaded THEN "published" ELSE "failed"]

\* The columns a structured request or a count shows by name, sorts or filters
\* on.
Filtered(req) == {p.col : p \in Range(req.predicates)}
Names(r) ==
    CASE r.kind \in Queries ->
           Range(r.asked.columns) \cup Range(r.asked.group_by) \cup Filtered(r.asked)
           \cup (UNION {a.col : a \in Range(r.asked.aggregations)})
           \cup (IF r.asked.group_by # <<>> THEN {}
                 ELSE {o.col : o \in Range(r.asked.order_by)})
      [] r.kind \in Counts -> Filtered(r.asked)
      [] OTHER -> {}

\* What the backend uses of a layout n: a request that names nothing to show
\* gets everything; get_schema strips its sample, call_describe_dataset does
\* not.
Reads(r, n) ==
    LET named == UNION {find(n, c) : c \in Names(r)}
        all == Range(n.columns)
    IN CASE r.kind \in Queries ->
              named \cup (IF r.asked.columns = <<>> /\ r.asked.group_by = <<>> THEN all ELSE {})
         [] r.kind \in Counts -> named
         [] r.kind = "schema" ->
              {c \in all \cup UNION {Range(m.columns) : m \in r.seen} : is_visible(n, c)}
         [] r.kind = "sql" -> {x[2] : x \in Shown(r.q.stmt, [t \in {Name} |-> n])}
         [] r.kind \in {"parquet", "describe_dataset"} -> all
         [] OTHER -> {}

\* ensure_ready is over and the backend reads the dataset d, unless a column
\* named is no longer there; an export is then put in the cache.
Served(r, d) ==
    LET at == [r EXCEPT !.ver = d.ver, !.uses = Reads(r, d.schema)] IN
    IF r.kind = "parquet" THEN [at EXCEPT !.pc = "insert"]
    ELSE IF \E c \in Names(r) : find(d.schema, c) = {} THEN Failed(at, "UnknownColumn")
    ELSE Answer(at, 200, TRUE)

SlotOnly(s, r) ==
    /\ slot' = [slot EXCEPT ![s] = r]
    /\ UNCHANGED <<scn, phase, keyVars, dataVars, left>>

\* ensure_ready.  query_sql does not ask it.
Run(s) ==
    LET r == slot[s] IN
    /\ r.pc = "run"
    /\ SlotOnly(s, IF r.kind = "sql" \/ ds.status = "published" THEN Served(r, ds)
                   ELSE IF ds.status = "pending" /\ ds.on_start = "lazy"
                   THEN [r EXCEPT !.pc = "touch"]
                   ELSE Failed(r, "NotReady"))

\* first_touch_build: the mutex, and a second look.
Touch(s) ==
    LET r == slot[s] IN
    /\ r.pc = "touch" /\ Free
    /\ \/ /\ ds.status = "published"
          /\ SlotOnly(s, Served(r, ds))
       \/ /\ ds.status # "published"
          /\ Hold(s)
          /\ slot' = [slot EXCEPT ![s].pc = "build"]
          /\ UNCHANGED <<scn, phase, keyVars, cache, wave, sched, acked, overtaken, left>>

\* Mutation of TouchEnd: a failed first build keeps the mutex.
TouchEndLocked(s) ==
    LET r == slot[s] IN
    /\ r.pc = "build"
    /\ \/ /\ Publish
          /\ slot' = [slot EXCEPT ![s] = Served(r, ds')]
       \/ /\ ds' = [ds EXCEPT !.status = "failed"]
          /\ slot' = [slot EXCEPT ![s] = Failed(r, "Internal")]
    /\ UNCHANGED <<scn, phase, keyVars, cache, wave, sched, acked, overtaken, left>>

TouchEnd(s) ==
    LET r == slot[s] IN
    /\ r.pc = "build"
    /\ \/ /\ Publish
          /\ slot' = [slot EXCEPT ![s] = Served(r, ds')]
       \/ /\ ds' = [ds EXCEPT !.lock = "none", !.status = "failed"]
          /\ slot' = [slot EXCEPT ![s] = Failed(r, "Internal")]
    /\ UNCHANGED <<scn, phase, keyVars, cache, wave, sched, acked, overtaken, left>>

\* ParquetCache::insert, then serve_bytes_with_range.
Insert(s) ==
    /\ slot[s].pc = "insert"
    /\ cache' = {slot[s].ver}
    /\ slot' = [slot EXCEPT ![s] = Answer(@, 200, TRUE)]
    /\ UNCHANGED <<scn, phase, keyVars, ds, wave, sched, acked, overtaken, left>>

-----------------------------------------------------------------------------
(***************************************************************************)
(* reload_dataset, the wave of reload-all, the scheduler.                  *)
(***************************************************************************)
Lock(s) ==
    /\ slot[s].pc = "lock" /\ Free
    /\ Hold(s)
    /\ slot' = [slot EXCEPT ![s].pc = "rebuild"]
    /\ UNCHANGED <<scn, phase, keyVars, cache, wave, sched, acked, overtaken, left>>

Rebuilt(s) ==
    /\ slot[s].pc = "rebuild"
    /\ \/ /\ EndRebuild("ok")
          /\ slot' = [slot EXCEPT ![s].pc = "drop", ![s].ver = ds.ver + 1]
       \/ /\ EndRebuild("err")
          /\ slot' = [slot EXCEPT ![s] = Failed(@, "Internal")]
    /\ UNCHANGED <<scn, phase, keyVars, cache, wave, sched, acked, overtaken, left>>

OlderExport(ver) == \E s \in Slots : slot[s].pc = "insert" /\ slot[s].ver < ver

\* ParquetCache::invalidate.
Invalidate ==
    /\ cache' = {}
    /\ overtaken' = OlderExport(acked')

\* Mutation of Drop: the entry stays.
DropNothing(s) ==
    /\ slot[s].pc = "drop"
    /\ acked' = Max({acked, slot[s].ver})
    /\ overtaken' = OlderExport(acked')
    /\ slot' = [slot EXCEPT ![s] = Answer(@, 200, TRUE)]
    /\ UNCHANGED <<scn, phase, keyVars, ds, cache, wave, sched, left>>

\* reload_dataset drops the entry and answers.
Drop(s) ==
    /\ slot[s].pc = "drop"
    /\ acked' = Max({acked, slot[s].ver})
    /\ Invalidate
    /\ slot' = [slot EXCEPT ![s] = Answer(@, 200, TRUE)]
    /\ UNCHANGED <<scn, phase, keyVars, ds, wave, sched, left>>

\* The wave: try_reload, which gives way to a holder of the mutex.
WaveNext ==
    /\ wave = "next"
    /\ \/ /\ Free /\ Hold("wave") /\ wave' = "build"
       \/ /\ ~Free /\ wave' = "none" /\ UNCHANGED ds
    /\ UNCHANGED <<scn, phase, keyVars, cache, sched, acked, overtaken, slot, left>>

WaveBuilt ==
    /\ wave = "build"
    /\ \/ EndRebuild("ok") /\ wave' = "drop"
       \/ EndRebuild("err") /\ wave' = "none"
    /\ UNCHANGED <<scn, phase, keyVars, cache, sched, acked, overtaken, slot, left>>

WaveDrop ==
    /\ wave = "drop"
    /\ wave' = "none"
    /\ UNCHANGED acked
    /\ Invalidate
    /\ UNCHANGED <<scn, phase, keyVars, ds, sched, slot, left>>

\* A scheduled or cascaded rebuild: no handler, no invalidation.  Its timeout
\* drops the build.
SchedStart ==
    /\ left.ticks > 0 /\ phase = "up" /\ sched = "none"
    /\ left' = [left EXCEPT !.ticks = @ - 1]
    /\ Free /\ Hold("sched")
    /\ sched' = "build"
    /\ UNCHANGED <<scn, phase, keyVars, cache, wave, acked, overtaken, slot>>

SchedEnd ==
    /\ sched = "build"
    /\ sched' = "none"
    /\ \E outcome \in {"ok", "err", "dropped"} : EndRebuild(outcome)
    /\ UNCHANGED <<scn, phase, keyVars, cache, wave, acked, overtaken, slot, left>>

-----------------------------------------------------------------------------
(***************************************************************************)
(* The timeout drops a request at one of its awaits, its mutex with it.  A *)
(* tool call has a timer of its own besides the middleware's.              *)
(***************************************************************************)
\* Mutation of TimeOut: the guard of the mutex outlives the request.
TimeOutLocked(s) ==
    /\ srv.timeout
    /\ slot[s].pc \in Waiting \cup Building \cup {"insert"}
    /\ slot' = [slot EXCEPT ![s] = Answer(@, 504, FALSE)]
    /\ UNCHANGED <<scn, phase, keyVars, dataVars, left>>

TimeOut(s) ==
    LET r == slot[s] IN
    /\ srv.timeout
    /\ r.pc \in Waiting \cup Building \cup {"insert"}
    /\ \E code \in {504} \cup (IF r.q.op = "mcp" THEN {200} ELSE {}) :
         slot' = [slot EXCEPT ![s] = Answer(r, code, FALSE)]
    /\ ds' = [ds EXCEPT !.lock = IF @ = s THEN "none" ELSE @]
    /\ UNCHANGED <<scn, phase, keyVars, cache, wave, sched, acked, overtaken, left>>

(***************************************************************************)
(* shutdown_listener: no new requests, then the end, when the requests are *)
(* answered, the grace period is over or a second signal comes.            *)
(***************************************************************************)
Signal ==
    /\ phase = "up" /\ left.stop > 0
    /\ left' = [left EXCEPT !.stop = @ - 1]
    /\ phase' = "drain"
    /\ UNCHANGED <<scn, keyVars, dataVars, slot>>

Stop ==
    /\ phase = "drain"
    /\ phase' = "down"
    /\ slot' = [s \in Slots |-> IF slot[s].pc \in InFlight THEN NoRequest ELSE slot[s]]
    /\ fetcher' = [pc |-> "idle", url |-> "none"]
    /\ wave' = "none" /\ sched' = "none"
    /\ ds' = [ds EXCEPT !.lock = "none"]
    /\ UNCHANGED <<scn, issuer, issued, jwks, uri, cache, acked, overtaken, left>>

-----------------------------------------------------------------------------
Steps(s) ==
    \/ Run(s) \/ Touch(s) \/ TouchEnd(s) \/ Insert(s)
    \/ Lock(s) \/ Rebuilt(s) \/ Drop(s)

Keys == Tick \/ Resolve \/ FetchEnd
Background == WaveNext \/ WaveBuilt \/ WaveDrop \/ SchedEnd

Next ==
    \/ \E s \in Slots, q \in Scenarios[scn].requests : Arrive(s, q)
    \/ \E s \in Slots : Steps(s) \/ TimeOut(s)
    \/ Keys \/ IssuerChanges
    \/ Background \/ SchedStart
    \/ Signal \/ Stop

\* The runtime polls what is ready: the builds end, the refresher's interval
\* keeps ticking, a drain ends with its grace period.
Fairness ==
    /\ \A s \in Slots : WF_vars(Steps(s))
    /\ WF_vars(Background)
    /\ WF_vars(Tick) /\ WF_vars(Resolve) /\ WF_vars(FetchEnd)
    /\ WF_vars(Stop)

Spec == Init /\ [][Next]_vars /\ Fairness

-----------------------------------------------------------------------------
(***************************************************************************)
(* Properties.                                                             *)
(***************************************************************************)

\* Types; and the mutex is held by whoever is building, and by nobody else.
TypeOK ==
    /\ phase \in {"boot", "up", "drain", "down", "refused"}
    /\ fetcher.pc \in {"idle", "resolve", "fetch"}
    /\ wave \in {"none", "next", "build", "drop"} /\ sched \in {"none", "build"}
    /\ ds.status \in {"pending", "building", "published", "failed"}
    /\ ds.ver \in Nat /\ acked \in 0 .. ds.ver /\ cache \subseteq 1 .. ds.ver
    /\ \A s \in Slots : slot[s].pc \in {"idle", "done"} \cup InFlight
    /\ ds.lock \in Slots \cup Jobs \cup {"none"}
    /\ \A s \in Slots : ds.lock = s <=> slot[s].pc \in Building
    /\ ds.lock = "wave" <=> wave = "build"
    /\ ds.lock = "sched" <=> sched = "build"

Genuine(q, scopes) ==
    \E h \in q.header :
      LET tok == h.token
          c == tok.claims
      IN /\ h.bearer
         /\ \E keys \in issued : \E kid \in tok.kid \cap DOMAIN keys :
              keys[kid].mat = tok.signer
         /\ tok.alg \in srv.auth.algorithms
         /\ c.iss = srv.auth.issuer /\ c.live /\ srv.auth.audience \subseteq c.aud
         /\ srv.auth.allowed_tenants # {} => c.tenant \cap srv.auth.allowed_tenants # {}
         /\ scopes \subseteq c.scope \cup c.scp

Permitted(q, scopes) == scopes = {} \/ Genuine(q, scopes)
IsAdmin(q) == srv.admin # {} /\ q.admin = srv.admin
MayAdmin(q, scopes) ==
    IF srv.auth.enabled
    THEN (srv.auth.admin_token_fallback /\ IsAdmin(q)) \/ Permitted(q, scopes)
    ELSE IsAdmin(q)
MayRead(q) ==
    srv.auth.enabled => srv.auth.anonymous_read \/ Permitted(q, srv.auth.read_scopes)

Entitled(q) ==
    CASE q.op = "readyz" -> TRUE
      [] q.op \in {"reload", "reload_all"} -> MayAdmin(q, srv.auth.reload_scopes)
      [] q.op = "queries" -> MayAdmin(q, srv.auth.manage_scopes)
      [] q.op = "mcp" ->
           IF q.msg.verb # "POST" \/ q.msg.id = "absent" THEN TRUE
           ELSE IF q.msg.method \in Lifecycle
           THEN srv.auth.enabled => srv.auth.anonymous_read \/ Genuine(q, {})
           ELSE MayRead(q)
      [] OTHER -> MayRead(q)

\* A request that gets past the guards, over HTTP or MCP and whatever keys
\* are cached at that moment, is one its credentials entitle it to: a token
\* counts only if the issuer published its key and its claims hold, the admin
\* token only where it is accepted; and a bad token is never passed over.
AuthorisedAnswers ==
    \A s \in Slots :
        (slot[s].pc \in InFlight \/ slot[s].ok) =>
            /\ Entitled(slot[s].q)
            /\ (srv.auth.enabled /\ \E h \in slot[s].q.header : h.bearer)
                 => Genuine(slot[s].q, {})

\* Requests that asked the projection filter.  Three places do not: a request
\* that found nothing loaded, the sample of describe_dataset, count_rows.  And
\* a default projection has to have a visible column; SQL is about SELECT
\* without stray tables that names its columns in the ways the gate looks at.
FilterAsked(r) ==
    /\ r.seen # {}
    /\ r.kind \notin {"describe_dataset", "count_rows"}
    /\ r.kind \in Queries => \A m \in r.seen : HasProjection(r.q.req, m)
    /\ r.kind = "sql" => /\ r.q.stmt.kind = "query" /\ Stray(r.q.stmt) = {}
                         /\ NamesItsColumns(r.q.stmt)

\* The gate of SQL looks only at columns of the schema it finds: a name that
\* comes with a later publish passes, and an include filter then hides it.
Unknown(r, c) == r.kind = "sql" /\ \A m \in r.seen : find(m, c) = {}

\* No answer is made from a column the projection filter hides, also when
\* the dataset is reloaded between the filter and the read, with more columns,
\* fewer, or the same in another order; but for SQL that names a column which
\* was not there when it was checked.
HiddenStaysHidden ==
    \A s \in Slots :
        (slot[s].ok /\ FilterAsked(slot[s]))
          => \A c \in slot[s].uses : is_visible(schema, c) \/ Unknown(slot[s], c)

\* An export asked for after a reload answered 200 is at least that new,
\* unless that reload's invalidation met an older export being made, which
\* puts its file in the cache afterwards.
ExportFresh ==
    \A s \in Slots :
        (slot[s].kind = "parquet" /\ slot[s].ok /\ ~slot[s].late)
          => slot[s].ver >= slot[s].floor

\* Once the issuer stays reachable where discovery said it is, the server has
\* its current keys, whatever failed at boot and however often keys rotated.
KeysCatchUp ==
    <>[](/\ phase = "up" /\ srv.auth.enabled
         /\ issuer.up /\ issuer.discovery
         /\ uri \in {{}, {issuer.url}})
      => <>[](jwks = {issuer.keys})

\* Every request is answered, also one that waits for the mutex of a build
\* that fails, unless the server goes down; no timer is needed for it.
Answered ==
    \A s \in Slots :
        slot[s].pc \in InFlight ~> (slot[s].pc = "done" \/ phase = "down")
=============================================================================
