---------------------------- MODULE RequestsProofs ----------------------------
(***************************************************************************)
(* Proofs about the requests, for every set of slots and every sequence of *)
(* scenarios: any server configuration, any requests, tokens and keys.     *)
(*                                                                         *)
(* What has to be added to the properties to make them inductive:          *)
(* - the shape of the records (Shaped) and what a request carries at each  *)
(*   of its steps (Steady);                                                *)
(* - an entry of the cache, and an export that is about to become one, is  *)
(*   at least as new as the last acknowledged reload, unless overtaken is  *)
(*   set (EntriesFresh);                                                   *)
(* - the cached keys are keys the issuer has published (KeysPublished);    *)
(* - what a request under way may read is visible, in whatever layout the  *)
(*   dataset is published next (UsesVisible).                              *)
(***************************************************************************)
EXTENDS Requests, OperatorProofs, TLAPS

Fields == {"pc", "kind", "q", "seen", "asked", "uses", "ver", "floor", "late", "code", "ok"}

Statuses == {"pending", "building", "published", "failed"}

IsDataset(d) ==
    /\ DOMAIN d = {"status", "on_start", "ver", "lock", "schema"}
    /\ d.status \in Statuses /\ d.ver \in Nat /\ d.lock \in Slots \cup Jobs \cup {"none"}

\* The records have their fields; what they hold may be anything.
Shaped ==
    /\ DOMAIN slot = Slots
    /\ \A s \in Slots : DOMAIN slot[s] = Fields /\ slot[s].ok \in BOOLEAN
    /\ DOMAIN fetcher = {"pc", "url"}
    /\ overtaken \in BOOLEAN
    /\ IsDataset(ds)

\* What a request carries: versions there have been, a reload what it made,
\* an export what it is about to cache.
Steady ==
    /\ ds.status = "published" => ds.ver > 0
    /\ \A s \in Slots :
         /\ slot[s].ver \in 0 .. ds.ver /\ slot[s].floor \in 0 .. ds.ver
         /\ slot[s].pc \in {"lock", "rebuild", "drop"} => slot[s].kind = "reload"
         /\ slot[s].pc = "insert" => slot[s].ver > 0 /\ slot[s].ver >= slot[s].floor

EntriesFresh ==
    ~overtaken => /\ \A v \in cache : v >= acked
                  /\ \A s \in Slots : slot[s].pc = "insert" => slot[s].ver >= acked

DataInv == Shaped /\ TypeOK /\ Steady /\ EntriesFresh /\ ExportFresh

\* The snapshot of the keys comes from the issuer.
KeysPublished == issuer.keys \in issued /\ jwks \subseteq issued

-----------------------------------------------------------------------------
(***************************************************************************)
(* Updates of a request.                                                   *)
(***************************************************************************)
\* Answer ends a request and keeps what it carries.
LEMMA AnswerIs ==
    ASSUME NEW r, DOMAIN r = Fields, NEW code, NEW ok
    PROVE  LET a == Answer(r, code, ok) IN
           /\ DOMAIN a = Fields
           /\ a.pc = "done" /\ a.code = code /\ a.ok = ok
           /\ a.kind = r.kind /\ a.q = r.q /\ a.ver = r.ver /\ a.floor = r.floor
           /\ a.late = r.late /\ a.seen = r.seen /\ a.asked = r.asked /\ a.uses = r.uses
    BY DEF Answer, Fields

\* An error is not a success.
LEMMA FailedIs ==
    ASSUME NEW r, DOMAIN r = Fields, NEW e
    PROVE  LET a == Failed(r, e) IN
           /\ DOMAIN a = Fields
           /\ a.pc = "done" /\ a.ok \in BOOLEAN /\ ~a.ok
           /\ a.kind = r.kind /\ a.q = r.q /\ a.ver = r.ver /\ a.floor = r.floor
           /\ a.seen = r.seen /\ a.asked = r.asked /\ a.uses = r.uses
    BY DEF Failed, Answer, Fields

\* A request that was served has the version it read, and read its layout; an
\* export goes on.
LEMMA ServedIs ==
    ASSUME NEW r, DOMAIN r = Fields, NEW d
    PROVE  LET a == Served(r, d) IN
           /\ DOMAIN a = Fields
           /\ a.kind = r.kind /\ a.q = r.q /\ a.ver = d.ver /\ a.floor = r.floor
           /\ a.seen = r.seen /\ a.asked = r.asked /\ a.uses = Reads(r, d.schema)
           /\ r.kind = "parquet" => a.pc = "insert" /\ a.ok = r.ok
           /\ r.kind # "parquet" => a.pc = "done" /\ a.ok \in BOOLEAN
<1>. DEFINE at == [r EXCEPT !.ver = d.ver, !.uses = Reads(r, d.schema)]
            lost == \E c \in Names(r) : find(d.schema, c) = {}
<1>1. /\ DOMAIN at = Fields /\ at.kind = r.kind /\ at.q = r.q /\ at.ver = d.ver
      /\ at.floor = r.floor /\ at.seen = r.seen /\ at.asked = r.asked
      /\ at.uses = Reads(r, d.schema) /\ at.ok = r.ok
    BY DEF Fields
<1>2. Served(r, d) = IF r.kind = "parquet" THEN [at EXCEPT !.pc = "insert"]
                     ELSE IF lost THEN Failed(at, "UnknownColumn")
                     ELSE Answer(at, 200, TRUE)
    BY DEF Served
<1>. HIDE DEF at, lost
<1>3. CASE r.kind = "parquet"
    BY <1>1, <1>2, <1>3 DEF Fields
<1>4. CASE r.kind # "parquet" /\ lost
    BY <1>1, <1>2, <1>4, FailedIs
<1>5. CASE r.kind # "parquet" /\ ~lost
  <2>. DEFINE x == Answer(at, 200, TRUE)
  <2>1. /\ DOMAIN x = Fields /\ x.pc = "done" /\ x.ok \in BOOLEAN
        /\ x.kind = at.kind /\ x.q = at.q /\ x.ver = at.ver /\ x.floor = at.floor
        /\ x.seen = at.seen /\ x.asked = at.asked /\ x.uses = at.uses
      BY <1>1 DEF Answer, Fields
  <2>2. Served(r, d) = x
      BY <1>2, <1>5
  <2>. HIDE DEF x
  <2>. QED
      BY <1>1, <1>5, <2>1, <2>2
<1>. QED
    BY <1>3, <1>4, <1>5

\* The greater of two versions.
LEMMA MaxIs ==
    ASSUME NEW a \in Nat, NEW b \in Nat
    PROVE  Max({a, b}) \in {a, b} /\ Max({a, b}) >= a /\ Max({a, b}) >= b
<1>1. \E x \in {a, b} : \A y \in {a, b} : x >= y
    BY SMT
<1>. QED
    BY <1>1 DEF Max

-----------------------------------------------------------------------------
(***************************************************************************)
(* Who a request is.                                                       *)
(***************************************************************************)
\* What AuthMiddleware lets through: a bearer token is genuine, and the scopes
\* of a principal are those of its token.
LEMMA MiddlewareSound ==
    ASSUME KeysPublished, NEW q,
           AuthMiddleware(q.header, srv.auth, jwks).err = "ok"
    PROVE  LET principal == AuthMiddleware(q.header, srv.auth, jwks).principal IN
           /\ (srv.auth.enabled /\ \E h \in q.header : h.bearer) => Genuine(q, {})
           /\ \A p \in principal : \A scopes :
                scopes \subseteq p.scopes => Genuine(q, scopes)
<1>. DEFINE cfg == srv.auth
            bearer == {h.token : h \in {x \in q.header : x.bearer}}
            tok == CHOOSE t \in bearer : TRUE
<1>1. CASE ~cfg.enabled \/ bearer = {}
    BY <1>1 DEF AuthMiddleware
<1>2. CASE cfg.enabled /\ bearer # {}
  <2>1. AuthMiddleware(q.header, cfg, jwks) = verify_token(tok, cfg, jwks)
      BY <1>2 DEF AuthMiddleware
  <2>2. TokenError(tok, cfg, jwks) = "ok"
      BY <2>1 DEF verify_token
  <2>3. PICK h \in q.header : h.bearer /\ h.token = tok
      BY <1>2
  <2>. DEFINE keys == UNION {{k[kid] : kid \in tok.kid \cap DOMAIN k} : k \in jwks}
              key == CHOOSE k \in keys : TRUE
  <2>. HIDE DEF tok
  <2>4. /\ keys # {}
        /\ tok.alg \in cfg.algorithms
        /\ decode(tok, key, cfg)
        /\ cfg.allowed_tenants # {} => extract_tenant(tok.claims, cfg) \cap cfg.allowed_tenants # {}
      BY <2>2 DEF TokenError
  <2>5. PICK k \in jwks : \E kid \in tok.kid \cap DOMAIN k : key = k[kid]
    <3>1. key \in keys
        BY <2>4
    <3>. QED
        BY <3>1
  <2>6. \E ks \in issued : \E kid \in tok.kid \cap DOMAIN ks : ks[kid].mat = tok.signer
      BY <2>4, <2>5 DEF decode, KeysPublished
  <2>7. \A scopes : scopes \subseteq parse_scopes(tok.claims) => Genuine(q, scopes)
      BY <2>3, <2>4, <2>6 DEF Genuine, decode, extract_tenant, parse_scopes
  <2>8. AuthMiddleware(q.header, cfg, jwks).principal
          = {[scopes |-> parse_scopes(tok.claims), tenant |-> extract_tenant(tok.claims, cfg)]}
      BY <2>1, <2>2 DEF verify_token
  <2>. QED
      BY <2>7, <2>8
<1>. QED
    BY <1>1, <1>2

\* The scopes a guard asked for are the scopes of a principal.
LEMMA ScopesSound ==
    ASSUME KeysPublished, NEW q,
           AuthMiddleware(q.header, srv.auth, jwks).err = "ok", NEW required,
           require_scopes(AuthMiddleware(q.header, srv.auth, jwks).principal, required) = "ok"
    PROVE  Permitted(q, required)
    BY MiddlewareSound DEF require_scopes, has_all_scopes, Permitted

\* The guards of the /api/v1 handlers.
LEMMA GuardIsSound ==
    ASSUME KeysPublished, NEW q, q.op # "mcp",
           AuthMiddleware(q.header, srv.auth, jwks).err = "ok",
           Guard(q, AuthMiddleware(q.header, srv.auth, jwks).principal) = "ok"
    PROVE  Entitled(q)
<1>. DEFINE principal == AuthMiddleware(q.header, srv.auth, jwks).principal
<1>s. \A required : require_scopes(principal, required) = "ok" => Permitted(q, required)
    BY ScopesSound
<1>. HIDE DEF principal
<1>a. \A scopes : AdminOrScopes(srv.auth, principal, srv.admin, q.admin, scopes) = "ok"
                    => MayAdmin(q, scopes)
    BY <1>s DEF AdminOrScopes, MayAdmin, IsAdmin, require_admin, require_admin_configured
<1>1. CASE q.op = "readyz"
    BY <1>1 DEF Entitled
<1>2. CASE q.op \in {"reload", "reload_all"}
  <2>1. require_reload(srv.auth, principal, srv.admin, q.admin) = "ok"
      BY <1>2 DEF Guard, principal
  <2>. QED
      BY <1>2, <1>a, <2>1 DEF Entitled, require_reload
<1>3. CASE q.op = "queries"
  <2>1. require_manage(srv.auth, principal, srv.admin, q.admin) = "ok"
      BY <1>3 DEF Guard, principal
  <2>. QED
      BY <1>3, <1>a, <2>1 DEF Entitled, require_manage
<1>4. CASE q.op \notin {"readyz", "reload", "reload_all", "queries"}
  <2>1. require_read(srv.auth, principal) = "ok"
      BY <1>4 DEF Guard, principal
  <2>2. MayRead(q)
      BY <1>s, <2>1 DEF require_read, MayRead
  <2>. QED
      BY <1>4, <2>2 DEF Entitled
<1>. QED
    BY <1>1, <1>2, <1>3, <1>4

\* The envelope ends a request with an error, or it goes on: only a
\* notification is answered at once.
LEMMA EnvelopeIs ==
    ASSUME NEW m, NEW mcp, m.id # "absent"
    PROVE  \/ Envelope(m, mcp).code \in {0, 400, 403, 404, 406}
           \/ Envelope(m, mcp).rpc # "none"
<1>1. ~is_notification(m)
    BY DEF is_notification
<1>2. \A c, r : Done(c, r).code = c /\ Done(c, r).rpc = r
    BY DEF Done
<1>3. CASE ~mcp.enabled
    BY <1>2, <1>3 DEF Envelope
<1>4. CASE mcp.enabled
    BY <1>1, <1>2, <1>4 DEF Envelope, GoOn
<1>. QED
    BY <1>3, <1>4

\* The MCP endpoint: what it answers without an error, and what it hands to a
\* tool, is authorised.
LEMMA McpIsSound ==
    ASSUME KeysPublished, NEW q, q.op = "mcp",
           AuthMiddleware(q.header, srv.auth, jwks).err = "ok"
    PROVE  LET principal == AuthMiddleware(q.header, srv.auth, jwks).principal
               outcome == McpHandler(q.msg, srv.auth, principal, srv.mcp, srv.sql)
           IN outcome.code = 0 \/ (outcome.code < 300 /\ outcome.rpc = "none") => Entitled(q)
<1>. DEFINE principal == AuthMiddleware(q.header, srv.auth, jwks).principal
            outcome == McpHandler(q.msg, srv.auth, principal, srv.mcp, srv.sql)
            m == q.msg
<1>s. /\ \A required : require_scopes(principal, required) = "ok" => Permitted(q, required)
      /\ principal # {} => Genuine(q, {})
  <2>1. principal # {} => Genuine(q, {})
      BY MiddlewareSound
  <2>. QED
      BY ScopesSound, <2>1
<1>. SUFFICES ASSUME outcome.code = 0 \/ (outcome.code < 300 /\ outcome.rpc = "none")
              PROVE  Entitled(q)
    OBVIOUS
<1>. HIDE DEF principal
<1>1. CASE m.verb # "POST" \/ m.id = "absent"
    BY <1>1 DEF Entitled
<1>2. CASE m.verb = "POST" /\ m.id # "absent"
  <2>1. outcome = handle_post(m, srv.auth, principal, srv.mcp, srv.sql)
      BY <1>2 DEF McpHandler
  <2>2. Envelope(m, srv.mcp).code = 0
    <3>1. \/ Envelope(m, srv.mcp).code \in {0, 400, 403, 404, 406}
          \/ Envelope(m, srv.mcp).rpc # "none"
        BY <1>2, EnvelopeIs
    <3>. QED
        BY <2>1, <3>1 DEF handle_post
  <2>3. check_auth(m, srv.auth, principal) = "ok"
      BY <2>1, <2>2 DEF handle_post, AuthFailure, Done
  <2>4. CASE m.method \in Lifecycle
    <3>1. srv.auth.enabled => srv.auth.anonymous_read \/ Genuine(q, {})
        BY <1>s, <2>3, <2>4 DEF check_auth
    <3>. QED
        BY <2>4, <3>1 DEF Entitled
  <2>5. CASE m.method \notin Lifecycle
    <3>1. MayRead(q)
        BY <1>s, <2>3, <2>5 DEF check_auth, MayRead
    <3>. QED
        BY <2>5, <3>1 DEF Entitled
  <2>. QED
      BY <2>4, <2>5
<1>. QED
    BY <1>1, <1>2

-----------------------------------------------------------------------------
(***************************************************************************)
(* What the backend is going to read for a request.                        *)
(***************************************************************************)
\* A request as it comes from the parser; a layout as it comes from the loader.
Parsed(q) == IsRequest(q.req) /\ WellFormed(q.stmt)
Current == schema \in srv.schemas /\ Layouts(srv.schemas)

\* What a request may read: what it reads now, and what it would read of any
\* layout the dataset may be published with.
Open(r, c) == is_visible(schema, c) \/ Unknown(r, c)
VisibleUses(r) == FilterAsked(r) => \A c \in r.uses : Open(r, c)
Cleared(r) == FilterAsked(r) => \A n \in srv.schemas : \A c \in Reads(r, n) : Open(r, c)

\* What a step leaves alone of a request under way.
Same(x, r) == x.q = r.q /\ x.kind = r.kind /\ x.seen = r.seen /\ x.asked = r.asked

\* Visibility is about the name in lower case, under the configured filter.
LEMMA SameNames ==
    ASSUME NEW n, NEW m, n.projection_filter = m.projection_filter,
           NEW c, NEW k, Lower[c] = Lower[k]
    PROVE  is_visible(n, c) <=> is_visible(m, k)
    BY DEF is_visible

\* All layouts have the same filters.
LEMMA LayoutFilters ==
    ASSUME Current, NEW n \in srv.schemas
    PROVE  n.projection_filter = schema.projection_filter /\ IsSchema(n)
    BY DEF Current, Layouts

\* A structured request, narrowed to the layout its handler found.
LEMMA QueryVisible ==
    ASSUME Current, NEW r, r.kind \in Queries, Parsed(r.q), HasProjection(r.q.req, schema),
           enforce_column_filters(r.q.req, schema) = "ok",
           r.asked = Narrowed(r.q.req, schema),
           NEW n \in srv.schemas
    PROVE  \A c \in Reads(r, n) : is_visible(schema, c)
<1>. DEFINE req == r.asked
            s == schema
<1>0. IsSchema(s) /\ n.projection_filter = s.projection_filter
    BY LayoutFilters DEF Current
<1>. HIDE DEF s
<1>1. /\ \A k \in NamedColumns(req) : is_visible(s, k)
      /\ (req.columns = <<>> /\ req.group_by = <<>>) => \A c \in Range(s.columns) : is_visible(s, c)
    BY <1>0, RequestsUseVisible DEF Parsed, s
<1>2. Names(r) = NamedColumns(req)
  <2>1. Names(r) = Range(req.columns) \cup Range(req.group_by) \cup Filtered(req)
                   \cup (UNION {a.col : a \in Range(req.aggregations)})
                   \cup (IF req.group_by # <<>> THEN {}
                         ELSE {o.col : o \in Range(req.order_by)})
      BY Zenon DEF Names, Queries, Counts
  <2>. QED
      BY <2>1, Zenon DEF NamedColumns, Filtered
<1>3. ASSUME NEW c, NEW k \in Names(r), c \in find(n, k) PROVE is_visible(s, c)
    BY <1>1, <1>2, <1>3 DEF find, is_visible
<1>4. ASSUME req.columns = <<>>, req.group_by = <<>>, NEW c PROVE is_visible(s, c)
  <2>1. CASE ~FilterActive(s.projection_filter)
      BY <2>1 DEF FilterActive, is_visible, Allows
  <2>2. CASE FilterActive(s.projection_filter)
    <3>1. r.q.req.group_by = <<>> /\ (r.q.req.columns = <<>> => req.columns = visible_columns(s))
        BY <1>4, <2>2, NarrowedParts DEF Parsed, s
    <3>2. r.q.req.columns = <<>>
        BY <1>4, <2>2, <3>1, NarrowedParts DEF Parsed, s
    <3>3. Range(visible_columns(s)) = {x \in Range(s.columns) : is_visible(s, x)}
        BY <1>0, SelectedRange DEF IsSchema, visible_columns
    <3>4. {x \in Range(s.columns) : is_visible(s, x)} = {}
        BY <1>4, <3>1, <3>2, <3>3 DEF Range
    <3>. QED
        BY <3>1, <3>2, <3>4 DEF HasProjection, s
  <2>. QED
      BY <2>1, <2>2
<1>5. Reads(r, n) = (UNION {find(n, k) : k \in Names(r)})
                    \cup (IF req.columns = <<>> /\ req.group_by = <<>> THEN Range(n.columns) ELSE {})
    BY Zenon DEF Reads, Queries, Counts
<1>. QED
    BY <1>3, <1>4, <1>5 DEF s

\* A count tests columns by the name the request has for them.
LEMMA CountVisible ==
    ASSUME Current, NEW r, r.kind = "count", Parsed(r.q), r.asked = r.q.req,
           count_enforce_column_filters(r.q.req, schema) = "ok",
           NEW n \in srv.schemas
    PROVE  \A c \in Reads(r, n) : is_visible(schema, c)
<1>. DEFINE req == r.q.req
            s == schema
<1>0. n.projection_filter = s.projection_filter
    BY LayoutFilters
<1>. HIDE DEF s
<1>1. CASE ~ has_column_filters(s)
    BY <1>1, NoFilters DEF s
<1>2. CASE has_column_filters(s)
  <2>1. DOMAIN req.predicates \subseteq Nat
      BY DEF Parsed, IsRequest
  <2>2. ASSUME NEW p \in Range(req.predicates) PROVE is_visible(s, p.col)
    <3>1. find_for_predicate(s, p.col) = "ok"
        BY <1>2, <2>1, PredicatesAsked DEF s
    <3>. QED
        BY <3>1, FindForPredicate, FindVisible
  <2>3. Names(r) = {p.col : p \in Range(req.predicates)}
      BY DEF Names, Filtered, Queries, Counts
  <2>4. Reads(r, n) = UNION {find(n, k) : k \in Names(r)}
      BY DEF Reads, Queries, Counts
  <2>5. ASSUME NEW c, NEW k \in Names(r), c \in find(n, k) PROVE is_visible(s, c)
      BY <2>2, <2>3, <2>5 DEF find, is_visible
  <2>. QED
      BY <2>4, <2>5 DEF s
<1>. QED
    BY <1>1, <1>2

\* SQL: the gate of the layout that was found speaks for a column of another
\* one by its name, which what a statement shows depends on.
LEMMA SqlVisible ==
    ASSUME Current, Loaded, NEW r, r.kind = "sql", WellFormed(r.q.stmt),
           r.q.stmt.kind = "query", Stray(r.q.stmt) = {}, NamesItsColumns(r.q.stmt),
           validate_and_authorize(r.q.stmt, DOMAIN LoadedSchemas, LoadedSchemas).err = "ok",
           r.seen = {schema}, NEW n \in srv.schemas
    PROVE  \A c \in Reads(r, n) : Open(r, c)
<1>. DEFINE stmt == r.q.stmt
            layouts == [t \in {Name} |-> n]
<1>1. ASSUME NEW x \in Shown(stmt, LoadedSchemas) PROVE is_visible(LoadedSchemas[x[1]], x[2])
    BY <1>1, StatementsGated DEF GatedStatement
<1>2. LoadedSchemas = [t \in {Name} |-> schema]
    BY DEF LoadedSchemas
<1>3. Reads(r, n) = {x[2] : x \in Shown(stmt, layouts)}
    BY DEF Reads, Queries, Counts
<1>4. SUFFICES ASSUME NEW x \in Shown(stmt, layouts), ~Unknown(r, x[2])
               PROVE  is_visible(schema, x[2])
    BY <1>3 DEF Open
<1>5. PICK k \in Range(schema.columns) : Lower[k] = Lower[x[2]]
    BY <1>4 DEF Unknown, find
<1>6. x[1] = Name /\ \E f \in Forms : <<1, f>> \in Showing(stmt, <<x[1], Lower[x[2]]>>)
    BY DEF Shown
<1>7. <<Name, k>> \in Shown(stmt, LoadedSchemas)
  <2>. DEFINE y == <<Name, k>>
  <2>1. y[1] = Name /\ y[2] = k
      OBVIOUS
  <2>2. <<y[1], Lower[y[2]]>> = <<x[1], Lower[x[2]]>>
      BY <1>5, <1>6, <2>1
  <2>3. y \in UNION {{<<t, c>> : c \in Range(LoadedSchemas[t].columns)} : t \in DOMAIN LoadedSchemas}
      BY <1>2
  <2>. HIDE DEF y
  <2>4. \E f \in Forms : <<1, f>> \in Showing(stmt, <<y[1], Lower[y[2]]>>)
      BY <1>6, <2>2
  <2>5. y \in Shown(stmt, LoadedSchemas)
      BY <2>3, <2>4 DEF Shown
  <2>. QED
      BY <2>5 DEF y
<1>8. is_visible(schema, k)
    BY <1>1, <1>2, <1>7
<1>. QED
    BY <1>5, <1>8, SameNames

\* Whatever the handler, what its plan may read is visible, where the filter is
\* asked.
LEMMA PlanVisible ==
    ASSUME Current, NEW r, Parsed(r.q), r.asked = PlanOf(r.kind, r.q).asked,
           r.seen = Range(LoadedSchemas), PlanOf(r.kind, r.q).err = "ok"
    PROVE  Cleared(r)
<1>. SUFFICES ASSUME FilterAsked(r), NEW n \in srv.schemas
              PROVE  \A c \in Reads(r, n) : Open(r, c)
    BY DEF Cleared
<1>a. Loaded /\ r.seen = {schema}
    BY DEF FilterAsked, LoadedSchemas, Range
<1>b. n.projection_filter = schema.projection_filter
    BY LayoutFilters
<1>1. CASE r.kind \in Queries
  <2>1. PlanOf(r.kind, r.q) = PlanQuery(r.kind, r.q.req)
      BY <1>1, Zenon DEF PlanOf, Queries, Counts
  <2>2. /\ enforce_column_filters(r.q.req, schema) = "ok"
        /\ r.asked = Narrowed(r.q.req, schema)
      BY <1>a, <2>1 DEF PlanQuery, Plan, IfLoaded
  <2>. QED
      BY <1>1, <1>a, <2>2, QueryVisible DEF FilterAsked, Open
<1>2. CASE r.kind = "count"
  <2>1. PlanOf(r.kind, r.q) = PlanCount("count", r.q.req)
      BY <1>2 DEF PlanOf, Queries, Counts
  <2>2. count_enforce_column_filters(r.q.req, schema) = "ok" /\ r.asked = r.q.req
      BY <1>a, <2>1 DEF PlanCount, Plan, IfLoaded
  <2>. QED
      BY <1>2, <2>2, CountVisible DEF Open
<1>3. CASE r.kind = "schema"
  <2>1. \A c \in Reads(r, n) : is_visible(n, c)
      BY <1>3 DEF Reads, Queries, Counts
  <2>. QED
      BY <1>b, <2>1, SameNames DEF Open
<1>4. CASE r.kind = "sql"
  <2>1. PlanOf(r.kind, r.q) = PlanSql(r.q)
      BY <1>4 DEF PlanOf, Queries, Counts
  <2>2. validate_and_authorize(r.q.stmt, DOMAIN LoadedSchemas, LoadedSchemas).err = "ok"
      BY <2>1 DEF PlanSql, Plan
  <2>. QED
      BY <1>4, <1>a, <2>2, SqlVisible DEF FilterAsked, Parsed
<1>5. CASE r.kind = "parquet"
  <2>1. PlanOf(r.kind, r.q) = PlanParquet(r.q.req)
      BY <1>5 DEF PlanOf, Queries, Counts
  <2>2. ~ FilterActive(schema.projection_filter)
      BY <2>1 DEF PlanParquet, Plan, NeedsLoaded
  <2>. QED
      BY <2>2 DEF FilterActive, is_visible, Allows, Open
<1>6. CASE r.kind \notin Queries \cup Counts \cup {"schema", "describe_dataset", "sql", "parquet"}
    BY <1>6 DEF Reads
<1>. QED
    BY <1>1, <1>2, <1>3, <1>4, <1>5, <1>6 DEF FilterAsked, Counts

-----------------------------------------------------------------------------
(***************************************************************************)
(* A request arrives.                                                      *)
(***************************************************************************)
\* What a slot may hold once a handler has taken the request q.
Taken(q, x) ==
    /\ DOMAIN x = Fields /\ x.ok \in BOOLEAN
    /\ x.q = q
    /\ x.pc \in {"done", "run", "lock"}
    /\ x.pc = "lock" => x.kind = "reload"
    /\ x.ver \in {0} \cup cache /\ x.floor \in {0, acked}
    /\ x.kind = "parquet" /\ x.ok /\ ~x.late =>
          ~overtaken /\ x.ver \in cache /\ x.floor = acked
    /\ Current /\ Parsed(q) /\ (x.pc # "done" \/ x.ok) => Cleared(x) /\ VisibleUses(x)

WaveTaken ==
    \/ UNCHANGED wave
    \/ wave = "none" /\ wave' = "next"

\* A handler ends, starts to read, or waits for the mutex.
LEMMA HandleIs ==
    ASSUME NEW s \in Slots, NEW r, DOMAIN r = Fields, r.ver = 0, overtaken \in BOOLEAN,
           r.ok = FALSE, r.late = FALSE, r.uses = {}, Handle(s, r)
    PROVE  WaveTaken /\ \E x : slot' = [slot EXCEPT ![s] = x] /\ Taken(r.q, x)
<1>. DEFINE plan == PlanOf(r.kind, r.q)
            at == [r EXCEPT !.seen = Range(LoadedSchemas), !.asked = plan.asked, !.floor = acked]
            Goes(x) == slot' = [slot EXCEPT ![s] = x]
            plain == {"readyz", "list", "status", "queries", "list_datasets",
                      "describe_all_datasets", "reload", "reload_all"}
<1>a. /\ DOMAIN at = Fields /\ at.ver = 0 /\ at.q = r.q /\ at.kind = r.kind
      /\ at.floor = acked /\ at.ok = FALSE /\ at.late = FALSE
      /\ at.seen = Range(LoadedSchemas) /\ at.asked = plan.asked /\ at.uses = {}
    BY DEF Fields
<1>h. \/ /\ plan.err # "ok"
         /\ Goes(Failed(at, plan.err)) /\ UNCHANGED wave
      \/ /\ r.kind = "readyz"
         /\ Goes(Answer(at, IF Ready THEN 200 ELSE 503, Ready)) /\ UNCHANGED wave
      \/ /\ r.kind \in {"list", "status", "queries", "list_datasets",
                        "describe_all_datasets"}
         /\ Goes(Answer(at, 200, TRUE)) /\ UNCHANGED wave
      \/ /\ r.kind = "reload"
         /\ Goes([at EXCEPT !.pc = "lock"]) /\ UNCHANGED wave
      \/ /\ r.kind = "reload_all"
         /\ wave = "none"
         /\ wave' = IF Reloadable THEN "next" ELSE "none"
         /\ Goes(Answer(at, 202, TRUE))
      \/ /\ r.kind = "parquet" /\ plan.err = "ok" /\ cache # {}
         /\ Goes([Answer(at, 200, TRUE) EXCEPT !.ver = CHOOSE v \in cache : TRUE,
                                              !.uses = AllColumns, !.late = overtaken])
         /\ UNCHANGED wave
      \/ plan.err = "ok" /\ Goes([at EXCEPT !.pc = "run"]) /\ UNCHANGED wave
    BY Zenon DEF Handle
<1>p. r.kind \in plain => plan.err = "ok"
  <2>1. r.kind \in plain => plan = Plan("ok", r.q.req)
      BY DEF PlanOf, Queries, Counts
  <2>. QED
      BY <2>1 DEF Plan
<1>v. ASSUME NEW x, Current, Parsed(r.q), plan.err = "ok", Same(x, at)
      PROVE  Cleared(x) /\ (x.uses = {} => VisibleUses(x))
  <2>1. /\ x.q = r.q /\ x.kind = r.kind /\ x.seen = Range(LoadedSchemas)
        /\ x.asked = plan.asked
      BY <1>a, <1>v DEF Same
  <2>2. Cleared(x)
      BY <1>v, <2>1, PlanVisible
  <2>. QED
      BY <2>2 DEF VisibleUses
<1>. HIDE DEF plan, at
<1>1. CASE /\ plan.err # "ok"
           /\ Goes(Failed(at, plan.err)) /\ UNCHANGED wave
  <2>. DEFINE x == Failed(at, plan.err)
  <2>1. /\ DOMAIN x = Fields /\ x.pc = "done" /\ x.ok \in BOOLEAN /\ ~x.ok
        /\ x.kind = at.kind /\ x.q = at.q /\ x.ver = at.ver /\ x.floor = at.floor
      BY <1>a, FailedIs
  <2>. HIDE DEF x
  <2>2. Taken(r.q, x)
      BY <1>a, <2>1 DEF Taken
  <2>. QED
      BY <1>1, <2>2 DEF WaveTaken, x
<1>b. ASSUME NEW code, NEW ok \in BOOLEAN, plan.err = "ok", r.kind # "parquet"
      PROVE  Taken(r.q, Answer(at, code, ok))
  <2>. DEFINE x == Answer(at, code, ok)
  <2>1. /\ DOMAIN x = Fields /\ x.pc = "done" /\ x.ok = ok /\ Same(x, at)
        /\ x.ver = at.ver /\ x.floor = at.floor /\ x.uses = {}
      BY <1>a, AnswerIs DEF Same
  <2>. HIDE DEF x
  <2>2. Current /\ Parsed(r.q) => Cleared(x) /\ VisibleUses(x)
      BY <1>b, <1>v, <2>1
  <2>. QED
      BY <1>a, <1>b, <2>1, <2>2 DEF Taken, Same, x
<1>2. CASE /\ r.kind = "readyz"
           /\ Goes(Answer(at, IF Ready THEN 200 ELSE 503, Ready)) /\ UNCHANGED wave
  <2>. DEFINE code == IF Ready THEN 200 ELSE 503
              x == Answer(at, code, Ready)
  <2>1. Ready \in BOOLEAN
      BY DEF Ready
  <2>. HIDE DEF code
  <2>2. Taken(r.q, x)
      BY <1>2, <1>b, <1>p, <2>1
  <2>. HIDE DEF x
  <2>. QED
      BY <1>2, <2>2, ZenonT(40) DEF WaveTaken, x, code
<1>3. CASE /\ r.kind \in {"list", "status", "queries", "list_datasets",
                          "describe_all_datasets"}
           /\ Goes(Answer(at, 200, TRUE)) /\ UNCHANGED wave
  <2>1. Taken(r.q, Answer(at, 200, TRUE))
      BY <1>3, <1>b, <1>p, ZenonT(40)
  <2>. QED
      BY <1>3, <2>1 DEF WaveTaken
<1>4. CASE r.kind = "reload" /\ Goes([at EXCEPT !.pc = "lock"]) /\ UNCHANGED wave
  <2>. DEFINE x == [at EXCEPT !.pc = "lock"]
  <2>1. /\ DOMAIN x = Fields /\ x.pc = "lock" /\ x.ok = FALSE /\ Same(x, at)
        /\ x.ver = 0 /\ x.floor = acked /\ x.uses = {}
      BY <1>a DEF Fields, Same
  <2>. HIDE DEF x
  <2>2. Current /\ Parsed(r.q) => Cleared(x) /\ VisibleUses(x)
      BY <1>4, <1>p, <1>v, <2>1
  <2>3. Taken(r.q, x)
      BY <1>a, <1>4, <2>1, <2>2 DEF Taken, Same
  <2>. QED
      BY <1>4, <2>3 DEF WaveTaken, x
<1>5. CASE /\ r.kind = "reload_all"
           /\ wave = "none"
           /\ wave' = IF Reloadable THEN "next" ELSE "none"
           /\ Goes(Answer(at, 202, TRUE))
  <2>1. WaveTaken
      BY <1>5 DEF WaveTaken
  <2>2. Taken(r.q, Answer(at, 202, TRUE))
      BY <1>5, <1>b, <1>p, Zenon
  <2>. QED
      BY <1>5, <2>1, <2>2
<1>6. CASE /\ r.kind = "parquet" /\ plan.err = "ok" /\ cache # {}
           /\ Goes([Answer(at, 200, TRUE) EXCEPT !.ver = CHOOSE v \in cache : TRUE,
                                                !.uses = AllColumns, !.late = overtaken])
           /\ UNCHANGED wave
  <2>. DEFINE v == CHOOSE w \in cache : TRUE
              x == [Answer(at, 200, TRUE) EXCEPT !.ver = v, !.uses = AllColumns,
                                                 !.late = overtaken]
  <2>1. v \in cache
      BY <1>6
  <2>. HIDE DEF v
  <2>2. /\ DOMAIN x = Fields /\ x.pc = "done" /\ x.ok = TRUE /\ Same(x, at)
        /\ x.ver = v /\ x.floor = acked /\ x.late = overtaken /\ x.uses = AllColumns
      BY <1>a DEF Answer, Fields, Same
  <2>. HIDE DEF x
  <2>3. Current /\ Parsed(r.q) => Cleared(x) /\ VisibleUses(x)
    <3>1. SUFFICES ASSUME Cleared(x) PROVE VisibleUses(x)
        BY <1>6, <1>v, <2>2
    <3>2. \A n \in srv.schemas : Reads(x, n) = Range(n.columns)
        BY <1>a, <1>6, <2>2 DEF Same, Reads, Queries, Counts
    <3>. QED
        BY <2>2, <3>1, <3>2 DEF Cleared, VisibleUses, AllColumns
  <2>4. Taken(r.q, x)
      BY <1>a, <1>6, <2>1, <2>2, <2>3 DEF Taken, Same
  <2>5. slot' = [slot EXCEPT ![s] = x] /\ UNCHANGED wave
      BY <1>6 DEF v, x
  <2>. QED
      BY <2>4, <2>5 DEF WaveTaken
<1>7. CASE plan.err = "ok" /\ Goes([at EXCEPT !.pc = "run"]) /\ UNCHANGED wave
  <2>. DEFINE x == [at EXCEPT !.pc = "run"]
  <2>1. /\ DOMAIN x = Fields /\ x.pc = "run" /\ x.ok = FALSE /\ Same(x, at)
        /\ x.ver = 0 /\ x.floor = acked /\ x.uses = {}
      BY <1>a DEF Fields, Same
  <2>. HIDE DEF x
  <2>2. Current /\ Parsed(r.q) => Cleared(x) /\ VisibleUses(x)
      BY <1>7, <1>v, <2>1
  <2>3. Taken(r.q, x)
      BY <1>a, <1>7, <2>1, <2>2 DEF Taken, Same
  <2>. QED
      BY <1>7, <2>3 DEF WaveTaken, x
<1>. QED
    BY <1>h, <1>1, <1>2, <1>3, <1>4, <1>5, <1>6, <1>7

\* The credentials of q entitle it to what it asks for, and its token is good.
Admitted(q) ==
    /\ Entitled(q)
    /\ (srv.auth.enabled /\ \E h \in q.header : h.bearer) => Genuine(q, {})

\* A request is answered, or taken over by a handler; past the guards comes
\* only what is admitted.
LEMMA ArriveIs ==
    ASSUME NEW s \in Slots, NEW q, KeysPublished, overtaken \in BOOLEAN, Arrive(s, q)
    PROVE  /\ WaveTaken
           /\ \E x : /\ slot' = [slot EXCEPT ![s] = x]
                     /\ Taken(q, x)
                     /\ x.pc # "done" \/ x.ok => Admitted(q)
<1>. DEFINE auth == AuthMiddleware(q.header, srv.auth, jwks)
            r == [NoRequest EXCEPT !.q = q, !.kind = q.op]
            outcome == McpHandler(q.msg, srv.auth, auth.principal, srv.mcp, srv.sql)
            guard == Guard(q, auth.principal)
            tool == [r EXCEPT !.kind = CHOOSE t \in q.msg.params.tool : TRUE]
            Reply(code, ok) == slot' = [slot EXCEPT ![s] = Answer(r, code, ok)]
                               /\ UNCHANGED wave
<1>r. /\ DOMAIN r = Fields /\ r.ver = 0 /\ r.floor = 0 /\ r.q = q /\ r.kind = q.op
      /\ r.ok = FALSE /\ r.late = FALSE /\ r.seen = {} /\ r.uses = {}
    BY DEF NoRequest, Fields
<1>t. /\ DOMAIN tool = Fields /\ tool.ver = 0 /\ tool.q = q
      /\ tool.ok = FALSE /\ tool.late = FALSE /\ tool.uses = {}
    BY DEF NoRequest, Fields
<1>h. IF auth.err # "ok" THEN Reply(Status(auth.err), FALSE)
      ELSE IF q.op = "mcp" /\ outcome.code # 0
      THEN Reply(outcome.code, outcome.code < 300 /\ outcome.rpc = "none")
      ELSE IF q.op = "mcp" /\ tool.kind \in TakesArguments /\ ~q.msg.params.valid
      THEN Reply(200, FALSE)
      ELSE IF q.op # "mcp" /\ guard # "ok" THEN Reply(Status(guard), FALSE)
      ELSE Handle(s, IF q.op = "mcp" THEN tool ELSE r)
    BY Zenon DEF Arrive
<1>b. auth.err = "ok"
        => ((srv.auth.enabled /\ \E h \in q.header : h.bearer) => Genuine(q, {}))
    BY MiddlewareSound
<1>g. auth.err = "ok" /\ q.op # "mcp" /\ guard = "ok" => Admitted(q)
    BY <1>b, GuardIsSound DEF Admitted
<1>m. auth.err = "ok" /\ q.op = "mcp"
        /\ (outcome.code = 0 \/ (outcome.code < 300 /\ outcome.rpc = "none")) => Admitted(q)
    BY <1>b, McpIsSound DEF Admitted
<1>. HIDE DEF auth, r, outcome, guard, tool
<1>n. \A code : Taken(q, Answer(r, code, FALSE)) /\ ~(Answer(r, code, FALSE).ok)
                  /\ Answer(r, code, FALSE).pc = "done"
  <2>1. ASSUME NEW code
        PROVE  LET x == Answer(r, code, FALSE) IN
               /\ DOMAIN x = Fields /\ x.ok = FALSE /\ x.pc = "done" /\ x.q = q
               /\ x.ver = 0 /\ x.floor = 0
      BY <1>r DEF Answer, Fields
  <2>. QED
      BY <2>1 DEF Taken
<1>1. CASE \E code : Reply(code, FALSE)
  <2>1. PICK code : Reply(code, FALSE)
      BY <1>1
  <2>. QED
      BY <1>n, <2>1 DEF WaveTaken
<1>2. CASE /\ auth.err = "ok" /\ q.op = "mcp"
           /\ Reply(outcome.code, outcome.code < 300 /\ outcome.rpc = "none")
  <2>. DEFINE ok == outcome.code < 300 /\ outcome.rpc = "none"
              x == Answer(r, outcome.code, ok)
  <2>0. /\ DOMAIN x = Fields /\ x.ok = ok /\ x.pc = "done" /\ x.q = q /\ x.kind = "mcp"
        /\ x.ver = 0 /\ x.floor = 0 /\ x.seen = {}
      BY <1>r, <1>2, AnswerIs
  <2>1. Taken(q, x) /\ x.pc = "done" /\ (x.ok => ok)
    <3>. HIDE DEF x
    <3>1. Cleared(x) /\ VisibleUses(x)
        BY <2>0 DEF Cleared, VisibleUses, FilterAsked
    <3>. QED
        BY <2>0, <3>1 DEF Taken
  <2>. HIDE DEF x
  <2>2. x.ok => Admitted(q)
      BY <1>2, <1>m, <2>1
  <2>. QED
      BY <1>2, <2>1, <2>2 DEF WaveTaken, x
<1>3. CASE auth.err = "ok" /\ q.op = "mcp" /\ outcome.code = 0 /\ Handle(s, tool)
  <2>1. WaveTaken /\ \E x : slot' = [slot EXCEPT ![s] = x] /\ Taken(q, x)
      BY <1>3, <1>t, HandleIs
  <2>. QED
      BY <1>3, <1>m, <2>1
<1>4. CASE auth.err = "ok" /\ q.op # "mcp" /\ guard = "ok" /\ Handle(s, r)
  <2>1. WaveTaken /\ \E x : slot' = [slot EXCEPT ![s] = x] /\ Taken(q, x)
      BY <1>4, <1>r, HandleIs
  <2>. QED
      BY <1>4, <1>g, <2>1
<1>. QED
    BY <1>h, <1>1, <1>2, <1>3, <1>4, ZenonT(40)

-----------------------------------------------------------------------------
(***************************************************************************)
(* The versions: TypeOK, what the cache holds, what an export answers.     *)
(***************************************************************************)
\* The ways the dataset changes.
LEMMA HoldIs ==
    ASSUME Shaped, NEW b \in Slots \cup Jobs, Hold(b)
    PROVE  /\ IsDataset(ds')
           /\ ds'.lock = b /\ ds'.status = "building" /\ ds'.ver = ds.ver
           /\ ds'.schema = ds.schema
    BY DEF Shaped, IsDataset, Hold, Statuses

LEMMA PublishIs ==
    ASSUME Shaped, Publish
    PROVE  /\ IsDataset(ds')
           /\ ds'.lock = "none" /\ ds'.ver = ds.ver + 1 /\ ds'.status = "published"
           /\ ds'.schema \in srv.schemas
<1>1. PICK v \in Nat : v = ds.ver + 1
    BY DEF Shaped, IsDataset
<1>2. PICK n \in srv.schemas :
        ds' = [ds EXCEPT !.lock = "none", !.ver = v, !.status = "published", !.schema = n]
    BY <1>1 DEF Publish
<1>. QED
    BY <1>1, <1>2 DEF Shaped, IsDataset, Statuses

LEMMA ReleaseIs ==
    ASSUME Shaped, NEW st \in Statuses, ds' = [ds EXCEPT !.lock = "none", !.status = st]
    PROVE  /\ IsDataset(ds')
           /\ ds'.lock = "none" /\ ds'.ver = ds.ver /\ ds'.status = st
           /\ ds'.schema = ds.schema
    BY DEF Shaped, IsDataset

LEMMA EndRebuildIs ==
    ASSUME Shaped, NEW o \in {"ok", "err", "dropped"}, EndRebuild(o)
    PROVE  /\ IsDataset(ds')
           /\ ds'.lock = "none"
           /\ ds'.ver = IF o = "ok" THEN ds.ver + 1 ELSE ds.ver
           /\ ds'.status = "published" => ds'.ver > 0 \/ ds.status = "published"
           /\ ds'.schema \in srv.schemas \cup {ds.schema}
<1>1. ds.ver \in Nat /\ ds.status \in Statuses
    BY DEF Shaped, IsDataset
<1>2. CASE o = "ok"
  <2>1. Publish
      BY <1>2 DEF EndRebuild
  <2>. QED
      BY <1>1, <1>2, <2>1, PublishIs
<1>3. CASE o # "ok"
  <2>. DEFINE st == IF o = "dropped" THEN ds.status
                    ELSE IF Loaded THEN "published" ELSE "failed"
  <2>1. ds' = [ds EXCEPT !.lock = "none", !.status = st]
      BY <1>3 DEF EndRebuild
  <2>2. st \in Statuses /\ (st = "published" => ds.ver > 0 \/ ds.status = "published")
      BY <1>1 DEF Statuses, Loaded
  <2>. HIDE DEF st
  <2>. QED
      BY <1>1, <1>3, <2>1, <2>2, ReleaseIs
<1>. QED
    BY <1>2, <1>3

\* Who holds the mutex: the last part of TypeOK.
Locks ==
    /\ \A s \in Slots : ds.lock = s <=> slot[s].pc \in Building
    /\ ds.lock = "wave" <=> wave = "build"
    /\ ds.lock = "sched" <=> sched = "build"

\* A request as a step may leave it, when the dataset has version ver.
Sound(x, ver) ==
    /\ DOMAIN x = Fields /\ x.ok \in BOOLEAN
    /\ x.pc \in {"idle", "done"} \cup InFlight
    /\ x.ver \in 0 .. ver /\ x.floor \in 0 .. ver
    /\ x.pc \in {"lock", "rebuild", "drop"} => x.kind = "reload"
    /\ x.pc = "insert" => x.ver = ver /\ ver > 0
    /\ x.kind = "parquet" /\ x.ok /\ ~x.late => x.ver >= x.floor

\* A step that does not touch the cache.
LEMMA DsStep ==
    ASSUME DataInv, UNCHANGED <<cache, acked, overtaken>>,
           IsDataset(ds'),
           ds'.ver \in {ds.ver, ds.ver + 1},
           ds'.status = "published" => ds'.ver > 0,
           DOMAIN slot' = Slots,
           \A s \in Slots : slot'[s] = slot[s] \/ Sound(slot'[s], ds'.ver),
           phase' \in {"boot", "up", "drain", "down", "refused"},
           DOMAIN fetcher' = {"pc", "url"}, fetcher'.pc \in {"idle", "resolve", "fetch"},
           wave' \in {"none", "next", "build", "drop"}, sched' \in {"none", "build"},
           Locks'
    PROVE  DataInv'
<1>1. /\ ds.ver \in Nat /\ ds'.ver \in Nat /\ ds'.ver >= ds.ver
      /\ acked \in 0 .. ds.ver /\ cache \subseteq 1 .. ds.ver
    BY DEF DataInv, Shaped, TypeOK
<1>2. Shaped'
    BY DEF DataInv, Shaped, Sound, Statuses
<1>3. TypeOK'
  <2>1. acked' \in 0 .. ds'.ver /\ cache' \subseteq 1 .. ds'.ver
      BY <1>1
  <2>2. \A s \in Slots : slot'[s].pc \in {"idle", "done"} \cup InFlight
      BY DEF DataInv, TypeOK, Sound
  <2>. QED
      BY <2>1, <2>2 DEF TypeOK, Locks, IsDataset, Statuses
<1>4. Steady'
    BY <1>1 DEF DataInv, Steady, Sound
<1>5. EntriesFresh'
    BY <1>1 DEF DataInv, EntriesFresh, Sound
<1>6. ExportFresh'
    BY DEF DataInv, ExportFresh, Sound
<1>. QED
    BY <1>2, <1>3, <1>4, <1>5, <1>6 DEF DataInv

\* A step of one request that leaves the dataset and the cache alone.
LEMMA SlotStep ==
    ASSUME DataInv, NEW s \in Slots, NEW x,
           slot' = [slot EXCEPT ![s] = x],
           UNCHANGED <<ds, cache, acked, overtaken, sched, phase, fetcher>>,
           WaveTaken,
           slot[s].pc \notin Building, x.pc \notin Building, Sound(x, ds.ver)
    PROVE  DataInv'
<1>1. /\ DOMAIN slot' = Slots /\ slot'[s] = x
      /\ \A y \in Slots : y # s => slot'[y] = slot[y]
    BY DEF DataInv, Shaped
<1>2. Locks'
    BY <1>1 DEF DataInv, TypeOK, Locks, WaveTaken
<1>3. \A y \in Slots : slot'[y] = slot[y] \/ Sound(slot'[y], ds'.ver)
    BY <1>1
<1>4. /\ phase' \in {"boot", "up", "drain", "down", "refused"}
      /\ fetcher'.pc \in {"idle", "resolve", "fetch"} /\ DOMAIN fetcher' = {"pc", "url"}
      /\ wave' \in {"none", "next", "build", "drop"} /\ sched' \in {"none", "build"}
    BY DEF DataInv, TypeOK, Shaped, WaveTaken
<1>5. /\ IsDataset(ds')
      /\ ds'.ver = ds.ver /\ (ds'.status = "published" => ds'.ver > 0)
    BY DEF DataInv, Shaped, Steady, Statuses
<1>. QED
    BY <1>1, <1>2, <1>3, <1>4, <1>5, DsStep

LEMMA ArriveData ==
    ASSUME DataInv, KeysPublished, NEW s \in Slots, NEW q, Arrive(s, q)
    PROVE  DataInv'
<1>1. PICK x : slot' = [slot EXCEPT ![s] = x] /\ Taken(q, x)
    BY ArriveIs DEF DataInv, Shaped
<1>2. WaveTaken
    BY ArriveIs DEF DataInv, Shaped
<1>3. /\ slot[s].pc \in {"idle", "done"}
      /\ UNCHANGED <<ds, cache, acked, overtaken, sched, phase, fetcher>>
    BY DEF Arrive, keyVars
<1>4. /\ ds.ver \in Nat /\ acked \in 0 .. ds.ver /\ cache \subseteq 1 .. ds.ver
      /\ ~overtaken => \A v \in cache : v >= acked
    BY DEF DataInv, TypeOK, EntriesFresh
<1>5. x.ver \in 0 .. ds.ver
  <2>1. \A v \in cache : v \in 0 .. ds.ver
      BY <1>4
  <2>2. x.ver = 0 \/ x.ver \in cache
      BY <1>1 DEF Taken
  <2>3. 0 \in 0 .. ds.ver
      BY <1>4
  <2>. QED
      BY <2>1, <2>2, <2>3, Zenon
<1>6. x.floor \in 0 .. ds.ver
    BY <1>1, <1>4 DEF Taken
<1>7. x.kind = "parquet" /\ x.ok /\ ~x.late => x.ver >= x.floor
    BY <1>1, <1>4 DEF Taken
<1>. QED
  <2>1. Sound(x, ds.ver) /\ x.pc \notin Building
      BY <1>1, <1>5, <1>6, <1>7 DEF Taken, Sound, InFlight, Waiting, Building
  <2>. QED
      BY <1>1, <1>2, <1>3, <2>1, SlotStep DEF Building

\* What ServedIs says of how a request goes on.
LEMMA ServedParts ==
    ASSUME NEW r, DOMAIN r = Fields, NEW d
    PROVE  LET a == Served(r, d) IN
           /\ DOMAIN a = Fields
           /\ a.kind = r.kind
           /\ a.ver = d.ver
           /\ a.floor = r.floor
           /\ r.kind = "parquet" => a.pc = "insert"
           /\ r.kind = "parquet" => a.ok = r.ok
           /\ r.kind # "parquet" => a.pc = "done" /\ a.ok \in BOOLEAN
<1>. DEFINE a == Served(r, d)
<1>1. DOMAIN a = Fields
    BY ServedIs
<1>2. a.kind = r.kind
    BY ServedIs
<1>3. a.ver = d.ver
    BY ServedIs
<1>4. a.floor = r.floor
    BY ServedIs
<1>5. r.kind = "parquet" => a.pc = "insert"
    BY ServedIs
<1>6. r.kind = "parquet" => a.ok = r.ok
    BY ServedIs
<1>7. r.kind # "parquet" => a.pc = "done" /\ a.ok \in BOOLEAN
    BY ServedIs
<1>. QED
    BY <1>1, <1>2, <1>3, <1>4, <1>5, <1>6, <1>7

\* The same of a request that is under way.
LEMMA ServedSound ==
    ASSUME DataInv, NEW s \in Slots, NEW d, d.ver \in {ds.ver, ds.ver + 1},
           d.ver > 0 \/ slot[s].kind # "parquet"
    PROVE  Sound(Served(slot[s], d), d.ver) /\ Served(slot[s], d).pc \in {"done", "insert"}
<1>1. PICK r : r = slot[s]
    OBVIOUS
<1>2. PICK v : v = d.ver
    OBVIOUS
<1>3. /\ DOMAIN r = Fields /\ r.ok \in BOOLEAN /\ v \in Nat /\ r.floor \in 0 .. v
      /\ v > 0 \/ r.kind # "parquet"
    BY <1>1, <1>2 DEF DataInv, Shaped, IsDataset, Steady
<1>4. DOMAIN r = Fields
    BY <1>3
<1>5. PICK x : /\ x = Served(r, d)
               /\ DOMAIN x = Fields
               /\ x.kind = r.kind
               /\ x.ver = v
               /\ x.floor = r.floor
               /\ r.kind = "parquet" => x.pc = "insert"
               /\ r.kind = "parquet" => x.ok = r.ok
               /\ r.kind # "parquet" => x.pc = "done" /\ x.ok \in BOOLEAN
    BY ONLY <1>2, <1>4, ServedParts, Zenon
<1>6. Sound(x, v) /\ x.pc \in {"done", "insert"}
    BY <1>3, <1>5 DEF Sound, InFlight
<1>. QED
    BY <1>1, <1>2, <1>5, <1>6

\* The same of a request that fails.
LEMMA FailedSound ==
    ASSUME DataInv, NEW s \in Slots, NEW v \in {ds.ver, ds.ver + 1}, NEW e
    PROVE  Sound(Failed(slot[s], e), v) /\ Failed(slot[s], e).pc = "done"
<1>. DEFINE r == slot[s]
            x == Failed(r, e)
<1>1. /\ DOMAIN r = Fields /\ v \in Nat /\ r.floor \in 0 .. v /\ r.ver \in 0 .. v
    BY DEF DataInv, Shaped, IsDataset, Steady
<1>2. /\ DOMAIN x = Fields /\ x.ver = r.ver /\ x.floor = r.floor
      /\ x.ok \in BOOLEAN /\ ~x.ok /\ x.pc = "done"
    BY <1>1, FailedIs
<1>. HIDE DEF x
<1>. QED
    BY <1>1, <1>2 DEF Sound, x

\* The same of a request that goes on to another step.
LEMMA GoesOnSound ==
    ASSUME DataInv, NEW s \in Slots, NEW pc \in InFlight \ {"insert"},
           pc \in {"lock", "rebuild", "drop"} => slot[s].kind = "reload"
    PROVE  LET x == [slot[s] EXCEPT !.pc = pc] IN Sound(x, ds.ver) /\ x.pc = pc
<1>. DEFINE r == slot[s]
            x == [r EXCEPT !.pc = pc]
<1>1. /\ DOMAIN r = Fields /\ r.ok \in BOOLEAN /\ ds.ver \in Nat
      /\ r.floor \in 0 .. ds.ver /\ r.ver \in 0 .. ds.ver
      /\ r.kind = "parquet" /\ r.ok /\ ~r.late => r.ver >= r.floor
    BY DEF DataInv, Shaped, IsDataset, Steady, ExportFresh
<1>2. /\ DOMAIN x = Fields /\ x.kind = r.kind /\ x.ver = r.ver /\ x.floor = r.floor
      /\ x.ok = r.ok /\ x.pc = pc /\ x.late = r.late
    BY <1>1 DEF Fields
<1>. HIDE DEF x
<1>. QED
    BY <1>1, <1>2 DEF Sound, x

\* The read of a request that finds the dataset published, or is SQL.
LEMMA RunData ==
    ASSUME DataInv, NEW s \in Slots, Run(s)
    PROVE  DataInv'
<1>. DEFINE r == slot[s]
<1>1. /\ r.pc = "run"
      /\ UNCHANGED <<ds, cache, acked, overtaken, sched, phase, fetcher>> /\ WaveTaken
    BY DEF Run, SlotOnly, keyVars, dataVars, WaveTaken
<1>2. \E x : slot' = [slot EXCEPT ![s] = x] /\ Sound(x, ds.ver) /\ x.pc \notin Building
  <2>1. CASE /\ r.kind = "sql" \/ ds.status = "published"
             /\ slot' = [slot EXCEPT ![s] = Served(r, ds)]
    <3>1. ds.ver > 0 \/ r.kind # "parquet"
        BY <2>1 DEF DataInv, Steady
    <3>. DEFINE x == Served(r, ds)
    <3>2. Sound(x, ds.ver) /\ x.pc \in {"done", "insert"}
        BY <3>1, ServedSound
    <3>. HIDE DEF x
    <3>3. slot' = [slot EXCEPT ![s] = x]
        BY <2>1 DEF x
    <3>. QED
        BY <3>2, <3>3 DEF Building
  <2>2. CASE slot' = [slot EXCEPT ![s] = [r EXCEPT !.pc = "touch"]]
    <3>. DEFINE x == [r EXCEPT !.pc = "touch"]
    <3>1. Sound(x, ds.ver) /\ x.pc = "touch"
        BY GoesOnSound DEF InFlight, Waiting
    <3>. HIDE DEF x
    <3>2. slot' = [slot EXCEPT ![s] = x]
        BY <2>2 DEF x
    <3>. QED
        BY <3>1, <3>2 DEF Building
  <2>3. CASE slot' = [slot EXCEPT ![s] = Failed(r, "NotReady")]
      BY <2>3, FailedSound DEF Building
  <2>. QED
      BY <2>1, <2>2, <2>3 DEF Run, SlotOnly
<1>. QED
    BY <1>1, <1>2, SlotStep DEF Building

\* What every step below starts from.
LEMMA Facts ==
    ASSUME DataInv
    PROVE  /\ DOMAIN slot = Slots
           /\ \A s \in Slots : DOMAIN slot[s] = Fields
           /\ ds.ver \in Nat /\ (ds.status = "published" => ds.ver > 0)
           /\ IsDataset(ds)
           /\ phase \in {"boot", "up", "drain", "down", "refused"}
           /\ DOMAIN fetcher = {"pc", "url"} /\ fetcher.pc \in {"idle", "resolve", "fetch"}
           /\ wave \in {"none", "next", "build", "drop"} /\ sched \in {"none", "build"}
           /\ Locks
           /\ "wave" \notin Slots /\ "sched" \notin Slots /\ "none" \notin Slots
    BY SlotsAssumption DEF DataInv, Shaped, Steady, TypeOK, Locks, Statuses

\* first_touch_build: the mutex, and a second look.
LEMMA TouchData ==
    ASSUME DataInv, NEW s \in Slots, Touch(s)
    PROVE  DataInv'
<1>. DEFINE r == slot[s]
<1>1. CASE ds.status = "published" /\ SlotOnly(s, Served(r, ds))
  <2>1. ds.ver > 0
      BY <1>1, Facts
  <2>2. Sound(Served(r, ds), ds.ver) /\ Served(r, ds).pc \notin Building
      BY <2>1, ServedSound DEF Building
  <2>3. /\ r.pc = "touch"
        /\ UNCHANGED <<ds, cache, acked, overtaken, sched, phase, fetcher>> /\ WaveTaken
        /\ slot' = [slot EXCEPT ![s] = Served(r, ds)]
      BY <1>1 DEF Touch, SlotOnly, keyVars, dataVars, WaveTaken
  <2>. QED
      BY <2>2, <2>3, SlotStep DEF Building
<1>2. CASE /\ Hold(s) /\ slot' = [slot EXCEPT ![s].pc = "build"]
           /\ UNCHANGED <<scn, phase, keyVars, cache, wave, sched, acked, overtaken, left>>
  <2>1. /\ DOMAIN slot' = Slots /\ slot'[s] = [r EXCEPT !.pc = "build"]
        /\ \A y \in Slots : y # s => slot'[y] = slot[y]
      BY <1>2, Facts
  <2>2. Sound(slot'[s], ds.ver) /\ slot'[s].pc = "build"
      BY <2>1, GoesOnSound DEF InFlight, Building
  <2>3. /\ IsDataset(ds')
        /\ ds'.lock = s /\ ds'.status = "building" /\ ds'.ver = ds.ver
      BY <1>2, HoldIs DEF DataInv
  <2>4. Locks'
      BY <1>2, <2>1, <2>2, <2>3, Facts DEF Locks, Touch, Free, Building
  <2>5. UNCHANGED <<cache, acked, overtaken, phase, fetcher, wave, sched>>
      BY <1>2 DEF keyVars
  <2>. QED
      BY <2>1, <2>2, <2>3, <2>4, <2>5, Facts, DsStep
<1>. QED
    BY <1>1, <1>2 DEF Touch

LEMMA TouchEndData ==
    ASSUME DataInv, NEW s \in Slots, TouchEnd(s)
    PROVE  DataInv'
<1>. DEFINE r == slot[s]
<1>1. r.pc = "build" /\ UNCHANGED <<cache, acked, overtaken, phase, fetcher, wave, sched>>
    BY DEF TouchEnd, keyVars
<1>2. /\ IsDataset(ds') /\ ds'.lock = "none" /\ ds'.ver \in {ds.ver, ds.ver + 1}
      /\ ds'.status = "published" => ds'.ver > 0
      /\ \E x : slot' = [slot EXCEPT ![s] = x] /\ Sound(x, ds'.ver) /\ x.pc \notin Building
  <2>1. CASE Publish /\ slot' = [slot EXCEPT ![s] = Served(r, ds')]
    <3>1. /\ IsDataset(ds') /\ ds'.lock = "none" /\ ds'.ver = ds.ver + 1
          /\ ds'.status = "published"
        BY <2>1, PublishIs DEF DataInv
    <3>2. ds'.ver > 0
        BY <3>1, Facts
    <3>3. Sound(Served(r, ds'), ds'.ver) /\ Served(r, ds').pc \notin Building
        BY <3>1, <3>2, ServedSound DEF Building
    <3>. QED
        BY <2>1, <3>1, <3>2, <3>3
  <2>2. CASE /\ ds' = [ds EXCEPT !.lock = "none", !.status = "failed"]
             /\ slot' = [slot EXCEPT ![s] = Failed(r, "Internal")]
    <3>1. /\ IsDataset(ds') /\ ds'.lock = "none" /\ ds'.ver = ds.ver
          /\ ds'.status = "failed"
        BY <2>2, ReleaseIs DEF DataInv, Statuses
    <3>2. Sound(Failed(r, "Internal"), ds.ver) /\ Failed(r, "Internal").pc \notin Building
        BY FailedSound DEF Building
    <3>. QED
        BY <2>2, <3>1, <3>2
  <2>. QED
      BY <2>1, <2>2 DEF TouchEnd
<1>4. PICK x : slot' = [slot EXCEPT ![s] = x] /\ Sound(x, ds'.ver) /\ x.pc \notin Building
    BY <1>2
<1>5. /\ DOMAIN slot' = Slots /\ slot'[s] = x
      /\ \A y \in Slots : y # s => slot'[y] = slot[y]
    BY <1>4, Facts
<1>6. Locks'
    BY <1>1, <1>2, <1>4, <1>5, Facts DEF Locks, Building, Jobs
<1>. QED
    BY <1>1, <1>2, <1>4, <1>5, <1>6, Facts, DsStep

\* The export enters the cache: no older than the last acknowledged reload,
\* unless overtaken says so.
LEMMA InsertData ==
    ASSUME DataInv, NEW s \in Slots, Insert(s)
    PROVE  DataInv'
<1>. DEFINE r == slot[s]
            x == Answer(r, 200, TRUE)
<1>1. /\ r.pc = "insert" /\ cache' = {r.ver} /\ slot' = [slot EXCEPT ![s] = x]
      /\ UNCHANGED <<ds, acked, overtaken, phase, fetcher, wave, sched>>
    BY DEF Insert, keyVars
<1>2. /\ DOMAIN x = Fields /\ x.pc = "done" /\ x.ok \in BOOLEAN /\ x.kind = r.kind
      /\ x.ver = r.ver /\ x.floor = r.floor
    BY Facts DEF Answer, Fields
<1>. HIDE DEF x
<1>3. /\ DOMAIN slot' = Slots /\ slot'[s] = x
      /\ \A y \in Slots : y # s => slot'[y] = slot[y]
    BY <1>1, Facts
<1>4. /\ r.ver \in 1 .. ds.ver /\ r.ver >= r.floor
      /\ ~overtaken => r.ver >= acked
    BY <1>1, Facts DEF DataInv, Steady, EntriesFresh
<1>5. Shaped'
    BY <1>1, <1>2, <1>3 DEF DataInv, Shaped
<1>6. TypeOK'
    BY <1>1, <1>2, <1>3, <1>4, Facts DEF DataInv, TypeOK, Building
<1>7. Steady'
    BY <1>1, <1>2, <1>3, Facts DEF DataInv, Steady
<1>8. EntriesFresh'
    BY <1>1, <1>2, <1>3, <1>4 DEF DataInv, EntriesFresh
<1>9. ExportFresh'
    BY <1>2, <1>3, <1>4 DEF DataInv, ExportFresh
<1>. QED
    BY <1>5, <1>6, <1>7, <1>8, <1>9 DEF DataInv

LEMMA LockData ==
    ASSUME DataInv, NEW s \in Slots, Lock(s)
    PROVE  DataInv'
<1>. DEFINE r == slot[s]
<1>1. /\ Hold(s) /\ slot' = [slot EXCEPT ![s].pc = "rebuild"]
      /\ ds.lock = "none" /\ r.pc = "lock"
      /\ UNCHANGED <<cache, acked, overtaken, phase, fetcher, wave, sched>>
    BY DEF Lock, keyVars, Free
<1>2. /\ DOMAIN slot' = Slots /\ slot'[s] = [r EXCEPT !.pc = "rebuild"]
      /\ \A y \in Slots : y # s => slot'[y] = slot[y]
    BY <1>1, Facts
<1>3. r.kind = "reload"
    BY <1>1 DEF DataInv, Steady
<1>4. Sound(slot'[s], ds.ver) /\ slot'[s].pc = "rebuild"
    BY <1>2, <1>3, GoesOnSound DEF InFlight, Building
<1>5. /\ IsDataset(ds')
      /\ ds'.lock = s /\ ds'.status = "building" /\ ds'.ver = ds.ver
    BY <1>1, HoldIs DEF DataInv
<1>6. Locks'
    BY <1>1, <1>2, <1>4, <1>5, Facts DEF Locks, Building
<1>. QED
    BY <1>1, <1>2, <1>4, <1>5, <1>6, Facts, DsStep

\* A rebuild ends: what EndRebuildIs says, and the mutex is free.
LEMMA RebuiltData ==
    ASSUME DataInv, NEW s \in Slots, Rebuilt(s)
    PROVE  DataInv'
<1>. DEFINE r == slot[s]
<1>1. r.pc = "rebuild" /\ UNCHANGED <<cache, acked, overtaken, phase, fetcher, wave, sched>>
    BY DEF Rebuilt, keyVars
<1>2. r.kind = "reload"
    BY <1>1 DEF DataInv, Steady
<1>3. PICK o \in {"ok", "err"} :
        /\ EndRebuild(o)
        /\ \/ o = "ok" /\ slot' = [slot EXCEPT ![s].pc = "drop", ![s].ver = ds.ver + 1]
           \/ o = "err" /\ slot' = [slot EXCEPT ![s] = Failed(r, "Internal")]
    BY DEF Rebuilt
<1>4. /\ IsDataset(ds')
      /\ ds'.lock = "none"
      /\ ds'.ver = IF o = "ok" THEN ds.ver + 1 ELSE ds.ver
      /\ ds'.status = "published" => ds'.ver > 0 \/ ds.status = "published"
    BY <1>3, EndRebuildIs DEF DataInv
<1>5. \E x : slot' = [slot EXCEPT ![s] = x] /\ Sound(x, ds'.ver) /\ x.pc \notin Building
  <2>1. CASE o = "ok"
    <3>. DEFINE v == ds.ver + 1
                x == [r EXCEPT !.pc = "drop", !.ver = v]
    <3>1. v \in Nat /\ r.floor \in 0 .. v /\ DOMAIN r = Fields /\ r.ok \in BOOLEAN
        BY Facts DEF DataInv, Shaped, Steady
    <3>2. slot' = [slot EXCEPT ![s] = x]
        BY <1>3, <2>1, Facts
    <3>. HIDE DEF v
    <3>3. /\ DOMAIN x = Fields /\ x.pc = "drop" /\ x.ver = v /\ x.floor = r.floor
          /\ x.kind = r.kind /\ x.ok = r.ok
        BY <3>1 DEF Fields
    <3>. HIDE DEF x
    <3>4. Sound(x, v)
        BY <1>2, <3>1, <3>3 DEF Sound, InFlight
    <3>. QED
        BY <1>4, <2>1, <3>2, <3>3, <3>4 DEF Building, v
  <2>2. CASE o = "err"
    <3>1. Sound(Failed(r, "Internal"), ds.ver) /\ Failed(r, "Internal").pc \notin Building
        BY FailedSound DEF Building
    <3>. QED
        BY <1>3, <1>4, <2>2, <3>1
  <2>. QED
      BY <2>1, <2>2
<1>6. PICK x : slot' = [slot EXCEPT ![s] = x] /\ Sound(x, ds'.ver) /\ x.pc \notin Building
    BY <1>5
<1>7. /\ DOMAIN slot' = Slots /\ slot'[s] = x
      /\ \A y \in Slots : y # s => slot'[y] = slot[y]
    BY <1>6, Facts
<1>8. Locks'
    BY <1>1, <1>4, <1>6, <1>7, Facts DEF Locks, Building, Jobs
<1>9. ds'.ver \in {ds.ver, ds.ver + 1} /\ (ds'.status = "published" => ds'.ver > 0)
    BY <1>4, Facts
<1>. QED
    BY <1>1, <1>4, <1>6, <1>7, <1>8, <1>9, Facts, DsStep

\* The entry goes, and what is not overtaken is as new as the reload.
LEMMA InvalidateData ==
    ASSUME DataInv, NEW a, a \in 0 .. ds.ver, a >= acked, acked' = a, Invalidate,
           UNCHANGED <<ds, phase, fetcher, sched>>,
           wave' \in {"none", "next", "build", "drop"}, wave' = "build" <=> wave = "build",
           DOMAIN slot' = Slots,
           \A s \in Slots : \/ slot'[s] = slot[s]
                            \/ /\ Sound(slot'[s], ds.ver) /\ slot'[s].pc = "done"
                               /\ slot[s].pc \notin Building
    PROVE  DataInv'
<1>1. cache' = {} /\ overtaken' \in BOOLEAN
      /\ (overtaken' <=> \E s \in Slots : slot[s].pc = "insert" /\ slot[s].ver < a)
    BY DEF Invalidate, OlderExport
<1>2. Shaped'
    BY <1>1 DEF DataInv, Shaped, Sound
<1>3. TypeOK'
    BY <1>1, Facts DEF DataInv, TypeOK, Sound, Building
<1>4. Steady'
    BY <1>1 DEF DataInv, Steady, Sound
<1>5. EntriesFresh'
  <2>1. \A s \in Slots : slot'[s].pc = "insert" => slot'[s] = slot[s]
      OBVIOUS
  <2>2. \A s \in Slots : slot[s].ver \in Nat
      BY Facts DEF DataInv, Steady
  <2>. QED
      BY <1>1, <2>1, <2>2 DEF EntriesFresh
<1>6. ExportFresh'
    BY DEF DataInv, ExportFresh, Sound
<1>. QED
    BY <1>2, <1>3, <1>4, <1>5, <1>6 DEF DataInv

LEMMA DropData ==
    ASSUME DataInv, NEW s \in Slots, Drop(s)
    PROVE  DataInv'
<1>. DEFINE r == slot[s]
            x == Answer(r, 200, TRUE)
<1>1. /\ r.pc = "drop" /\ acked' = Max({acked, r.ver}) /\ Invalidate
      /\ slot' = [slot EXCEPT ![s] = x]
      /\ UNCHANGED <<ds, phase, fetcher, wave, sched>>
    BY DEF Drop, keyVars
<1>2. /\ DOMAIN x = Fields /\ x.pc = "done" /\ x.ok \in BOOLEAN /\ x.kind = r.kind
      /\ x.ver = r.ver /\ x.floor = r.floor
    BY Facts DEF Answer, Fields
<1>. HIDE DEF x
<1>3. /\ r.kind = "reload" /\ r.ver \in 0 .. ds.ver /\ r.floor \in 0 .. ds.ver
      /\ acked \in 0 .. ds.ver /\ ds.ver \in Nat
    BY <1>1 DEF DataInv, Steady, TypeOK
<1>4. acked' \in 0 .. ds.ver /\ acked' >= acked
    BY <1>1, <1>3, MaxIs
<1>5. /\ DOMAIN slot' = Slots /\ slot'[s] = x
      /\ \A y \in Slots : y # s => slot'[y] = slot[y]
    BY <1>1, Facts
<1>6. Sound(x, ds.ver)
    BY <1>2, <1>3 DEF Sound
<1>7. wave \in {"none", "next", "build", "drop"} /\ r.pc \notin Building
    BY <1>1, Facts DEF Building
<1>. QED
    BY <1>1, <1>2, <1>4, <1>5, <1>6, <1>7, InvalidateData

LEMMA WaveDropData ==
    ASSUME DataInv, WaveDrop
    PROVE  DataInv'
<1>1. acked \in 0 .. ds.ver /\ acked >= acked
    BY DEF DataInv, TypeOK
<1>2. /\ wave = "drop" /\ wave' = "none" /\ Invalidate
      /\ UNCHANGED <<acked, ds, phase, fetcher, sched, slot>>
    BY DEF WaveDrop, keyVars
<1>. QED
    BY <1>1, <1>2, Facts, InvalidateData

\* A step of a job: the wave or the scheduler.
LEMMA JobData ==
    ASSUME DataInv, WaveNext \/ WaveBuilt \/ SchedStart \/ SchedEnd
    PROVE  DataInv'
<1>1. UNCHANGED <<cache, acked, overtaken, phase, fetcher, slot>>
    BY DEF WaveNext, WaveBuilt, SchedStart, SchedEnd, keyVars
<1>2. CASE \E b \in Jobs : /\ Hold(b) /\ ds.lock = "none"
                           /\ \/ b = "wave" /\ wave' = "build" /\ UNCHANGED sched
                              \/ b = "sched" /\ sched' = "build" /\ UNCHANGED wave
  <2>1. PICK b \in Jobs : /\ Hold(b) /\ ds.lock = "none"
                          /\ \/ b = "wave" /\ wave' = "build" /\ UNCHANGED sched
                             \/ b = "sched" /\ sched' = "build" /\ UNCHANGED wave
      BY <1>2
  <2>2. /\ IsDataset(ds')
        /\ ds'.lock = b /\ ds'.status = "building" /\ ds'.ver = ds.ver
      BY <2>1, HoldIs DEF DataInv
  <2>3. Locks'
      BY <1>1, <2>1, <2>2, Facts DEF Locks, Jobs
  <2>. QED
      BY <1>1, <2>1, <2>2, <2>3, Facts, DsStep
<1>3. CASE \E o \in {"ok", "err", "dropped"} :
             /\ EndRebuild(o)
             /\ \/ wave = "build" /\ wave' \in {"none", "drop"} /\ UNCHANGED sched
                \/ sched = "build" /\ sched' = "none" /\ UNCHANGED wave
  <2>1. PICK o \in {"ok", "err", "dropped"} :
             /\ EndRebuild(o)
             /\ \/ wave = "build" /\ wave' \in {"none", "drop"} /\ UNCHANGED sched
                \/ sched = "build" /\ sched' = "none" /\ UNCHANGED wave
      BY <1>3
  <2>2. /\ IsDataset(ds')
        /\ ds'.lock = "none"
        /\ ds'.ver = IF o = "ok" THEN ds.ver + 1 ELSE ds.ver
        /\ ds'.status = "published" => ds'.ver > 0 \/ ds.status = "published"
      BY <2>1, EndRebuildIs DEF DataInv
  <2>3. ds'.ver \in {ds.ver, ds.ver + 1} /\ (ds'.status = "published" => ds'.ver > 0)
      BY <2>2, Facts
  <2>4. Locks'
      BY <1>1, <2>1, <2>2, Facts DEF Locks, Jobs
  <2>. QED
      BY <1>1, <2>1, <2>2, <2>3, <2>4, Facts, DsStep
<1>4. CASE wave = "next" /\ wave' = "none" /\ UNCHANGED <<ds, sched>>
  <2>1. Locks'
      BY <1>1, <1>4, Facts DEF Locks
  <2>. QED
      BY <1>1, <1>4, <2>1, Facts, DsStep
<1>. QED
  <2>1. CASE WaveNext
      BY <1>2, <1>4, <2>1 DEF WaveNext, Free, Jobs
  <2>2. CASE WaveBuilt
      BY <1>3, <2>2 DEF WaveBuilt
  <2>3. CASE SchedStart
      BY <1>2, <2>3 DEF SchedStart, Free, Jobs
  <2>4. CASE SchedEnd
      BY <1>3, <2>4 DEF SchedEnd
  <2>. QED
      BY <2>1, <2>2, <2>3, <2>4

\* The timeout ends a request and takes its guard of the mutex with it.
LEMMA TimeOutData ==
    ASSUME DataInv, NEW s \in Slots, TimeOut(s)
    PROVE  DataInv'
<1>. DEFINE r == slot[s]
<1>1. /\ ds' = [ds EXCEPT !.lock = IF @ = s THEN "none" ELSE @]
      /\ UNCHANGED <<cache, acked, overtaken, phase, fetcher, wave, sched>>
    BY DEF TimeOut, keyVars
<1>2. PICK code : slot' = [slot EXCEPT ![s] = Answer(r, code, FALSE)]
    BY ZenonT(40) DEF TimeOut
<1>. DEFINE x == Answer(r, code, FALSE)
<1>3. /\ DOMAIN x = Fields /\ x.pc = "done" /\ x.ok \in BOOLEAN /\ ~x.ok
      /\ x.ver = r.ver /\ x.floor = r.floor
    BY Facts DEF Answer, Fields
<1>. HIDE DEF x
<1>4. /\ DOMAIN slot' = Slots /\ slot'[s] = x
      /\ \A y \in Slots : y # s => slot'[y] = slot[y]
    BY <1>2, Facts DEF x
<1>5. Sound(x, ds.ver)
    BY <1>3, Facts DEF DataInv, Steady, Sound
<1>6. /\ IsDataset(ds')
      /\ ds'.lock = (IF ds.lock = s THEN "none" ELSE ds.lock)
      /\ ds'.ver = ds.ver /\ ds'.status = ds.status
    BY <1>1, Facts DEF IsDataset
<1>7. Locks'
    BY <1>1, <1>3, <1>4, <1>6, Facts DEF Locks, Building
<1>. QED
    BY <1>1, <1>4, <1>5, <1>6, <1>7, Facts, DsStep

LEMMA StopData ==
    ASSUME DataInv, Stop
    PROVE  DataInv'
<1>1. /\ phase' = "down" /\ wave' = "none" /\ sched' = "none"
      /\ ds' = [ds EXCEPT !.lock = "none"] /\ fetcher' = [pc |-> "idle", url |-> "none"]
      /\ UNCHANGED <<cache, acked, overtaken>>
    BY DEF Stop
<1>2. /\ DOMAIN slot' = Slots
      /\ \A s \in Slots : slot'[s] = IF slot[s].pc \in InFlight THEN NoRequest ELSE slot[s]
    BY DEF Stop
<1>3. Sound(NoRequest, ds.ver) /\ NoRequest.pc = "idle"
    BY Facts DEF NoRequest, Sound, Fields
<1>4. /\ IsDataset(ds')
      /\ ds'.lock = "none" /\ ds'.ver = ds.ver /\ ds'.status = ds.status
    BY <1>1, Facts DEF IsDataset
<1>5. Locks'
    BY <1>1, <1>2, <1>3, <1>4, Facts DEF Locks, Building, InFlight
<1>6. DOMAIN fetcher' = {"pc", "url"} /\ fetcher'.pc = "idle"
    BY <1>1
<1>. QED
    BY <1>1, <1>2, <1>3, <1>4, <1>5, <1>6, Facts, DsStep

\* The keys and the signal leave the data alone.
LEMMA KeysData ==
    ASSUME DataInv, Keys \/ IssuerChanges \/ Signal
    PROVE  DataInv'
<1>1. UNCHANGED <<ds, cache, acked, overtaken, wave, sched, slot>>
    BY DEF Keys, Tick, Resolve, FetchEnd, IssuerChanges, Signal, dataVars
<1>2. phase' \in {"boot", "up", "drain", "down", "refused"}
    BY Facts DEF Keys, Tick, Resolve, FetchEnd, IssuerChanges, Signal
<1>3. DOMAIN fetcher' = {"pc", "url"} /\ fetcher'.pc \in {"idle", "resolve", "fetch"}
  <2>1. CASE Tick
    <3>1. fetcher' = [fetcher EXCEPT !.pc = "resolve"]
        BY <2>1 DEF Tick
    <3>. QED
        BY <3>1, Facts
  <2>2. CASE Resolve
    <3>1. \E u : fetcher' = [pc |-> "fetch", url |-> u]
        BY <2>2 DEF Resolve, Fetch
    <3>. QED
        BY <3>1
  <2>3. CASE FetchEnd
    <3>1. fetcher' = [pc |-> "idle", url |-> "none"]
        BY <2>3 DEF FetchEnd
    <3>. QED
        BY <3>1
  <2>4. CASE IssuerChanges \/ Signal
      BY <2>4, Facts DEF IssuerChanges, Signal, keyVars
  <2>. QED
      BY <2>1, <2>2, <2>3, <2>4 DEF Keys
<1>4. Locks'
    BY <1>1, Facts DEF Locks
<1>. QED
    BY <1>1, <1>2, <1>3, <1>4, Facts, DsStep

\* Every step keeps the data in order.
LEMMA NextData ==
    ASSUME DataInv, KeysPublished, [Next]_vars
    PROVE  DataInv'
<1>1. ASSUME NEW s \in Slots, NEW q, Arrive(s, q) PROVE DataInv'
    BY <1>1, ArriveData
<1>2. ASSUME NEW s \in Slots, Steps(s) \/ TimeOut(s) PROVE DataInv'
    BY <1>2, RunData, TouchData, TouchEndData, InsertData, LockData, RebuiltData,
       DropData, TimeOutData DEF Steps
<1>3. CASE Keys \/ IssuerChanges \/ Signal
    BY <1>3, KeysData
<1>4. CASE Background \/ SchedStart
    BY <1>4, JobData, WaveDropData DEF Background
<1>5. CASE Stop
    BY <1>5, StopData
<1>6. CASE UNCHANGED vars
  <2>1. /\ UNCHANGED <<ds, cache, acked, overtaken, wave, sched, slot, phase, fetcher>>
      BY <1>6 DEF vars, dataVars, keyVars
  <2>2. Locks'
      BY <2>1, Facts DEF Locks
  <2>. QED
      BY <2>1, <2>2, Facts, DsStep
<1>. QED
    BY <1>1, <1>2, <1>3, <1>4, <1>5, <1>6 DEF Next

LEMMA InitData ==
    ASSUME Init
    PROVE  DataInv
<1>1. /\ \A s \in Slots : slot[s] = NoRequest /\ slot[s].pc = "idle" /\ slot[s].ver = 0
              /\ slot[s].floor = 0 /\ slot[s].ok = FALSE /\ slot[s].kind = "none"
              /\ DOMAIN slot[s] = Fields
      /\ DOMAIN slot = Slots
    BY DEF Init, NoRequest, Fields
<1>2. /\ ds \in Start(srv.schemas) /\ (ds.status = "published" => ds.ver > 0)
    BY ScenariosAssumption DEF Init, srv
<1>6. IsDataset(ds) /\ ds.lock = "none"
    BY <1>2 DEF Start, IsDataset, Statuses
<1>3. Shaped
    BY <1>1, <1>6 DEF Init, Shaped
<1>4. TypeOK
    BY <1>1, <1>6, SlotsAssumption DEF Init, TypeOK, IsDataset, Statuses, Building, Jobs
<1>5. Steady /\ EntriesFresh /\ ExportFresh
    BY <1>1, <1>2, <1>6 DEF Init, Steady, EntriesFresh, ExportFresh, IsDataset
<1>. QED
    BY <1>3, <1>4, <1>5 DEF DataInv

-----------------------------------------------------------------------------
(***************************************************************************)
(* The keys, and who is answered.                                          *)
(***************************************************************************)
LEMMA NextKeys ==
    ASSUME KeysPublished, [Next]_vars
    PROVE  KeysPublished' /\ scn' = scn /\ issued \subseteq issued'
<1>1. CASE UNCHANGED <<scn, issuer, issued, jwks>>
    BY <1>1 DEF KeysPublished
<1>2. CASE FetchEnd
    BY <1>2 DEF FetchEnd, KeysPublished
<1>3. CASE IssuerChanges
    BY <1>3 DEF IssuerChanges, KeysPublished
<1>4. ASSUME NEW s \in Slots, Steps(s) \/ TimeOut(s) \/ \E q : Arrive(s, q)
      PROVE  UNCHANGED <<scn, issuer, issued, jwks>>
    BY <1>4 DEF Steps, Run, Touch, TouchEnd, Insert, Lock, Rebuilt, Drop, TimeOut, Arrive,
                SlotOnly, keyVars
<1>5. ASSUME Tick \/ Resolve \/ Background \/ SchedStart \/ Signal \/ Stop \/ UNCHANGED vars
      PROVE  UNCHANGED <<scn, issuer, issued, jwks>>
    BY <1>5 DEF Tick, Resolve, Background, WaveNext, WaveBuilt, WaveDrop, SchedStart,
                SchedEnd, Signal, Stop, vars, keyVars
<1>. QED
    BY <1>1, <1>2, <1>3, <1>4, <1>5 DEF Next, Keys

\* Keys the issuer has published stay published: who was admitted stays so.
LEMMA AdmittedStays ==
    ASSUME NEW q, Admitted(q), scn' = scn, issued \subseteq issued'
    PROVE  Admitted(q)'
<1>1. \A scopes : Genuine(q, scopes) => Genuine(q, scopes)'
    BY DEF Genuine, srv
<1>2. srv' = srv
    BY DEF srv
<1>. QED
    BY <1>1, <1>2 DEF Admitted, Entitled, MayAdmin, MayRead, Permitted, IsAdmin

\* A step of a request under way changes its slot and keeps what was asked; it
\* may read the layout that is published then.
Kept(x, r) == Same(x, r) /\ x.uses \in {r.uses, Reads(r, schema')}

LEMMA ServedKeeps ==
    ASSUME NEW r, DOMAIN r = Fields, NEW d
    PROVE  Same(Served(r, d), r) /\ Served(r, d).uses = Reads(r, d.schema)
<1>1. Served(r, d).q = r.q
    BY ServedIs
<1>2. Served(r, d).kind = r.kind
    BY ServedIs
<1>3. Served(r, d).seen = r.seen
    BY ServedIs
<1>4. Served(r, d).asked = r.asked
    BY ServedIs
<1>5. Served(r, d).uses = Reads(r, d.schema)
    BY ServedIs
<1>. QED
    BY <1>1, <1>2, <1>3, <1>4, <1>5 DEF Same

LEMMA StepsKeep ==
    ASSUME DataInv, NEW s \in Slots, Steps(s) \/ TimeOut(s)
    PROVE  /\ slot[s].pc \in InFlight
           /\ \E x : slot' = [slot EXCEPT ![s] = x] /\ Kept(x, slot[s])
<1>. DEFINE r == slot[s]
            Goal == \E x : slot' = [slot EXCEPT ![s] = x] /\ Kept(x, r)
<1>1. r.pc \in InFlight
    BY DEF Steps, Run, Touch, TouchEnd, Insert, Lock, Rebuilt, Drop, TimeOut,
           InFlight, Waiting, Building
<1>. SUFFICES Goal
    BY <1>1
<1>2. DOMAIN r = Fields /\ DOMAIN slot = Slots
    BY Facts
<1>3. ASSUME NEW d, d.schema = schema', slot' = [slot EXCEPT ![s] = Served(r, d)]
      PROVE  Goal
  <2>1. Same(Served(r, d), r) /\ Served(r, d).uses = Reads(r, d.schema)
      BY <1>2, ServedKeeps
  <2>. QED
      BY <1>3, <2>1 DEF Kept
<1>4. ASSUME NEW e, slot' = [slot EXCEPT ![s] = Failed(r, e)]
      PROVE  Goal
  <2>1. Same(Failed(r, e), r) /\ Failed(r, e).uses = r.uses
      BY <1>2, FailedIs DEF Same
  <2>. QED
      BY <1>4, <2>1 DEF Kept
<1>5. ASSUME NEW code, NEW ok, slot' = [slot EXCEPT ![s] = Answer(r, code, ok)]
      PROVE  Goal
  <2>1. Same(Answer(r, code, ok), r) /\ Answer(r, code, ok).uses = r.uses
      BY <1>2, AnswerIs DEF Same
  <2>. QED
      BY <1>5, <2>1 DEF Kept
<1>6. ASSUME NEW pc, slot' = [slot EXCEPT ![s] = [r EXCEPT !.pc = pc]]
      PROVE  Goal
  <2>. DEFINE x == [r EXCEPT !.pc = pc]
  <2>1. Same(x, r) /\ x.uses = r.uses
      BY <1>2 DEF Fields, Same
  <2>. HIDE DEF x
  <2>2. slot' = [slot EXCEPT ![s] = x]
      BY <1>6 DEF x
  <2>. QED
      BY <2>1, <2>2 DEF Kept
<1>d. UNCHANGED dataVars => ds.schema = schema'
    BY DEF dataVars, schema
<1>. HIDE DEF Goal
<1>7. CASE Run(s)
    BY <1>d, <1>3, <1>4, <1>6, <1>7 DEF Run, SlotOnly
<1>8. CASE Touch(s)
  <2>1. CASE slot' = [slot EXCEPT ![s].pc = "build"]
    <3>1. slot' = [slot EXCEPT ![s] = [r EXCEPT !.pc = "build"]]
        BY <2>1, <1>2
    <3>. QED
        BY <1>6, <3>1
  <2>. QED
      BY <1>d, <1>3, <1>8, <2>1 DEF Touch, SlotOnly
<1>9. CASE TouchEnd(s)
  <2>1. ds'.schema = schema'
      BY DEF schema
  <2>. QED
      BY <1>3, <1>4, <1>9, <2>1 DEF TouchEnd
<1>10. CASE Insert(s) \/ Drop(s)
  <2>1. slot' = [slot EXCEPT ![s] = Answer(r, 200, TRUE)]
      BY <1>10 DEF Insert, Drop
  <2>. QED
      BY <1>5, <2>1
<1>11. CASE Lock(s)
  <2>1. slot' = [slot EXCEPT ![s] = [r EXCEPT !.pc = "rebuild"]]
      BY <1>2, <1>11 DEF Lock
  <2>. QED
      BY <1>6, <2>1
<1>12. CASE Rebuilt(s)
  <2>1. CASE slot' = [slot EXCEPT ![s].pc = "drop", ![s].ver = ds.ver + 1]
    <3>. DEFINE x == [r EXCEPT !.pc = "drop", !.ver = ds.ver + 1]
    <3>1. slot' = [slot EXCEPT ![s] = x]
        BY <2>1, <1>2
    <3>2. Same(x, r) /\ x.uses = r.uses
        BY <1>2 DEF Fields, Same
    <3>. HIDE DEF x
    <3>. QED
        BY <3>1, <3>2 DEF Goal, Kept
  <2>. QED
      BY <1>4, <1>12, <2>1 DEF Rebuilt
<1>13. CASE TimeOut(s)
  <2>1. PICK code : slot' = [slot EXCEPT ![s] = Answer(r, code, FALSE)]
      BY <1>13, ZenonT(40) DEF TimeOut
  <2>. QED
      BY <1>5, <2>1
<1>. QED
    BY <1>7, <1>8, <1>9, <1>10, <1>11, <1>12, <1>13 DEF Steps

\* Only an arrival brings a request past the guards: other steps take what is
\* in the slot already.
LEMMA SlotKept ==
    ASSUME DataInv, KeysPublished, NEW s \in Slots, [Next]_vars,
           slot'[s].pc \in InFlight \/ slot'[s].ok
    PROVE  \/ \E q \in Scenarios[scn].requests : Arrive(s, q)
           \/ slot'[s] = slot[s]
           \/ Kept(slot'[s], slot[s]) /\ slot[s].pc \in InFlight
<1>1. CASE slot'[s] = slot[s]
    BY <1>1
<1>2. ASSUME NEW t \in Slots, NEW q, Arrive(t, q)
      PROVE  t = s \/ slot'[s] = slot[s]
  <2>1. \E x : slot' = [slot EXCEPT ![t] = x]
      BY <1>2, ArriveIs DEF DataInv, Shaped
  <2>. QED
      BY <2>1, Facts
<1>3. ASSUME NEW t \in Slots, Steps(t) \/ TimeOut(t)
      PROVE  \/ slot'[s] = slot[s]
             \/ Kept(slot'[s], slot[s]) /\ slot[s].pc \in InFlight
  <2>1. PICK x : slot' = [slot EXCEPT ![t] = x] /\ Kept(x, slot[t])
      BY <1>3, StepsKeep
  <2>2. slot[t].pc \in InFlight
      BY <1>3, StepsKeep
  <2>. QED
      BY <2>1, <2>2, Facts
<1>4. CASE Stop
  <2>1. slot'[s] = IF slot[s].pc \in InFlight THEN NoRequest ELSE slot[s]
      BY <1>4 DEF Stop
  <2>2. ~NoRequest.ok /\ NoRequest.pc \notin InFlight
      BY DEF NoRequest, InFlight, Waiting, Building
  <2>. QED
      BY <1>1, <2>1, <2>2
<1>5. CASE Keys \/ IssuerChanges \/ Background \/ SchedStart \/ Signal \/ UNCHANGED vars
  <2>1. UNCHANGED slot
      BY <1>5 DEF Keys, Tick, Resolve, FetchEnd, IssuerChanges, Background, WaveNext,
                  WaveBuilt, WaveDrop, SchedStart, SchedEnd, Signal, vars
  <2>. QED
      BY <1>1, <2>1
<1>. QED
    BY <1>1, <1>2, <1>3, <1>4, <1>5 DEF Next

\* The answer of an admitted request, step by step.
LEMMA NextAuthorised ==
    ASSUME DataInv, KeysPublished, AuthorisedAnswers, [Next]_vars
    PROVE  AuthorisedAnswers'
<1>. SUFFICES ASSUME NEW s \in Slots, slot'[s].pc \in InFlight \/ slot'[s].ok
              PROVE  \E q : q = slot'[s].q /\ Admitted(q)'
    BY DEF AuthorisedAnswers, Admitted
<1>k. scn' = scn /\ issued \subseteq issued'
    BY NextKeys
<1>1. ASSUME NEW q, Arrive(s, q)
      PROVE  q = slot'[s].q /\ Admitted(q)
  <2>1. PICK x : /\ slot' = [slot EXCEPT ![s] = x]
                 /\ Taken(q, x)
                 /\ x.pc # "done" \/ x.ok => Admitted(q)
      BY <1>1, ArriveIs DEF DataInv, Shaped
  <2>2. slot'[s] = x
      BY <2>1, Facts
  <2>3. "done" \notin InFlight
      BY DEF InFlight, Waiting, Building
  <2>. QED
      BY <2>1, <2>2, <2>3 DEF Taken
<1>2. CASE \/ slot'[s] = slot[s]
           \/ Kept(slot'[s], slot[s]) /\ slot[s].pc \in InFlight
  <2>1. PICK q : q = slot[s].q
      OBVIOUS
  <2>2. Admitted(q)
      BY <1>2, <2>1 DEF AuthorisedAnswers, Admitted
  <2>3. slot'[s].q = q
      BY <1>2, <2>1 DEF Kept, Same
  <2>. QED
      BY <1>k, <2>2, <2>3, AdmittedStays
<1>. QED
    BY <1>1, <1>2, <1>k, SlotKept, AdmittedStays

\* What a request may still read is visible, and what an answer was made from;
\* the scenario, and the layout that is published, are among the given ones.
UsesVisible ==
    /\ scn \in DOMAIN Scenarios /\ schema \in srv.schemas
    /\ \A s \in Slots : /\ slot[s].pc \in InFlight => Cleared(slot[s])
                        /\ slot[s].pc \in InFlight \/ slot[s].ok => VisibleUses(slot[s])

\* The layouts of a scenario are as ScenariosAssumption has them.
LEMMA LayoutsCurrent ==
    ASSUME UsesVisible
    PROVE  Current
    BY ScenariosAssumption DEF UsesVisible, Current, srv

\* What is published is always one of the layouts.
LEMMA NextSchema ==
    ASSUME DataInv, schema \in srv.schemas, [Next]_vars
    PROVE  schema' \in srv.schemas
<1>. SUFFICES ds'.schema \in srv.schemas
    BY DEF schema
<1>0. ds.schema \in srv.schemas /\ Shaped
    BY DEF schema, DataInv
<1>1. CASE ds' = ds
    BY <1>0, <1>1
<1>2. CASE \E b \in Slots \cup Jobs : Hold(b)
    BY <1>0, <1>2, HoldIs
<1>3. CASE \E o \in {"ok", "err", "dropped"} : EndRebuild(o)
    BY <1>0, <1>3, EndRebuildIs
<1>4. CASE Publish
    BY <1>0, <1>4, PublishIs
<1>5. CASE \E st \in Statuses : ds' = [ds EXCEPT !.lock = "none", !.status = st]
    BY <1>0, <1>5, ReleaseIs
<1>6. CASE \E l : ds' = [ds EXCEPT !.lock = l]
    BY <1>0, <1>6 DEF Shaped, IsDataset
<1>7. ASSUME NEW s \in Slots, NEW q, Arrive(s, q) PROVE ds' = ds
    BY <1>7 DEF Arrive
<1>8. ASSUME NEW s \in Slots, Steps(s) PROVE ds'.schema \in srv.schemas
  <2>1. CASE Run(s) \/ Insert(s) \/ Drop(s)
      BY <1>1, <2>1 DEF Run, SlotOnly, Insert, Drop, dataVars
  <2>2. CASE Touch(s)
      BY <1>1, <1>2, <2>2 DEF Touch, SlotOnly, dataVars
  <2>3. CASE TouchEnd(s)
      BY <1>4, <1>5, <2>3 DEF TouchEnd, Statuses
  <2>4. CASE Lock(s)
      BY <1>2, <2>4 DEF Lock
  <2>5. CASE Rebuilt(s)
      BY <1>3, <2>5 DEF Rebuilt
  <2>. QED
      BY <1>8, <2>1, <2>2, <2>3, <2>4, <2>5 DEF Steps
<1>9. ASSUME NEW s \in Slots, TimeOut(s) PROVE ds'.schema \in srv.schemas
  <2>. DEFINE l == IF ds.lock = s THEN "none" ELSE ds.lock
  <2>1. ds' = [ds EXCEPT !.lock = l]
      BY <1>9 DEF TimeOut
  <2>. HIDE DEF l
  <2>. QED
      BY <1>6, <2>1
<1>10. CASE Background \/ SchedStart
    BY <1>1, <1>2, <1>3, <1>10 DEF Background, WaveNext, WaveBuilt, WaveDrop, SchedEnd,
                                  SchedStart, Jobs
<1>11. CASE Stop
    BY <1>6, <1>11 DEF Stop
<1>12. CASE Keys \/ IssuerChanges \/ Signal \/ UNCHANGED vars
    BY <1>1, <1>12 DEF Keys, Tick, Resolve, FetchEnd, IssuerChanges, Signal, vars, dataVars
<1>. QED
    BY <1>7, <1>1, <1>8, <1>9, <1>10, <1>11, <1>12 DEF Next

\* A publish changes no filter: what was visible stays so.
LEMMA VisibleStays ==
    ASSUME DataInv, UsesVisible, scn' = scn, [Next]_vars
    PROVE  /\ \A r, c : Open(r, c) => Open(r, c)'
           /\ \A r : Cleared(r) => Cleared(r)'
           /\ \A r : VisibleUses(r) => VisibleUses(r)'
<1>1. srv' = srv
    BY DEF srv
<1>2. schema' \in srv.schemas
    BY NextSchema DEF UsesVisible
<1>3. schema'.projection_filter = schema.projection_filter
    BY <1>2, LayoutsCurrent, LayoutFilters
<1>4. \A c : is_visible(schema, c) => is_visible(schema', c)
    BY <1>3 DEF is_visible
<1>5. ASSUME NEW r, NEW c, Open(r, c) PROVE Open(r, c)'
    BY <1>4, <1>5 DEF Open, Unknown
<1>6. ASSUME NEW r, Cleared(r) PROVE Cleared(r)'
    BY <1>1, <1>5, <1>6 DEF Cleared, FilterAsked
<1>7. ASSUME NEW r, VisibleUses(r) PROVE VisibleUses(r)'
    BY <1>5, <1>7 DEF VisibleUses, FilterAsked
<1>. QED
    BY <1>5, <1>6, <1>7

\* A request may read the same columns as long as it asks the same.
LEMMA SameReads ==
    ASSUME NEW x, NEW r, Same(x, r)
    PROVE  /\ \A n : Reads(x, n) = Reads(r, n)
           /\ \A c : Open(x, c) <=> Open(r, c)
           /\ FilterAsked(x) <=> FilterAsked(r)
<1>1. Names(x) = Names(r)
    BY DEF Same, Names
<1>2. ASSUME NEW n PROVE Reads(x, n) = Reads(r, n)
    BY <1>1 DEF Same, Reads
<1>3. \A c : Open(x, c) <=> Open(r, c)
    BY DEF Same, Open, Unknown
<1>4. FilterAsked(x) <=> FilterAsked(r)
    BY DEF Same, FilterAsked
<1>. QED
    BY <1>2, <1>3, <1>4

LEMMA NextVisible ==
    ASSUME DataInv, KeysPublished, UsesVisible, [Next]_vars
    PROVE  UsesVisible'
<1>1. scn' = scn /\ scn \in DOMAIN Scenarios /\ srv' = srv
    BY NextKeys DEF srv, UsesVisible
<1>2. schema' \in srv.schemas
    BY NextSchema DEF UsesVisible
<1>. SUFFICES ASSUME NEW s \in Slots, slot'[s].pc \in InFlight \/ slot'[s].ok
              PROVE  \E x : /\ x = slot'[s]
                            /\ x.pc \in InFlight => Cleared(x)
                            /\ VisibleUses(x)
  <2>1. ASSUME NEW x PROVE /\ Cleared(x) => Cleared(x)'
                           /\ VisibleUses(x) => VisibleUses(x)'
      BY <1>1, VisibleStays
  <2>2. ASSUME NEW s \in Slots
        PROVE  /\ slot'[s].pc \in InFlight => Cleared(slot[s])'
               /\ slot'[s].pc \in InFlight \/ slot'[s].ok => VisibleUses(slot[s])'
    <3>1. SUFFICES ASSUME slot'[s].pc \in InFlight \/ slot'[s].ok
                   PROVE  /\ slot'[s].pc \in InFlight => Cleared(slot[s])'
                          /\ VisibleUses(slot[s])'
        OBVIOUS
    <3>2. PICK x : /\ x = slot'[s]
                   /\ x.pc \in InFlight => Cleared(x)
                   /\ VisibleUses(x)
        BY <3>1
    <3>3. (x.pc \in InFlight => Cleared(x)') /\ VisibleUses(x)'
        BY <2>1, <3>2
    <3>4. Cleared(x)' => Cleared(slot[s])'
        BY <3>2, Zenon DEF Cleared, Open, Unknown, FilterAsked
    <3>5. VisibleUses(x)' => VisibleUses(slot[s])'
        BY <3>2, Zenon DEF VisibleUses, Open, Unknown, FilterAsked
    <3>. QED
        BY <3>2, <3>3, <3>4, <3>5, Zenon
  <2>. QED
      BY <1>1, <1>2, <2>2 DEF UsesVisible
<1>3. ASSUME NEW q \in Scenarios[scn].requests, Arrive(s, q)
      PROVE  \E x : x = slot'[s] /\ Cleared(x) /\ VisibleUses(x)
  <2>1. PICK x : slot' = [slot EXCEPT ![s] = x] /\ Taken(q, x)
      BY <1>3, ArriveIs DEF DataInv, Shaped
  <2>2. slot'[s] = x
      BY <2>1, Facts
  <2>3. Parsed(q) /\ Current
      BY <1>1, <1>3, ScenariosAssumption, LayoutsCurrent DEF Parsed
  <2>4. "done" \notin InFlight
      BY DEF InFlight, Waiting, Building
  <2>. QED
      BY <2>1, <2>2, <2>3, <2>4 DEF Taken
<1>4. CASE slot'[s] = slot[s]
    BY <1>4 DEF UsesVisible
<1>5. CASE Kept(slot'[s], slot[s]) /\ slot[s].pc \in InFlight
  <2>1. PICK x, r : x = slot'[s] /\ r = slot[s]
      OBVIOUS
  <2>2. Cleared(r) /\ VisibleUses(r)
      BY <1>5, <2>1 DEF UsesVisible
  <2>3. Same(x, r) /\ x.uses \in {r.uses, Reads(r, schema')}
      BY <1>5, <2>1 DEF Kept
  <2>4. Cleared(x)
      BY <2>2, <2>3, SameReads DEF Cleared
  <2>5. VisibleUses(x)
    <3>. SUFFICES ASSUME FilterAsked(x), NEW c \in x.uses PROVE Open(r, c)
        BY <2>3, SameReads DEF VisibleUses
    <3>1. FilterAsked(r)
        BY <2>3, SameReads
    <3>. QED
        BY <1>2, <2>2, <2>3, <3>1 DEF Cleared, VisibleUses
  <2>. QED
      BY <2>1, <2>4, <2>5
<1>. QED
    BY <1>3, <1>4, <1>5, SlotKept

\* The inductive invariant: the data of the requests and the cache are in
\* order, the keys come from the issuer, who is past the guards may be, and
\* uses what it may see.
IndInv == DataInv /\ KeysPublished /\ AuthorisedAnswers /\ UsesVisible

\* Every reachable state of the server satisfies it, for any scenarios.
THEOREM InvariantHolds == Spec => []IndInv
<1>1. Init => IndInv
  <2>. SUFFICES ASSUME Init PROVE IndInv
      OBVIOUS
  <2>1. KeysPublished
      BY DEF Init, KeysPublished
  <2>2. AuthorisedAnswers /\ UsesVisible
    <3>1. \A s \in Slots : ~slot[s].ok /\ slot[s].pc \notin InFlight
        BY DEF Init, NoRequest, InFlight, Waiting, Building
    <3>2. scn \in DOMAIN Scenarios /\ schema \in srv.schemas
        BY ScenariosAssumption DEF Init, schema, srv, Start
    <3>. QED
        BY <3>1, <3>2 DEF AuthorisedAnswers, UsesVisible
  <2>. QED
      BY <2>1, <2>2, InitData DEF IndInv
<1>2. IndInv /\ [Next]_vars => IndInv'
    BY NextData, NextKeys, NextAuthorised, NextVisible DEF IndInv
<1>. QED
    BY <1>1, <1>2, PTL DEF Spec

\* Types, and the mutex is held by whoever is building and by nobody else, also
\* after a timeout (timeout.rs) or a shutdown (server.rs).
THEOREM TypeCorrect == Spec => []TypeOK
<1>1. IndInv => TypeOK
    BY DEF IndInv, DataInv
<1>. QED
    BY <1>1, InvariantHolds, PTL

\* What gets past the middleware and the guards, over HTTP or MCP, is what the
\* credentials entitle to, whatever keys are cached (auth.rs, handlers/v1.rs).
THEOREM AnswersAuthorised == Spec => []AuthorisedAnswers
<1>1. IndInv => AuthorisedAnswers
    BY DEF IndInv
<1>. QED
    BY <1>1, InvariantHolds, PTL

\* An export asked for after a reload was acknowledged is at least that new,
\* unless it was overtaken (ParquetCache and reload_dataset, handlers/v1.rs).
THEOREM ExportsFresh == Spec => []ExportFresh
<1>1. IndInv => ExportFresh
    BY DEF IndInv, DataInv
<1>. QED
    BY <1>1, InvariantHolds, PTL

\* No answer is made from a column the projection filter hides, whatever layout
\* is published between the filter and the read: the structured queries, counts,
\* schemas, exports and SQL of handlers/v1.rs and the tools of mcp, where the
\* filter is asked (FilterAsked, Unknown).
THEOREM HiddenColumnsStayHidden == Spec => []HiddenStaysHidden
<1>1. IndInv => HiddenStaysHidden
    BY DEF IndInv, UsesVisible, VisibleUses, Open, HiddenStaysHidden
<1>. QED
    BY <1>1, InvariantHolds, PTL

=============================================================================
