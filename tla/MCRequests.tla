----------------------------- MODULE MCRequests -----------------------------
(***************************************************************************)
(* Scenarios for Requests: who may do what while keys rotate (Auth),       *)
(* exports against reloads (Races), filters against first touches and      *)
(* reloads (Hidden), and a shutdown (Ends).                                *)
(***************************************************************************)
EXTENDS Requests, TLC

MCLower == [n \in {"a", "A", "b", "t"} |-> IF n = "A" THEN "a" ELSE n]
MCUrlSafe == {"t"}

-----------------------------------------------------------------------------
Key(m) == [mat |-> m, usable |-> m # 0]
K1 == "k1" :> Key(1)
K2 == "k2" :> Key(2) @@ "k1" :> Key(0)
At(up, discovery, url, keys) ==
    [up |-> up, discovery |-> discovery, url |-> url, keys |-> keys]
Home == At(TRUE, TRUE, "certs", K1)
MCIssuers == {Home, At(TRUE, TRUE, "certs", K2), At(FALSE, TRUE, "certs", K2),
              At(TRUE, FALSE, "legacy", K1), At(TRUE, TRUE, "moved", K2)}

Claims == [iss |-> "iss", live |-> TRUE, aud |-> {"api"}, subjects |-> {"azp"},
           scope |-> {"read"}, scp |-> {}, tenant |-> {"acme"}]
Token == [wellformed |-> TRUE, kid |-> {"k1"}, alg |-> "RS256", signer |-> 1,
          claims |-> Claims]
Tokens ==
    {Token, [Token EXCEPT !.kid = {"k2"}, !.signer = 2], [Token EXCEPT !.signer = 3],
     [Token EXCEPT !.kid = {}], [Token EXCEPT !.alg = "HS256"],
     [Token EXCEPT !.claims.scope = {}],
     [Token EXCEPT !.claims.scope = {"write"}, !.claims.scp = {"read", "manage"}],
     [Token EXCEPT !.claims.live = FALSE], [Token EXCEPT !.claims.aud = {"other"}],
     [Token EXCEPT !.claims.subjects = {"email"}], [Token EXCEPT !.claims.tenant = {"evil"}]}
Cred(header, admin) == [header |-> header, admin |-> admin]
Bearer(t) == {[bearer |-> TRUE, token |-> t]}
Creds == {Cred(Bearer(t), {}) : t \in Tokens}
         \cup {Cred({}, {}), Cred({}, {"secret"}), Cred({}, {"guess"}),
               Cred({[bearer |-> FALSE, token |-> Token]}, {"secret"})}
Admin == Cred({}, {"secret"})

-----------------------------------------------------------------------------
Req(cols, preds) ==
    [columns |-> cols, predicates |-> [i \in DOMAIN preds |-> [col |-> preds[i]]],
     group_by |-> <<>>, aggregations |-> <<>>, order_by |-> <<>>]
Stmt(c) ==
    [count |-> 1, kind |-> "query",
     nodes |-> <<[parent |-> 0, place |-> "root", name |-> "", tables |-> {"t"},
                  cols |-> c, wildcard |-> c = {}, unseen |-> "none", funcs |-> {}]>>]
Rows == [Stmt({}) EXCEPT !.nodes[1].wildcard = FALSE, !.nodes[1].unseen = "row"]
Post == [verb |-> "POST", session |-> FALSE, origin |-> "absent", version |-> "absent",
         accept |-> "json", body |-> "message", jsonrpc |-> TRUE, id |-> "string",
         method |-> "tools/call", params |-> [tool |-> {}, valid |-> TRUE]]
Plain(op) == [op |-> op, msg |-> Post, req |-> Req(<<>>, <<>>), stmt |-> Stmt({})]
With(req) == {[Plain(op) EXCEPT !.req = req] : op \in {"query", "stream", "count"}}
Call(m) == [Plain("mcp") EXCEPT !.msg = m]
Tool(t) == Call([Post EXCEPT !.params.tool = {t}])
Tools == {"list_datasets", "describe_dataset", "describe_all_datasets",
          "query_dataset", "count_rows", "sql", "other"}
Method(m) == Call([Post EXCEPT !.method = m])
Malformed ==
    {[Post EXCEPT !.origin = "other"], [Post EXCEPT !.version = "unsupported"],
     [Post EXCEPT !.accept = "other"], [Post EXCEPT !.body = "array"],
     [Post EXCEPT !.body = "garbage"], [Post EXCEPT !.jsonrpc = FALSE],
     [Post EXCEPT !.id = "null"], [Post EXCEPT !.id = "absent"], [Post EXCEPT !.method = "none"],
     [Post EXCEPT !.params = [tool |-> {"query_dataset"}, valid |-> FALSE]],
     [Post EXCEPT !.verb = "GET"], [Post EXCEPT !.verb = "DELETE", !.session = TRUE]}
As(cred, what) == [op |-> what.op, msg |-> what.msg, req |-> what.req,
                   stmt |-> what.stmt, header |-> cred.header, admin |-> cred.admin]

V1 == {"readyz", "list", "status", "schema", "query", "stream", "count", "sql", "parquet",
       "reload", "reload_all", "queries"}
AnyOf == {Plain(op) : op \in V1} \cup {Tool(t) : t \in Tools}
         \cup {Method(m) : m \in Lifecycle \cup {"other"}} \cup {Call(m) : m \in Malformed}
Hiding == (UNION {With(r) : r \in {Req(<<>>, <<>>), Req(<<"b">>, <<>>), Req(<<"A">>, <<"b">>)}})
          \cup {[Plain("sql") EXCEPT !.stmt = st] : st \in {Stmt({}), Stmt({"a"}), Stmt({"a", "b"}), Rows}}
          \cup {[Tool("query_dataset") EXCEPT !.req = Req(<<"A">>, <<>>)]}
          \cup {Plain("schema"), Plain("parquet"), Tool("describe_dataset"), Tool("count_rows")}

-----------------------------------------------------------------------------
NoFilters == [columns |-> <<"a", "b">>, predicate_filter |-> NoFilter,
              projection_filter |-> NoFilter]
\* The column "b" is hidden: it comes and goes with the reloads, or stays, next
\* to one that does.
Shows(columns, include, exclude) ==
    [NoFilters EXCEPT !.columns = columns,
                      !.projection_filter = [include |-> include, exclude |-> exclude]]
ShowsA == {Shows(<<"a">>, {"a"}, {}), Shows(<<"b", "a">>, {"a"}, {})}
HidesB == {Shows(<<"a", "b">>, {}, {"b"}), Shows(<<"b">>, {}, {"b"})}
AuthOff == [enabled |-> FALSE, anonymous_read |-> FALSE, issuer |-> "iss",
            audience |-> {"api"}, read_scopes |-> {"read"}, reload_scopes |-> {"write"},
            manage_scopes |-> {"manage"}, admin_token_fallback |-> TRUE,
            start_degraded |-> TRUE, algorithms |-> {"RS256"}, tenant_claim |-> TRUE,
            allowed_tenants |-> {"acme"}]
AuthOn == [AuthOff EXCEPT !.enabled = TRUE]
Server == [auth |-> AuthOff, admin |-> {"secret"}, sql |-> [enabled |-> TRUE],
           mcp |-> [enabled |-> TRUE, expose_sql |-> TRUE, allowed_origins |-> {}],
           timeout |-> FALSE, schemas |-> {NoFilters}]
Guarded ==
    <<[Server EXCEPT !.auth = AuthOn],
      [Server EXCEPT !.auth = [AuthOn EXCEPT !.admin_token_fallback = FALSE,
                                             !.start_degraded = FALSE, !.allowed_tenants = {}],
                     !.mcp.expose_sql = FALSE],
      [Server EXCEPT !.auth = [AuthOn EXCEPT !.anonymous_read = TRUE], !.sql.enabled = FALSE,
                     !.admin = {}],
      [Server EXCEPT !.admin = {}, !.mcp.enabled = FALSE]>>

Data(status, on, ver) ==
    [status |-> status, on_start |-> on, ver |-> ver, lock |-> "none", schema |-> NoFilters]
Fresh == Data("published", "eager", 1)
Lazy == Data("pending", "lazy", 0)
Budget(calls, ticks, changes, stop) ==
    [calls |-> calls, ticks |-> ticks, issuer |-> changes, stop |-> stop]
Scenario(server, requests, issuers, starts, budget) ==
    [srv |-> server, requests |-> requests, issuers |-> issuers, starts |-> starts,
     budget |-> budget]

Everyone == {Plain(op) : op \in {"query", "reload", "queries"}}
            \cup {Tool("query_dataset"), Method("initialize")}
Mixed == {As(c, w) : c \in Creds, w \in Everyone}
         \cup {As(c, w) : c \in {Cred({}, {}), Cred(Bearer(Token), {})}, w \in AnyOf}
Auths == [i \in DOMAIN Guarded |->
            Scenario(Guarded[i], Mixed, MCIssuers, {Fresh}, Budget(1, 0, 1, 0))]
Rotations == <<Scenario(Guarded[1], {As(Cred(Bearer(Token), {}), Plain("status"))},
                        MCIssuers, {Fresh}, Budget(1, 0, 3, 0))>>

Race(ops) == {As(Admin, Plain(op)) : op \in ops}
Exports == Race({"parquet", "reload", "reload_all"})
MCRaces == <<Scenario(Server, Exports, {Home}, {Fresh}, Budget(4, 1, 0, 0)),
             Scenario([Server EXCEPT !.timeout = TRUE], Exports, {Home},
                      {Fresh, Data("failed", "eager", 0)}, Budget(3, 1, 0, 0))>>
Hides == <<ShowsA, HidesB>>
Hidden == [i \in 1 .. 2 |->
             Scenario([Server EXCEPT !.schemas = Hides[i]],
                      {As(Admin, w) : w \in Hiding}, {Home},
                      {[Fresh EXCEPT !.schema = n] : n \in Hides[i]}
                      \cup {[Lazy EXCEPT !.schema = CHOOSE n \in Hides[i] : TRUE]},
                      Budget(1, 3, 0, 0))]
Touches == Race({"query", "reload", "readyz"}) \cup {As(Admin, Tool("query_dataset"))}
Ends == <<Scenario(Server, Touches, {Home}, {Lazy, Fresh}, Budget(3, 0, 0, 1)),
          Scenario([Server EXCEPT !.timeout = TRUE], Touches, {Home}, {Lazy},
                   Budget(3, 0, 0, 1))>>

MCScenarios == Auths \o Rotations \o MCRaces \o Hidden \o Ends
=============================================================================
