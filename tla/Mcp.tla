-------------------------------- MODULE Mcp ---------------------------------
(***************************************************************************)
(* The MCP endpoint, crates/core/src/mcp: the transport checks (http.rs),  *)
(* the JSON-RPC envelope (protocol.rs), the methods and tools (tools.rs).  *)
(*                                                                         *)
(* A message is [verb, session, origin, version, accept, body, jsonrpc,    *)
(* id, method, params]: headers and fields are classes, body what the      *)
(* bytes parse to, params.tool the option params.name.  An outcome is an   *)
(* HTTP code with an RPC error class or "none"; the tools that reach the   *)
(* backend are left to the caller: outcome code 0.                         *)
(***************************************************************************)
EXTENDS Auth, Naturals

Done(code, rpc) == [code |-> code, rpc |-> rpc]
GoOn == Done(0, "none")

\* McpSettings::origin_allowed with extract_host.
origin_allowed(m, mcp) ==
    \/ m.origin \in {"absent", "localhost", "own_host"}
    \/ m.origin \in mcp.allowed_origins

\* accept_header_allows_json.
accept_header_allows_json(m) == m.accept # "other"

\* extract_id: an id is a string or a whole number, never null.
extract_id(m) == IF m.id \in {"absent", "string", "integer", "whole_float"}
                 THEN "none" ELSE "invalid_request"

is_notification(m) == m.id = "absent"

\* What is decided from the transport and the envelope alone, in order.
Envelope(m, mcp) ==
    IF ~mcp.enabled THEN Done(404, "none")
    ELSE IF ~origin_allowed(m, mcp) THEN Done(403, "none")
    ELSE IF m.version = "unsupported" THEN Done(400, "invalid_request")
    ELSE IF ~accept_header_allows_json(m) THEN Done(406, "none")
    ELSE IF m.body \notin {"array", "message"} THEN Done(200, "parse_error")
    ELSE IF m.body = "array" \/ ~m.jsonrpc THEN Done(200, "invalid_request")
    ELSE IF extract_id(m) # "none" THEN Done(200, extract_id(m))
    ELSE IF is_notification(m) THEN Done(202, "none")
    ELSE IF m.method = "none" THEN Done(200, "invalid_request")
    ELSE GoOn

\* check_auth: the lifecycle methods want any token, the others read_scopes.
Lifecycle == {"initialize", "ping", "tools/list"}

check_auth(m, cfg, principal) ==
    CASE ~cfg.enabled \/ cfg.anonymous_read -> "ok"
      [] m.method \in Lifecycle ->
           IF principal = {} THEN "Unauthorized" ELSE "ok"
      [] OTHER -> require_scopes(principal, cfg.read_scopes)

\* auth_failure_response.
AuthFailure(e) == Done(IF e = "Unauthorized" THEN 401 ELSE 403, "none")

-----------------------------------------------------------------------------
(***************************************************************************)
(* Methods and tools.                                                      *)
(***************************************************************************)
SqlTool(mcp, sql) == mcp.expose_sql /\ sql.enabled

\* tool_list.
tool_list(mcp, sql) ==
    {"list_datasets", "describe_dataset", "describe_all_datasets",
     "query_dataset", "count_rows"} \cup (IF SqlTool(mcp, sql) THEN {"sql"} ELSE {})

\* dispatch_method up to dispatch: a tool that is not served is an error.
dispatch_method(m, mcp, sql) ==
    CASE m.method = "initialize" ->
           Done(200, IF m.params.valid THEN "none" ELSE "invalid_params")
      [] m.method \in {"ping", "tools/list"} -> Done(200, "none")
      [] m.method # "tools/call" -> Done(200, "method_not_found")
      [] m.params.tool \subseteq tool_list(mcp, sql) /\ m.params.tool # {} -> GoOn
      [] OTHER -> Done(200, "invalid_params")

handle_post(m, cfg, principal, mcp, sql) ==
    LET e == Envelope(m, mcp)
        auth == check_auth(m, cfg, principal)
    IN IF e.code # 0 THEN e
       ELSE IF auth # "ok" THEN AuthFailure(auth)
       ELSE dispatch_method(m, mcp, sql)

\* handle_get, handle_delete, handle_options and handle_post.
McpHandler(m, cfg, principal, mcp, sql) ==
    IF m.verb = "POST" THEN handle_post(m, cfg, principal, mcp, sql)
    ELSE IF ~mcp.enabled THEN Done(404, "none")
    ELSE Done(IF m.verb = "OPTIONS" \/ (m.verb = "DELETE" /\ m.session) THEN 200 ELSE 405, "none")

\* handle_post_with_session: which answers carry a fresh Mcp-Session-Id, the
\* ones that report an RPC error included.
SessionIssued(m, code) ==
    m.verb = "POST" /\ m.body = "message" /\ m.method = "initialize" /\ code \in 200 .. 299
=============================================================================
