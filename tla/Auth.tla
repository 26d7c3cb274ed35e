-------------------------------- MODULE Auth --------------------------------
(***************************************************************************)
(* Who a request is and what it may do: bearer tokens (auth.rs), the admin *)
(* token (admin.rs) and the guards of the handlers (handlers/v1.rs).       *)
(*                                                                         *)
(* A token is what the checks look at: its header (kid, alg), the key that *)
(* signed it, its claims.  A JWKS is a function from kids to keys, a key   *)
(* [mat, usable].  An option is a set with at most one member; scopes are  *)
(* in lower case, as parse_scopes and AppConfig make them.                 *)
(***************************************************************************)
EXTENDS Sequences, FiniteSets

\* algorithm_from.
SupportedAlgs == {"RS256", "RS384", "RS512", "ES256", "ES384",
                  "PS256", "PS384", "PS512"}

SubjectClaims == {"sub", "client_id", "azp", "appid", "oid"}

parse_scopes(claims) == claims.scope \cup claims.scp

extract_subject(claims) == claims.subjects \cap SubjectClaims # {}

extract_tenant(claims, cfg) == IF cfg.tenant_claim THEN claims.tenant ELSE {}

\* decode::<Claims> of the jsonwebtoken library.
decode(tok, key, cfg) ==
    /\ tok.signer = key.mat
    /\ tok.claims.iss = cfg.issuer
    /\ tok.claims.live
    /\ cfg.audience \subseteq tok.claims.aud

\* The checks of verify_token, in their order; snap is an option.
TokenError(tok, cfg, snap) ==
    LET keys == UNION {{k[kid] : kid \in tok.kid \cap DOMAIN k} : k \in snap}
        key == CHOOSE k \in keys : TRUE
        tenant == extract_tenant(tok.claims, cfg)
    IN CASE snap = {} -> "Unavailable"
         [] ~tok.wellformed \/ tok.kid = {} -> "Unauthorized"
         [] keys = {} -> "Unauthorized"
         [] ~key.usable -> "Internal"
         [] ~(cfg.algorithms \subseteq SupportedAlgs) -> "Internal"
         [] tok.alg \notin cfg.algorithms -> "Unauthorized"
         [] ~decode(tok, key, cfg) -> "Unauthorized"
         [] ~extract_subject(tok.claims) -> "Unauthorized"
         [] /\ cfg.allowed_tenants # {}
            /\ tenant \cap cfg.allowed_tenants = {} -> "Forbidden"
         [] OTHER -> "ok"

verify_token(tok, cfg, snap) ==
    LET err == TokenError(tok, cfg, snap) IN
    [err |-> err,
     principal |-> IF err = "ok"
                   THEN {[scopes |-> parse_scopes(tok.claims),
                          tenant |-> extract_tenant(tok.claims, cfg)]}
                   ELSE {}]

\* AuthMiddleware::call: a header that is no bearer token is no token, and a
\* request without one goes on without a principal.
AuthMiddleware(header, cfg, snap) ==
    LET bearer == {h.token : h \in {x \in header : x.bearer}} IN
    IF ~cfg.enabled \/ bearer = {} THEN [err |-> "ok", principal |-> {}]
    ELSE verify_token(CHOOSE t \in bearer : TRUE, cfg, snap)

-----------------------------------------------------------------------------
(***************************************************************************)
(* Guards.                                                                 *)
(***************************************************************************)
has_all_scopes(p, required) == required \subseteq p.scopes

require_scopes(principal, required) ==
    CASE required = {} -> "ok"
      [] \E p \in principal : has_all_scopes(p, required) -> "ok"
      [] principal # {} -> "Forbidden"
      [] OTHER -> "Unauthorized"

\* admin.rs: expected is the option ADMIN_TOKEN, presented the header.
require_admin_configured(expected) == expected # {}

require_admin(expected, presented) ==
    IF require_admin_configured(expected) /\ presented = expected
    THEN "ok" ELSE "Forbidden"

require_read(cfg, principal) ==
    IF cfg.enabled /\ ~cfg.anonymous_read
    THEN require_scopes(principal, cfg.read_scopes) ELSE "ok"

\* require_reload and require_manage: the admin token or the scopes.
AdminOrScopes(cfg, principal, expected, presented, scopes) ==
    IF ~cfg.enabled THEN require_admin(expected, presented)
    ELSE IF cfg.admin_token_fallback /\ require_admin(expected, presented) = "ok"
    THEN "ok"
    ELSE require_scopes(principal, scopes)

\* Mutation of require_reload: the admin token counts whatever
\* admin_token_fallback says.
AdminAlwaysReloads(cfg, principal, expected, presented) ==
    IF require_admin(expected, presented) = "ok" THEN "ok"
    ELSE AdminOrScopes(cfg, principal, expected, presented, cfg.reload_scopes)

require_reload(cfg, principal, expected, presented) ==
    AdminOrScopes(cfg, principal, expected, presented, cfg.reload_scopes)

require_manage(cfg, principal, expected, presented) ==
    AdminOrScopes(cfg, principal, expected, presented, cfg.manage_scopes)
=============================================================================
