------------------------------ MODULE Routes ----------------------------
(***************************************************************************)
(* How the server's router is put together (app.rs and the route tables)   *)
(* and what a request meets on the way to its handler (middleware/, the    *)
(* limiter).                                                               *)
(*                                                                         *)
(* A router is a set of endpoints, each with what wraps it, the outermost  *)
(* first.  A parameter of a path is written with a colon, and a refusal is *)
(* named for its reason.  Requests no route matches are left out, and so   *)
(* is a failure of the key lookup.                                         *)
(***************************************************************************)
EXTENDS Params, Sequences, SequencesExt, FiniteSets

\* Rows of a route table: path, method, handler.
Table(rows) == {[path |-> <<r[1]>>, method |-> r[2], handler |-> r[3], wraps |-> <<>>] : r \in rows}

\* layer and route_layer: everything that is there so far is wrapped.
Layered(router, name) == {[e EXCEPT !.wraps = <<name>> \o @] : e \in router}

nest(prefix, router) == {[e EXCEPT !.path = <<prefix>> \o @] : e \in router}

-----------------------------------------------------------------------------
(***************************************************************************)
(* The route tables.                                                       *)
(***************************************************************************)
sessions_routes ==
  Layered(Table({<<"/", "POST", "create_session">>,
                 <<"/:id/validate", "POST", "validate_session">>,
                 <<"/:id", "DELETE", "delete_session">>}), "AuthMiddleware")
  \union Table({<<"/:id", "GET", "get_session_details">>,
                <<"/:id/image.jpeg", "GET", "get_image_binary">>})

api_keys_routes ==
  Layered(Table({<<"/", "POST", "create_api_key">>, <<"/", "GET", "list_api_keys">>,
                 <<"/:key_hash", "PUT", "update_api_key">>,
                 <<"/:key_hash", "DELETE", "delete_api_key">>}), "MasterKeyMiddleware")

admin_routes ==
  Layered(Table({<<"/cleanup", "POST", "trigger_cleanup">>, <<"/config", "GET", "get_config">>,
                 <<"/config", "PATCH", "patch_config">>,
                 <<"/config/reload", "POST", "reload_config">>,
                 <<"/config/stored", "GET", "get_stored">>, <<"/config/stored", "PUT", "put_stored">>,
                 <<"/config/stored/:field", "DELETE", "delete_stored">>,
                 <<"/restart", "POST", "restart_server">>}), "MasterKeyMiddleware")

\* Both spellings of the index, and its script.
admin_ui_routes ==
  Table({<<"/admin", "GET", "index">>, <<"/admin/", "GET", "index">>,
         <<"/admin/app.js", "GET", "script">>})

health_route == Table({<<"/health", "GET", "health_check">>})

-----------------------------------------------------------------------------
(***************************************************************************)
(* build_app.                                                              *)
(***************************************************************************)
base_router(admin_ui) ==
  health_route
  \union nest("/api/v1/api-keys", api_keys_routes)
  \union nest("/api/v1/admin", admin_routes)
  \union (IF admin_ui THEN admin_ui_routes ELSE {})

\* The limiter goes around the whole nest, outside its authentication.
limited_sessions == nest("/api/v1/sessions", Layered(sessions_routes, "GovernorLayer"))

\* The common layers, the innermost first.
common == <<"CompressionLayer", "TraceLayer", "request_id_middleware", "MetricsMiddleware">>

build_app(admin_ui) ==
  FoldLeft(Layered, base_router(admin_ui) \union limited_sessions, common)

\* What the services, the middleware and the limiter keep of the snapshot.
CapturedAtBuild ==
  {"api_key_salt", "master_api_key", "solution_hash_secret", "image_encryption_secret",
   "rate_limit_requests_per_second", "rate_limit_burst_size", "rate_limit_reverse_proxy"}

\* What a request reads when it comes.
SessionConfig ==
  {"default_session_ttl_seconds", "max_session_ttl_seconds", "max_validation_attempts",
   "captcha_compression"}

-----------------------------------------------------------------------------
(***************************************************************************)
(* The middleware.  An Authorization header is absent, opaque (no text),   *)
(* another scheme, or a bearer's token: the master key, a key that is      *)
(* there and active, one that is there and not, or one that is not.        *)
(***************************************************************************)
authenticate(header) ==
  CASE header \in {"absent", "opaque"} -> "no_header"
    [] header = "Basic" -> "no_bearer"
    [] header = "inactive" -> "inactive_key"
    [] header = "unknown" -> "invalid_key"
    [] OTHER -> "pass"

authenticate_master(header) ==
  CASE header \in {"absent", "opaque"} -> "no_header"
    [] header = "Basic" -> "no_bearer"
    [] header = "master" -> "pass"
    [] OTHER -> "not_the_master"

\* A request has an address the connection comes from, and may say whose it is.
limiter_key(request, reverse_proxy) ==
  IF reverse_proxy /\ request.forwarded # "none" THEN request.forwarded ELSE request.peer

\* The id of the answer: the one the request came with, if it is text.
answer_id(request) == IF request.id \in {"absent", "opaque", "empty"} THEN "new" ELSE request.id

\* What a wrapper does to a request; spent are the keys with no cell left.
Wrapped(name, request, reverse_proxy, spent) ==
  CASE name = "GovernorLayer" ->
         IF limiter_key(request, reverse_proxy) \in spent THEN "too_many_requests" ELSE "pass"
    [] name = "AuthMiddleware" -> authenticate(request.header)
    [] name = "MasterKeyMiddleware" -> authenticate_master(request.header)
    [] OTHER -> "pass"

\* The first wrapper that does not pass answers; the ones outside it see the
\* answer, and the ones inside never see the request.
Served(endpoint, request, reverse_proxy, spent) ==
  LET does(i) == Wrapped(endpoint.wraps[i], request, reverse_proxy, spent)
      stops == {i \in DOMAIN endpoint.wraps : does(i) # "pass"}
      stop == CHOOSE i \in stops : \A j \in stops : i <= j
      by == IF stops = {} THEN endpoint.handler ELSE does(stop)
      met == ToSet(IF stops = {} THEN endpoint.wraps ELSE SubSeq(endpoint.wraps, 1, stop))
  IN  [by |-> by, handled |-> stops = {},
       durations |-> IF "MetricsMiddleware" \in met THEN 1 ELSE 0,
       id |-> IF "request_id_middleware" \in met THEN answer_id(request) ELSE "none",
       charged |-> "GovernorLayer" \in met /\ by # "too_many_requests"]
=============================================================================
