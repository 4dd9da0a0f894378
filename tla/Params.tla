----------------------------- MODULE Params -----------------------------
(***************************************************************************)
(* The configuration parameters (src/src/config/params.rs), by the field   *)
(* name of Config.  A parameter keeps what the rest of the program decides *)
(* by: its kind, whether a running process may change it, whether the      *)
(* database may store it, whether a TOML file may name it, and its         *)
(* default.  Flags, help and prose are left out.                           *)
(***************************************************************************)
\* No static default: required, or derived from the salt.
Required == "<required>"

Param(kind, reload, persist, default) ==
  [kind |-> kind, reload |-> reload, persist |-> persist, toml |-> TRUE,
   secret |-> FALSE, default |-> default]

\* Read from a file, held for the life of the process, and nowhere else.
SecretParam ==
  [kind |-> "SecretFile", reload |-> "Boot", persist |-> "Never", toml |-> FALSE,
   secret |-> TRUE, default |-> Required]

ServerParams == [
  server_host |-> Param("Str", "Boot", "Allowed", "0.0.0.0"),
  server_port |-> Param("Num", "Boot", "Allowed", "3000"),
  pid_file |-> Param("Str", "Boot", "Allowed", "./data/captchapi.pid"),
  database_url |-> Param("Str", "Boot", "Never", "sqlite:./data/captchapi.db"),
  database_max_connections |-> Param("Num", "Boot", "Never", "5")]

SecretParams == [
  api_key_salt |-> SecretParam,
  master_api_key |-> SecretParam,
  solution_hash_secret |-> SecretParam,
  image_encryption_secret |-> SecretParam]

SessionParams == [
  default_session_ttl_seconds |-> Param("Num", "Live", "Allowed", "300"),
  max_session_ttl_seconds |-> Param("Num", "Live", "Allowed", "3600"),
  max_validation_attempts |-> Param("Num", "Live", "Allowed", "3"),
  captcha_compression |-> Param("Num", "Live", "Allowed", "40"),
  cleanup_interval_seconds |-> Param("Num", "Live", "Allowed", "60")]

AccessParams == [
  rate_limit_requests_per_second |-> Param("Num", "Boot", "Allowed", "2"),
  rate_limit_burst_size |-> Param("Num", "Boot", "Allowed", "10"),
  rate_limit_reverse_proxy |-> Param("Bool", "Boot", "Allowed", "false"),
  admin_config_write |-> Param("Bool", "Boot", "Allowed", "true"),
  admin_restart_enabled |-> Param("Bool", "Boot", "Allowed", "false")]

TelemetryParams == [
  log_level |-> Param("Str", "Live", "Allowed", "captchapi=debug,tower_http=debug"),
  otel_enabled |-> Param("Bool", "Boot", "Never", "false"),
  otel_endpoint |-> Param("Str", "Boot", "Never", "http://localhost:4318"),
  otel_service_name |-> Param("Str", "Boot", "Never", "captchapi")]

\* The first map, and the second where the first says nothing.
Over(top, bottom) ==
  [k \in DOMAIN top \union DOMAIN bottom |->
     IF k \in DOMAIN top THEN top[k] ELSE bottom[k]]

PARAMS ==
  Over(ServerParams, Over(SecretParams, Over(SessionParams,
    Over(AccessParams, TelemetryParams))))

Fields == DOMAIN PARAMS

BootFields == {f \in Fields : PARAMS[f].reload = "Boot"}
LiveFields == {f \in Fields : PARAMS[f].reload = "Live"}
Storable == {f \in Fields : PARAMS[f].persist = "Allowed"}
InFiles == {f \in Fields : PARAMS[f].toml}
=============================================================================
