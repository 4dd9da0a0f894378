--------------------------- MODULE Resolution ---------------------------
(***************************************************************************)
(* How a configuration is resolved from its layers (config/sources.rs,     *)
(* config/mod.rs, and load_layers in cli.rs).                              *)
(*                                                                         *)
(* A layer maps some fields to spellings.  A spelling is a string; what is *)
(* kept of it is what the parsers tell apart: which integer types it fits, *)
(* whether it is a truth value, whether a secret is long enough, whether a *)
(* log filter parses.  Any other string is text.  Canonical environment    *)
(* keys and field names are one to one, so both are the field name here.   *)
(***************************************************************************)
EXTENDS Params, Integers, Sequences, FiniteSets

Rejected == "<rejected>"

-----------------------------------------------------------------------------
(***************************************************************************)
(* Spellings.                                                              *)
(***************************************************************************)
\* str::parse for each integer type, on the numerals the instances use.
FitsByte == {"0", "1", "2", "3", "5", "10", "40", "60", "100", "200"}
FitsPort == FitsByte \union {"300", "3000", "3600", "8080"}
FitsU32 == FitsPort \union {"70000"}
FitsBoth == FitsU32 \union {"5000000000"}
FitsU64 == FitsBoth \union {"10000000000000000000"}
FitsI64 == FitsBoth \union {"-1"}

\* A plus sign and leading zeros are accepted and not printed back.
Printed(s) ==
  CASE s = "+40" -> "40" [] s = "08080" -> "8080" [] OTHER -> s

IntParse(fits, s) == IF Printed(s) \in fits THEN Printed(s) ELSE Rejected

\* captcha_compression: parse::<u8>().clamp(1, 100).
ClampParse(s) ==
  CASE IntParse(FitsByte, s) = "0" -> "1"
    [] IntParse(FitsByte, s) = "200" -> "100"
    [] OTHER -> IntParse(FitsByte, s)

\* str::parse::<bool>, and the lenient reading of the same words.
parse_bool(s) == IF s \in {"true", "false"} THEN s ELSE Rejected

parse_bool_lenient(s) ==
  CASE s \in {"true", "1", "yes", "on", " TRUE"} -> "true"
    [] s \in {"false", "0", "no", "off"} -> "false"
    [] OTHER -> Rejected

\* At least 16 bytes.
LongEnough(s) == s \notin {"", "short"}

SecretParse(s) == IF LongEnough(s) THEN s ELSE Rejected

\* RUST_LOG syntax, which patch checks and from_env_provider does not.
FilterParses(s) == s # "::="

\* The type each numeric field of Config has, by what fits it.
Parse(f, s) ==
  CASE f = "server_port" -> IntParse(FitsPort, s)
    [] f \in {"database_max_connections", "rate_limit_burst_size"} -> IntParse(FitsU32, s)
    [] f \in {"default_session_ttl_seconds", "max_session_ttl_seconds",
              "cleanup_interval_seconds", "rate_limit_requests_per_second"} ->
         IntParse(FitsU64, s)
    [] f = "max_validation_attempts" -> IntParse(FitsI64, s)
    [] f = "captcha_compression" -> ClampParse(s)
    [] f = "rate_limit_reverse_proxy" -> parse_bool(s)
    [] f \in {"admin_config_write", "otel_enabled"} -> parse_bool_lenient(s)
    [] f = "admin_restart_enabled" ->
         IF parse_bool_lenient(s) = Rejected THEN "false" ELSE parse_bool_lenient(s)
    [] PARAMS[f].kind = "SecretFile" -> SecretParse(s)
    [] OTHER -> s

-----------------------------------------------------------------------------
(***************************************************************************)
(* The stack: admin > cli > env > stored > env-file > file > carried.      *)
(***************************************************************************)
Precedence == <<"admin", "cli", "env", "stored", "env-file", "file", "carried">>

LayerNames == {Precedence[i] : i \in DOMAIN Precedence}

NoLayer == [f \in {} |-> Rejected]

\* LayeredEnv::source_of, a probe of its own that get does not go through.
source_of(stack, f) ==
  LET Has(i) == f \in DOMAIN stack[Precedence[i]]
  IN  IF \E i \in DOMAIN Precedence : Has(i)
      THEN Precedence[CHOOSE i \in DOMAIN Precedence :
                        Has(i) /\ \A j \in 1 .. i - 1 : ~Has(j)]
      ELSE "default"

\* LayeredEnv::get, for every key at once.
Given(stack) ==
  Over(stack["admin"], Over(stack["cli"], Over(stack["env"], Over(stack["stored"],
    Over(stack["env-file"], Over(stack["file"], stack["carried"]))))))

\* Sources::capture, and Source::is_pinned.
Captured(stack) == [f \in Fields |-> source_of(stack, f)]

is_pinned(source) == source \in {"cli", "env"}

-----------------------------------------------------------------------------
(***************************************************************************)
(* Config::from_env_provider.  A configuration maps every field to its     *)
(* value as field_value prints it; Rejected stands for the error.          *)
(***************************************************************************)
derived_secret(given, f) ==
  IF f \in DOMAIN given THEN SecretParse(given[f])
  ELSE IF "api_key_salt" \in DOMAIN given THEN given["api_key_salt"] ELSE Rejected

Derived == {"solution_hash_secret", "image_encryption_secret"}

FieldFrom(given, f) ==
  IF f \in Derived THEN derived_secret(given, f)
  ELSE IF f \in DOMAIN given THEN Parse(f, given[f])
  ELSE IF PARAMS[f].default # Required THEN PARAMS[f].default ELSE Rejected

from_env_provider(given) == [f \in Fields |-> FieldFrom(given, f)]

Resolved(stack) == from_env_provider(Given(stack))

Resolves(stack) ==
  LET config == Resolved(stack) IN \A f \in Fields : config[f] # Rejected

\* What is shown of a value: config show, the admin API, Debug.
redact(f, value) == IF PARAMS[f].secret THEN "<redacted>" ELSE value

\* config show.
render_config(config, stack) ==
  [f \in Fields |-> [value |-> redact(f, config[f]), source |-> source_of(stack, f)]]

\* What a reload carries, reports, and adopts.
\* Mutant: what is carried is what would be shown.
boot_layer_Shown(config) == [f \in BootFields |-> redact(f, config[f])]

boot_layer(config) == [f \in BootFields |-> config[f]]

boot_drift(running, resolved) == {f \in BootFields : running[f] # resolved[f]}

\* Written out field by field in the code, apart from the table.
AdoptedFields == {"default_session_ttl_seconds", "max_session_ttl_seconds",
                  "max_validation_attempts", "captcha_compression",
                  "cleanup_interval_seconds", "log_level"}

\* Mutant: an update of the list leaves one live field behind.
with_boot_fields_from_Stale(running, resolved) ==
  [f \in Fields |-> IF f \in AdoptedFields \ {"max_validation_attempts"}
                    THEN resolved[f] ELSE running[f]]

\* Mutant: a reload adopts whatever was resolved.
with_boot_fields_from_None(running, resolved) == resolved

with_boot_fields_from(running, resolved) ==
  [f \in Fields |-> IF f \in AdoptedFields THEN resolved[f] ELSE running[f]]

-----------------------------------------------------------------------------
(***************************************************************************)
(* Files.  A TOML item is a path, the type of its value and the value.     *)
(***************************************************************************)
coerce(item) ==
  LET kind == PARAMS[item.path].kind IN
  CASE kind = "Num" /\ item.type = "integer" -> item.text
    [] kind = "Bool" /\ item.type = "boolean" -> item.text
    [] kind = "Str" /\ item.type = "string" -> item.text
    [] OTHER -> Rejected

\* A path that is not in the table, or a value of another type, is an error
\* of the whole file.
TomlParses(items) ==
  \A item \in items : item.path \in InFiles /\ coerce(item) # Rejected

parse_toml(items) ==
  [f \in {item.path : item \in items} |-> coerce(CHOOSE item \in items : item.path = f)]

\* Secret files are trimmed and must not be empty.
SecretFileReads(contents) == contents \notin {"<missing>", "<blank>"}

\* The files of a process: each is "absent", "broken", or a layer under
\* "layer".  cli says whether the env file is named, defaulted or refused,
\* and whether a config file is named.
EnvFileLoads(cli, disk) ==
  \/ cli.env_file = "none"
  \/ disk.env_file.state = "layer"
  \/ cli.env_file = "default" /\ disk.env_file.state = "absent"

ConfigFileLoads(cli, disk) ==
  cli.config_file => disk.config_file.state = "layer"

LayersLoad(cli, disk) == EnvFileLoads(cli, disk) /\ ConfigFileLoads(cli, disk)

load_layers(cli, env, disk) ==
  [l \in LayerNames |->
     CASE l = "cli" -> cli.values
       [] l = "env" -> env
       [] l = "env-file" /\ cli.env_file # "none" /\ disk.env_file.state = "layer" ->
            disk.env_file.layer
       [] l = "file" /\ cli.config_file -> disk.config_file.layer
       [] OTHER -> NoLayer]

\* Layers::stack with the store, the overlay and the running values put in.
Stack(layers, overlay, stored, carried) ==
  [layers EXCEPT !["admin"] = overlay, !["stored"] = stored, !["carried"] = carried]
=============================================================================
