---------------------------- MODULE NodeSetup ---------------------------
(***************************************************************************)
(* How a Node.js program comes by an instance: the wrapper's version check *)
(* and builder (packages/captchapi/src/index.ts), and what the binding     *)
(* makes of a configuration (bindings/nodejs/src).  What becomes of the    *)
(* instance is in Wrapper and NodeCalls.                                   *)
(*                                                                         *)
(* A version is the sequence of its pieces between dots, NaN where one is  *)
(* not a number.  A database URL is the sequence of the schemes it begins  *)
(* with and its path.  A configuration maps the fields it sets.            *)
(***************************************************************************)
EXTENDS Requests, SequencesExt

NaN == -1
NotInstalled == <<>>
Scheme == "sqlite:"

-----------------------------------------------------------------------------
(***************************************************************************)
(* Versions.                                                               *)
(***************************************************************************)
MIN_CORE_VERSION == <<1, 0, 0>>
MAX_CORE_VERSION == <<2, 0, 0>>

Piece(v, i) == IF i \in DOMAIN v /\ v[i] # NaN THEN v[i] ELSE 0

compareVersions(a, b) ==
  LET differ == {i \in DOMAIN a \union DOMAIN b : Piece(a, i) # Piece(b, i)}
      first == CHOOSE i \in differ : \A j \in differ : i <= j
  IN  CASE differ = {} -> 0
        [] Piece(a, first) > Piece(b, first) -> 1
        [] OTHER -> -1

isCompatibleCoreVersion(installed) ==
  /\ installed # NotInstalled
  /\ compareVersions(installed, MIN_CORE_VERSION) >= 0
  /\ compareVersions(installed, MAX_CORE_VERSION) < 0

-----------------------------------------------------------------------------
(***************************************************************************)
(* CaptchaApi::create: the keys, the settings and the tables of a new      *)
(* instance, once the database it names could be opened.                   *)
(***************************************************************************)
Optional(config, field, otherwise) == IF field \in DOMAIN config THEN config[field] ELSE otherwise

core_create(config) ==
  [error |-> "none", database |-> config.database_url,
   salt |-> config.api_key_salt,
   solution_key |-> Optional(config, "solution_hash_secret", config.api_key_salt),
   image_key |-> Optional(config, "image_encryption_secret", config.api_key_salt),
   migrated |-> Optional(config, "run_migrations", TRUE),
   settings |-> node_settings(config)]

\* CaptchaConfig::default.
CaptchaConfigDefault ==
  [database_url |-> <<Scheme, "./captcha.db">>, api_key_salt |-> "",
   default_session_ttl_seconds |-> 300, max_session_ttl_seconds |-> 3600,
   max_validation_attempts |-> 3, run_migrations |-> TRUE, captcha_compression |-> 40]

-----------------------------------------------------------------------------
(***************************************************************************)
(* The wrapper's create, and the ways to it.                               *)
(***************************************************************************)
Refused(error) == [error |-> error]

create(config, skipVersionCheck, installed, loads) ==
  IF ~ skipVersionCheck /\ ~ isCompatibleCoreVersion(installed) THEN Refused("VersionCompatibilityError")
  ELSE IF ~ loads THEN Refused("NativeBindingError")
  ELSE core_create(config)

\* A builder's configuration after the calls made of it: each names a field
\* and what to set it to.
database(url) == IF url # <<>> /\ Head(url) = Scheme THEN url ELSE <<Scheme>> \o url

Called(config, call) ==
  [f \in DOMAIN config \union {call.field} |->
     IF f # call.field THEN config[f] ELSE IF f = "database_url" THEN database(call.to) ELSE call.to]

Builder(calls) == FoldLeft(Called, [f \in {} |-> ""], calls)

build(config, skipVersionCheck, installed, loads) ==
  CASE "database_url" \notin DOMAIN config -> Refused("ConfigurationError")
    [] Optional(config, "api_key_salt", "") = "" -> Refused("ConfigurationError")
    [] OTHER -> create(config, skipVersionCheck, installed, loads)

\* quickStart, with the salt it is given or a new one, and inMemory.
quickStart(path, salts, installed, loads) ==
  create([database_url |-> <<Scheme>> \o path,
          api_key_salt |-> IF salts = {} THEN "new" ELSE CHOOSE s \in salts : TRUE],
         FALSE, installed, loads)

inMemory(salt, installed, loads) ==
  create([database_url |-> <<Scheme, ":memory:">>, api_key_salt |-> salt], FALSE, installed, loads)
=============================================================================
