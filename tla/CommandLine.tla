--------------------------- MODULE CommandLine --------------------------
(***************************************************************************)
(* The command line (cli.rs).  An argument is a bare flag <<"--", f>>, a   *)
(* short one <<"-", f>>, a flag with its value <<"--", f, v>>, or a plain  *)
(* word <<v>>; a parameter's flag is named after its field.  Some          *)
(* arguments are given up to the error they end in.                        *)
(***************************************************************************)
EXTENDS Resolution, Integers, Sequences, SequencesExt

\* PARAMS in the order of the table.
ParamOrder == <<
  "server_host", "server_port", "pid_file", "database_url", "database_max_connections",
  "api_key_salt", "master_api_key", "solution_hash_secret", "image_encryption_secret",
  "default_session_ttl_seconds", "max_session_ttl_seconds", "max_validation_attempts",
  "captcha_compression", "cleanup_interval_seconds", "rate_limit_requests_per_second",
  "rate_limit_burst_size", "rate_limit_reverse_proxy", "admin_config_write",
  "admin_restart_enabled", "log_level", "otel_enabled", "otel_endpoint", "otel_service_name">>

Shorts == {"server_host", "server_port", "database_url", "config", "help", "version"}

Failed == [error |-> TRUE]

-----------------------------------------------------------------------------
(***************************************************************************)
(* pico-args: every reader takes what it knows out of the arguments and    *)
(* leaves the rest.  Zero stands for no such argument.                     *)
(***************************************************************************)
FirstIndex(hits) ==
  IF hits = {} THEN 0 ELSE CHOOSE i \in hits : \A j \in hits : i <= j

\* The short flag is looked for first, wherever the long one is.
BareIndex(args, f) ==
  LET short == FirstIndex({i \in DOMAIN args : f \in Shorts /\ args[i] = <<"-", f>>})
  IN  IF short # 0 THEN short ELSE FirstIndex({i \in DOMAIN args : args[i] = <<"--", f>>})

EqualIndex(args, f) ==
  FirstIndex({i \in DOMAIN args : Len(args[i]) = 3 /\ args[i][1] = "--" /\ args[i][2] = f})

\* Arguments::contains.
contains(args, f) == BareIndex(args, f) # 0
WithoutFlag(args, f) == IF contains(args, f) THEN RemoveAt(args, BareIndex(args, f)) ELSE args

\* Arguments::opt_value_from_str: the argument after a bare flag is its value,
\* whatever it is; a flag with its value comes second.
opt_value_from_str(args, f) ==
  LET bare == BareIndex(args, f)  equal == EqualIndex(args, f)
  IN  IF bare # 0
      THEN IF bare = Len(args) THEN Failed
           ELSE [error |-> FALSE, found |-> TRUE, value |-> args[bare + 1],
                 rest |-> RemoveAt(RemoveAt(args, bare), bare)]
      ELSE IF equal # 0
      THEN [error |-> FALSE, found |-> TRUE, value |-> <<args[equal][3]>>,
            rest |-> RemoveAt(args, equal)]
      ELSE [error |-> FALSE, found |-> FALSE, value |-> <<>>, rest |-> args]

\* Arguments::subcommand.
HasVerb(args) == args # <<>> /\ Len(args[1]) = 1

-----------------------------------------------------------------------------
(***************************************************************************)
(* parse_shared.  Its state is the arguments left and what was read;       *)
(* values maps a field to the argument that gives it.                      *)
(***************************************************************************)
Put(values, f, v) == [k \in DOMAIN values \union {f} |-> IF k = f THEN v ELSE values[k]]

\* An option with a value, and a flag on its own, into the values.
ReadValue(state, f) ==
  IF state.error THEN state
  ELSE LET r == opt_value_from_str(state.rest, f) IN
       IF r.error THEN [state EXCEPT !.error = TRUE]
       ELSE IF r.found THEN [state EXCEPT !.rest = r.rest, !.values = Put(@, f, r.value)]
       ELSE state

ReadFlag(state, f) ==
  IF ~state.error /\ contains(state.rest, f)
  THEN [state EXCEPT !.rest = WithoutFlag(@, f), !.values = Put(@, f, <<"true">>)]
  ELSE state

\* The value of a boolean must be one.
CheckBool(state, f) ==
  IF f \in DOMAIN state.values
       /\ (Len(state.values[f]) # 1 \/ parse_bool_lenient(state.values[f][1]) = Rejected)
  THEN [state EXCEPT !.error = TRUE] ELSE state

\* Mutant: the value form is tried first.
ReadBool_ValueFirst(state, f) ==
  LET given == ReadValue(state, f)
  IN  IF f \in DOMAIN given.values THEN CheckBool(given, f) ELSE ReadFlag(given, f)

\* Both forms: the bare flag, and failing that the one with a value.
ReadBool(state, f) ==
  IF ~state.error /\ contains(state.rest, f) THEN ReadFlag(state, f)
  ELSE CheckBool(ReadValue(state, f), f)

ReadParam(state, f) ==
  IF PARAMS[f].kind = "Bool" THEN ReadBool(state, f) ELSE ReadValue(state, f)

\* Whatever no reader took is an error.
finish(state) == IF state.rest # <<>> THEN [state EXCEPT !.error = TRUE] ELSE state

parse_shared(args) ==
  LET start == [error |-> FALSE, rest |-> args, values |-> [f \in {} |-> <<>>]]
      files == FoldLeft(ReadValue, start, <<"config", "env-file">>)
      flags == FoldLeft(ReadFlag, files, <<"no-env-file", "ignore-stored-config">>)
  IN  finish(FoldLeft(ReadParam, flags, ParamOrder))

\* The reload verb reads fewer options, and wants at most one of two.
parse_reload(args) ==
  LET start == [error |-> FALSE, rest |-> args, values |-> [f \in {} |-> <<>>]]
      read == finish(ReadFlag(FoldLeft(ReadValue, start, <<"pid", "pid_file", "config", "env-file">>),
                              "no-env-file"))
  IN  IF {"pid", "pid_file"} \subseteq DOMAIN read.values THEN [read EXCEPT !.error = TRUE]
      ELSE read

Action(name, state) ==
  IF state.error THEN Failed ELSE [error |-> FALSE, action |-> name, values |-> state.values]

ConfigVerbs == [show |-> "ConfigShow", check |-> "ConfigCheck", clear |-> "ConfigClear",
                unset |-> "ConfigUnset"]

\* unset names a field before the options.
ConfigAction(args) ==
  LET unset == args[1] = <<"unset">>
      named == Len(args) > 1 /\ Len(args[2]) = 1 /\ args[2][1] \in Fields
      read == parse_shared(SubSeq(args, IF unset THEN 3 ELSE 2, Len(args)))
  IN  IF ~HasVerb(args) THEN Failed
      ELSE IF args[1][1] \notin DOMAIN ConfigVerbs \/ (unset /\ ~named) THEN Failed
      ELSE Action(ConfigVerbs[args[1][1]],
                  IF unset THEN [read EXCEPT !.values = Put(@, "field", args[2])] ELSE read)

\* parse.  Help and the version win wherever they stand.
parse(args) ==
  IF contains(args, "help") THEN [error |-> FALSE, action |-> "Help"]
  ELSE IF contains(args, "version") THEN [error |-> FALSE, action |-> "Version"]
  ELSE IF ~HasVerb(args) \/ args[1] = <<"run">>
  THEN Action("Run", parse_shared(IF HasVerb(args) THEN Tail(args) ELSE args))
  ELSE CASE args[1] = <<"config">> -> ConfigAction(Tail(args))
         [] args[1] = <<"reload">> -> Action("Reload", parse_reload(Tail(args)))
         [] OTHER -> Failed

-----------------------------------------------------------------------------
(***************************************************************************)
(* What an action does with the files and the environment.                 *)
(***************************************************************************)
\* What load_layers is told by the options read.
FilesOf(values, layer) ==
  [values |-> layer,
   env_file |-> IF "no-env-file" \in DOMAIN values THEN "none"
                ELSE IF "env-file" \in DOMAIN values THEN "named" ELSE "default",
   config_file |-> "config" \in DOMAIN values]

\* The layer of the command line: a value as written, or in a secret's case
\* what is in the file it names; secrets are the files that can be read.
ValueLayer(values, secrets) ==
  [f \in DOMAIN values \intersect Fields |->
     IF PARAMS[f].kind = "SecretFile"
     THEN IF values[f][1] \in DOMAIN secrets THEN secrets[values[f][1]] ELSE Rejected
     ELSE IF PARAMS[f].kind = "Bool" THEN parse_bool_lenient(values[f][1])
     ELSE values[f][1]]

\* A walk of its own over the layers, that needs no secrets; files that do
\* not load count as empty.
reload_pid_file(values, env, disk) ==
  LET cli == FilesOf(values, NoLayer)
      layers == load_layers(cli, env, disk)
  IN  IF "pid_file" \in DOMAIN values THEN values["pid_file"][1]
      ELSE IF "pid_file" \in DOMAIN env THEN env["pid_file"]
      ELSE IF LayersLoad(cli, disk) /\ "pid_file" \in DOMAIN layers["env-file"]
      THEN layers["env-file"]["pid_file"]
      ELSE IF LayersLoad(cli, disk) /\ "pid_file" \in DOMAIN layers["file"]
      THEN layers["file"]["pid_file"]
      ELSE PARAMS["pid_file"].default

\* A command that edits the store resolves without it, as the others do.
resolve(values, env, disk, secrets) ==
  LET cli == FilesOf(values, ValueLayer(values, secrets))
  IN  IF ~LayersLoad(cli, disk) THEN Failed
      ELSE IF ~Resolves(load_layers(cli, env, disk)) THEN Failed
      ELSE [error |-> FALSE, config |-> Resolved(load_layers(cli, env, disk))]

\* What main is told to do next; pids are the pid files that name a process.
handle(action, env, disk, secrets, pids) ==
  CASE action.error -> "error"
    [] ~action.error /\ action.action \in {"Help", "Version"} -> "done"
    [] ~action.error /\ action.action = "Reload" ->
         IF "pid" \in DOMAIN action.values THEN "signalled"
         ELSE IF reload_pid_file(action.values, env, disk) \in pids THEN "signalled" ELSE "error"
    [] ~action.error /\ action.action \in {"Run", "ConfigShow", "ConfigCheck", "ConfigUnset", "ConfigClear"} ->
         IF resolve(action.values, env, disk, secrets).error THEN "error"
         ELSE IF action.action = "Run" THEN "serve"
         ELSE IF action.action \in {"ConfigUnset", "ConfigClear"} THEN "edit" ELSE "done"

\* ignore_stored_config: the flag, or a variable that says so.
ignore_stored_config(values, env) ==
  \/ "ignore-stored-config" \in DOMAIN values
  \/ /\ "IGNORE_STORED_CONFIG" \in DOMAIN env
     /\ parse_bool_lenient(env["IGNORE_STORED_CONFIG"]) = "true"

\* The layers a server runs on once it has read the store, and the pid file it
\* writes is resolved from.  A stored layer that this start ignores, or that
\* does not resolve, is left out (apply_stored).
BootStack(values, env, disk, secrets, stored) ==
  LET layers == load_layers(FilesOf(values, ValueLayer(values, secrets)), env, disk)
      whole == Stack(layers, NoLayer, stored, NoLayer)
  IN  IF ~ignore_stored_config(values, env) /\ Resolves(whole) THEN whole ELSE layers
=============================================================================
