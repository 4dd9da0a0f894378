------------------------- MODULE MCCommandLine --------------------------
(***************************************************************************)
(* Command lines of up to MaxArgs arguments, and the files of a server     *)
(* that a reload has to find.                                              *)
(***************************************************************************)
EXTENDS CommandLine, Inputs

MaxArgs == 3       \* bound: the length of an arbitrary command line
MaxOptions == 3    \* bound: the options of a well-formed one

\* The forms an option can be written in, one of them per option.
Written == {
  <<<<"--", "server_port">>, <<"8080">>>>, <<<<"-", "server_port">>, <<"8080">>>>,
  <<<<"--", "server_port", "8080">>>>,
  <<<<"--", "admin_config_write">>>>, <<<<"--", "admin_config_write", "false">>>>,
  <<<<"--", "otel_enabled">>>>,
  <<<<"--", "log_level">>, <<"debug">>>>,
  <<<<"-", "config">>, <<"prod.toml">>>>, <<<<"--", "env-file", "prod.env">>>>,
  <<<<"--", "no-env-file">>>>, <<<<"--", "ignore-stored-config">>>>}

OptionOf(form) == form[1][2]

PickOptions ==
  \E n \in 1 .. MaxOptions : \E forms \in [1 .. n -> Written] :
    /\ \A i, j \in 1 .. n : i < j => OptionOf(forms[i]) # OptionOf(forms[j])
    /\ input' = [of |-> "options", forms |-> forms]

Words == {<<"--", "server_port">>, <<"--", "server_port", "1">>,
          <<"--", "admin_config_write">>, <<"--", "admin_config_write", "no">>,
          <<"--", "config">>, <<"--", "unknown">>, <<"8080">>, <<"run">>, <<"config">>,
          <<"unset">>, <<"log_level">>, <<"reload">>, <<"--", "pid">>}

PickWords ==
  \E n \in 0 .. MaxArgs - 1, first \in Words : \E rest \in [1 .. n -> Words] :
    input' = [of |-> "words", args |-> <<first>> \o rest]

ServerFiles ==
  LET file(name) == {[state |-> "absent", layer |-> NoLayer],
                     [state |-> "broken", layer |-> NoLayer],
                     [state |-> "layer", layer |-> NoLayer],
                     [state |-> "layer", layer |-> [f \in {"pid_file"} |-> name]]}
  IN  [env_file : file("env.pid"), config_file : file("toml.pid")]

\* What is stored: nothing, a name, the name a file gives too, and a name
\* beside a value that does not resolve.
StoredChoices == {NoLayer, [pid_file |-> "stored.pid"], [pid_file |-> "toml.pid"],
                 [pid_file |-> "stored.pid", server_port |-> "70000"]}

PickReload ==
  \E disk \in ServerFiles, options \in SUBSET {"config", "env-file", "no-env-file"},
     named, exported, ignored \in BOOLEAN, stored \in StoredChoices :
    input' = [of |-> "reload", disk |-> disk, options |-> options, named |-> named,
              exported |-> exported, ignored |-> ignored, stored |-> stored]

PickCommandLine == PickOptions \/ PickWords \/ PickReload

-----------------------------------------------------------------------------
(***************************************************************************)
(* Properties.                                                             *)
(***************************************************************************)
\* Options are read as they are written, in any order and in any of their
\* forms: a boolean flag never swallows the option after it (parse_shared).
OptionsReadAsWritten ==
  Given_("options") =>
    LET args == FlattenSeq(input.forms)
        value(form) == IF Len(form) = 2 THEN form[2]
                       ELSE IF Len(form[1]) = 3 THEN <<form[1][3]>> ELSE <<"true">>
        asked == [f \in {OptionOf(input.forms[i]) : i \in DOMAIN input.forms} |->
                    value(input.forms[CHOOSE i \in DOMAIN input.forms : OptionOf(input.forms[i]) = f])]
    IN  parse(args) = [error |-> FALSE, action |-> "Run", values |-> asked]

\* No argument is silently ignored: of a line that is accepted, each one could
\* not have been left out without a change (finish).
NothingIsIgnored ==
  Given_("words") =>
    LET args == input.args
        read == parse(args)
    IN  ~read.error =>
          \A i \in DOMAIN args : args[i] # <<"run">> =>
            parse(RemoveAt(args, i)) # read

\* captchapi reload, started with the files and the environment of a server,
\* finds the pid file that server writes, unless the store names it and the
\* layers say something else without the store: reload_pid_file walks the same
\* layers as the server, in the same order, but the stored one, which it never
\* reads.
ReloadFindsServer ==
  Given_("reload") =>
    LET values == [o \in input.options |-> <<"path">>]
        secrets == [f \in {"api_key_salt", "master_api_key"} |-> "0123456789abcdef"]
        env == IF input.exported THEN Over([f \in {"pid_file"} |-> "env-var.pid"], secrets)
               ELSE secrets
        told == IF input.named THEN Put(values, "pid_file", <<"named.pid">>) ELSE values
        given == IF input.ignored THEN Put(told, "ignore-stored-config", <<"true">>) ELSE told
        stack == BootStack(given, env, input.disk, <<>>, input.stored)
        storeless == [stack EXCEPT !["stored"] = NoLayer]
        started == handle([error |-> FALSE, action |-> "Run", values |-> given],
                          env, input.disk, <<>>, {}) = "serve"
        found == handle([error |-> FALSE, action |-> "Reload", values |-> told],
                        env, input.disk, <<>>, {Resolved(stack)["pid_file"]}) = "signalled"
    IN  started =>
          (found <=> (source_of(stack, "pid_file") = "stored" =>
                        Resolved(storeless)["pid_file"] = Resolved(stack)["pid_file"]))

\* A line is read as it is written, to its last argument, and the reload verb
\* comes to the server it is meant for unless the store put its pid file
\* elsewhere.
CommandLineIsRead == OptionsReadAsWritten /\ NothingIsIgnored /\ ReloadFindsServer
=============================================================================
