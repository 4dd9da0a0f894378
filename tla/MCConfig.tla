----------------------------- MODULE MCConfig -----------------------------
(***************************************************************************)
(* The running configuration, driven in one of two ways chosen at the      *)
(* start: by any caller at all ("handle"), or by the requests, signals and *)
(* restarts of one server ("server"), whose administrators store a port    *)
(* and an attempt limit.  One setting is pinned on the command line and    *)
(* two are in the environment; files lose a setting, a secret or           *)
(* everything.                                                             *)
(***************************************************************************)
EXTENDS ConfigAdmin, TLC

CONSTANTS
  Modes,          \* which of "handle" and "server" to explore
  ServerDisks     \* what the files of a server may contain

VARIABLE mode

MCCli == [values |-> "cleanup_interval_seconds" :> "10", env_file |-> "default",
          config_file |-> TRUE]

MCEnv == "master_api_key" :> "key-of-16-bytes" @@ "captcha_compression" :> "200"
         @@ "admin_restart_enabled" :> "true"

Holding(layer) == [state |-> "layer", layer |-> layer]
Broken == [state |-> "broken", layer |-> NoLayer]
Absent == [state |-> "absent", layer |-> NoLayer]

Salt == "api_key_salt" :> "salt-of-16-bytes"

AsDeployed == [env_file |-> Holding(Salt), config_file |-> Holding("server_port" :> "8080")]
FileMissing == [env_file |-> Holding(Salt), config_file |-> Absent]
SaltRemoved == [env_file |-> Absent, config_file |-> Holding("server_port" :> "8080")]

MCDisks == {
  AsDeployed, FileMissing, SaltRemoved,
  [env_file |-> Holding(Salt), config_file |-> Holding("max_validation_attempts" :> "5")],
  [env_file |-> Holding("api_key_salt" :> "another-salt-of-16"), config_file |-> Holding(NoLayer)],
  [env_file |-> Absent, config_file |-> Holding(NoLayer)],
  [env_file |-> Broken, config_file |-> Holding(NoLayer)]}

OneDisk == {AsDeployed}
TwoDisks == {AsDeployed, FileMissing}
SaltGoes == {AsDeployed, SaltRemoved}

MCStoredLayers == {
  NoLayer,
  "server_port" :> "300" @@ "cleanup_interval_seconds" :> "many",
  "server_port" :> "300" @@ "max_validation_attempts" :> "many",
  "max_validation_attempts" :> "2"}

MCPatches == {
  "max_validation_attempts" :> "10",
  "max_validation_attempts" :> "many",
  "log_level" :> "debug",
  "log_level" :> "::=",
  "captcha_compression" :> "60",
  "server_port" :> "5"}

MCOverrides == {"max_validation_attempts" :> "10"}

MCPuts == {"server_port" :> "300", "max_validation_attempts" :> "2",
           "otel_enabled" :> "true"}

MCDeletes == {"max_validation_attempts"}

\* A handle alone has no server around it.
MCInit ==
  /\ mode \in Modes
  /\ \/ mode = "server" /\ AdminInit /\ disk \in ServerDisks /\ held = NoLayer
     \/ /\ mode = "handle"
        /\ HandleInit
        /\ store = NoLayer /\ req = [c \in Clients |-> Idle] /\ hup = Idle
        /\ life = "down" /\ blame = {}

MCNext ==
  \/ mode = "server" /\ AdminNext /\ UNCHANGED mode
  \/ mode = "handle" /\ Next /\ UNCHANGED <<mode, store, req, hup, life, blame>>

MCSpec == MCInit /\ [][MCNext]_<<mode, adminVars>>

\* The files of a server take fewer forms than a handle alone is tried with.
ServerBounds == mode = "server" => disk \in ServerDisks
=============================================================================
