----------------------- MODULE ConfigHandleProofs -----------------------
(***************************************************************************)
(* Proofs about the running configuration, for any files, any stored       *)
(* layers, any patches, any command line and environment.                  *)
(***************************************************************************)
EXTENDS ConfigHandle, TLAPS

-----------------------------------------------------------------------------
(***************************************************************************)
(* The table and the layers.                                               *)
(***************************************************************************)
\* The groups the table is written in.
LEMMA TableAt ==
  /\ DOMAIN ServerParams = {"server_host", "server_port", "pid_file", "database_url",
                            "database_max_connections"}
  /\ DOMAIN SecretParams = {"api_key_salt", "master_api_key", "solution_hash_secret",
                            "image_encryption_secret"}
  /\ DOMAIN SessionParams = {"default_session_ttl_seconds", "max_session_ttl_seconds",
       "max_validation_attempts", "captcha_compression", "cleanup_interval_seconds"}
  /\ DOMAIN AccessParams = {"rate_limit_requests_per_second", "rate_limit_burst_size",
       "rate_limit_reverse_proxy", "admin_config_write", "admin_restart_enabled"}
  /\ DOMAIN TelemetryParams = {"log_level", "otel_enabled", "otel_endpoint",
                               "otel_service_name"}
  /\ Fields = DOMAIN ServerParams \union DOMAIN SecretParams \union DOMAIN SessionParams
              \union DOMAIN AccessParams \union DOMAIN TelemetryParams
  /\ \A f \in DOMAIN ServerParams : PARAMS[f] = ServerParams[f]
  /\ \A f \in DOMAIN SecretParams : PARAMS[f] = SecretParams[f]
  /\ \A f \in DOMAIN SessionParams : PARAMS[f] = SessionParams[f]
  /\ \A f \in DOMAIN AccessParams : PARAMS[f] = AccessParams[f]
  /\ \A f \in DOMAIN TelemetryParams : PARAMS[f] = TelemetryParams[f]
  <1>1. /\ DOMAIN ServerParams = {"server_host", "server_port", "pid_file", "database_url",
                                  "database_max_connections"}
        /\ DOMAIN SecretParams = {"api_key_salt", "master_api_key", "solution_hash_secret",
                                  "image_encryption_secret"}
        /\ DOMAIN SessionParams = {"default_session_ttl_seconds", "max_session_ttl_seconds",
             "max_validation_attempts", "captcha_compression", "cleanup_interval_seconds"}
        /\ DOMAIN AccessParams = {"rate_limit_requests_per_second", "rate_limit_burst_size",
             "rate_limit_reverse_proxy", "admin_config_write", "admin_restart_enabled"}
        /\ DOMAIN TelemetryParams = {"log_level", "otel_enabled", "otel_endpoint",
                                     "otel_service_name"}
    BY DEF ServerParams, SecretParams, SessionParams, AccessParams, TelemetryParams
  <1>2. Fields = DOMAIN ServerParams \union DOMAIN SecretParams \union DOMAIN SessionParams
                 \union DOMAIN AccessParams \union DOMAIN TelemetryParams
    BY DEF Fields, PARAMS, Over
  <1> QED BY <1>1, <1>2 DEF PARAMS, Over

\* with_boot_fields_from's list names no field that the table calls boot.
LEMMA AdoptedAreLive ==
  /\ AdoptedFields \subseteq LiveFields /\ AdoptedFields \subseteq Fields
  /\ AdoptedFields \intersect BootFields = {}
  <1>1. \A f \in AdoptedFields : f = "log_level" \/ f \in DOMAIN SessionParams
    BY TableAt DEF AdoptedFields
  <1>2. TelemetryParams["log_level"].reload = "Live"
    BY DEF TelemetryParams, Param
  <1>3. \A f \in DOMAIN SessionParams : SessionParams[f].reload = "Live"
    BY TableAt DEF SessionParams, Param
  <1> QED BY <1>1, <1>2, <1>3, TableAt DEF BootFields, LiveFields

\* ... and every field that it does not call boot.
LEMMA LiveAreAdopted ==
  LiveFields \subseteq AdoptedFields /\ Fields \subseteq AdoptedFields \union BootFields
  <1>1. \A f \in DOMAIN ServerParams : ServerParams[f].reload = "Boot"
    BY DEF ServerParams, Param
  <1>2. \A f \in DOMAIN SecretParams : SecretParams[f].reload = "Boot"
    BY DEF SecretParams, SecretParam
  <1>3. \A f \in DOMAIN AccessParams : AccessParams[f].reload = "Boot"
    BY DEF AccessParams, Param
  <1>4. \A f \in DOMAIN TelemetryParams : f # "log_level" => TelemetryParams[f].reload = "Boot"
    <2>1. TelemetryParams["otel_enabled"].reload = "Boot"
      BY DEF TelemetryParams, Param
    <2>2. TelemetryParams["otel_endpoint"].reload = "Boot"
      BY DEF TelemetryParams, Param
    <2>3. TelemetryParams["otel_service_name"].reload = "Boot"
      BY DEF TelemetryParams, Param
    <2> QED BY <2>1, <2>2, <2>3, TableAt
  <1>5. DOMAIN SessionParams \subseteq AdoptedFields
    BY TableAt DEF AdoptedFields
  <1>6. \A f \in Fields \ AdoptedFields : PARAMS[f].reload = "Boot"
    BY <1>1, <1>2, <1>3, <1>4, <1>5, TableAt DEF AdoptedFields
  <1> QED BY <1>6 DEF LiveFields, BootFields

LEMMA OverAt ==
  ASSUME NEW top, NEW bottom
  PROVE  /\ DOMAIN Over(top, bottom) = DOMAIN top \union DOMAIN bottom
         /\ \A k \in DOMAIN top : Over(top, bottom)[k] = top[k]
         /\ \A k \in DOMAIN bottom \ DOMAIN top : Over(top, bottom)[k] = bottom[k]
  BY DEF Over

\* What each layer of a stack is.
LEMMA StackAt ==
  ASSUME NEW files, NEW over, NEW stored, NEW carried
  PROVE  LET stack == Stack(load_layers(Cli, Env, files), over, stored, carried) IN
         /\ stack["admin"] = over
         /\ stack["cli"] = Cli.values
         /\ stack["env"] = Env
         /\ stack["stored"] = stored
         /\ stack["env-file"] = load_layers(Cli, Env, files)["env-file"]
         /\ stack["file"] = load_layers(Cli, Env, files)["file"]
         /\ stack["carried"] = carried
  <1>1. LayerNames = {"admin", "cli", "env", "stored", "env-file", "file", "carried"}
    BY DEF LayerNames, Precedence
  <1> QED BY <1>1 DEF Stack, load_layers

\* The probe answers with the first layer that has the field.
LEMMA SourceIs ==
  ASSUME NEW stack, NEW f
  PROVE  source_of(stack, f) =
           IF f \in DOMAIN stack["admin"] THEN "admin"
           ELSE IF f \in DOMAIN stack["cli"] THEN "cli"
           ELSE IF f \in DOMAIN stack["env"] THEN "env"
           ELSE IF f \in DOMAIN stack["stored"] THEN "stored"
           ELSE IF f \in DOMAIN stack["env-file"] THEN "env-file"
           ELSE IF f \in DOMAIN stack["file"] THEN "file"
           ELSE IF f \in DOMAIN stack["carried"] THEN "carried"
           ELSE "default"
  <1> DEFINE Has(i) == f \in DOMAIN stack[Precedence[i]]
             First(i) == Has(i) /\ \A j \in 1 .. i - 1 : ~Has(j)
  <1>1. /\ DOMAIN Precedence = 1 .. 7
        /\ Precedence[1] = "admin" /\ Precedence[2] = "cli" /\ Precedence[3] = "env"
        /\ Precedence[4] = "stored" /\ Precedence[5] = "env-file" /\ Precedence[6] = "file"
        /\ Precedence[7] = "carried"
    BY DEF Precedence
  <1>2. source_of(stack, f) = IF \E i \in 1 .. 7 : Has(i)
                              THEN Precedence[CHOOSE i \in 1 .. 7 : First(i)] ELSE "default"
    BY <1>1 DEF source_of
  <1>3. /\ Has(1) <=> f \in DOMAIN stack["admin"]
        /\ Has(2) <=> f \in DOMAIN stack["cli"]
        /\ Has(3) <=> f \in DOMAIN stack["env"]
        /\ Has(4) <=> f \in DOMAIN stack["stored"]
        /\ Has(5) <=> f \in DOMAIN stack["env-file"]
        /\ Has(6) <=> f \in DOMAIN stack["file"]
        /\ Has(7) <=> f \in DOMAIN stack["carried"]
    BY <1>1
  <1> HIDE DEF Has
  <1>4. ASSUME NEW k \in 1 .. 7, First(k)
        PROVE  source_of(stack, f) = Precedence[k]
    <2>1. \A i \in 1 .. 7 : First(i) => i = k
      BY <1>4
    <2>2. (CHOOSE i \in 1 .. 7 : First(i)) = k
      BY <1>4, <2>1
    <2> QED BY <1>2, <1>4, <2>2
  <1>5. /\ 1 .. 1 - 1 = {} /\ 1 .. 2 - 1 = {1} /\ 1 .. 3 - 1 = {1, 2}
        /\ 1 .. 4 - 1 = {1, 2, 3} /\ 1 .. 5 - 1 = {1, 2, 3, 4}
        /\ 1 .. 6 - 1 = {1, 2, 3, 4, 5} /\ 1 .. 7 - 1 = {1, 2, 3, 4, 5, 6}
        /\ 1 .. 7 = {1, 2, 3, 4, 5, 6, 7}
    OBVIOUS
  <1>6. CASE \A i \in 1 .. 7 : ~Has(i)
    BY <1>2, <1>3, <1>5, <1>6
  <1>7. CASE Has(1)
    BY <1>1, <1>3, <1>4, <1>5, <1>7
  <1>8. CASE ~Has(1) /\ Has(2)
    BY <1>1, <1>3, <1>4, <1>5, <1>8
  <1>9. CASE ~Has(1) /\ ~Has(2) /\ Has(3)
    BY <1>1, <1>3, <1>4, <1>5, <1>9
  <1>10. CASE ~Has(1) /\ ~Has(2) /\ ~Has(3) /\ Has(4)
    BY <1>1, <1>3, <1>4, <1>5, <1>10
  <1>11. CASE ~Has(1) /\ ~Has(2) /\ ~Has(3) /\ ~Has(4) /\ Has(5)
    BY <1>1, <1>3, <1>4, <1>5, <1>11
  <1>12. CASE ~Has(1) /\ ~Has(2) /\ ~Has(3) /\ ~Has(4) /\ ~Has(5) /\ Has(6)
    BY <1>1, <1>3, <1>4, <1>5, <1>12
  <1>13. CASE ~Has(1) /\ ~Has(2) /\ ~Has(3) /\ ~Has(4) /\ ~Has(5) /\ ~Has(6) /\ Has(7)
    BY <1>1, <1>3, <1>4, <1>5, <1>13
  <1> QED BY <1>5, <1>6, <1>7, <1>8, <1>9, <1>10, <1>11, <1>12, <1>13

\* ... and that layer is the one a field is read from: source_of and get,
\* which walk the layers separately, never disagree.
THEOREM SourceIsWhatAnswers ==
  ASSUME NEW stack, NEW f
  PROVE  /\ f \in DOMAIN Given(stack) <=> source_of(stack, f) # "default"
         /\ f \in DOMAIN Given(stack) =>
              /\ f \in DOMAIN stack[source_of(stack, f)]
              /\ Given(stack)[f] = stack[source_of(stack, f)][f]
  <1> DEFINE G6 == Over(stack["file"], stack["carried"])
             G5 == Over(stack["env-file"], G6)
             G4 == Over(stack["stored"], G5)
             G3 == Over(stack["env"], G4)
             G2 == Over(stack["cli"], G3)
             G1 == Over(stack["admin"], G2)
             Either(top, bottom, all) ==
               /\ f \in DOMAIN all <=> f \in DOMAIN top \/ f \in DOMAIN bottom
               /\ f \in DOMAIN top => all[f] = top[f]
               /\ f \notin DOMAIN top /\ f \in DOMAIN bottom => all[f] = bottom[f]
  <1>1. ASSUME NEW top, NEW bottom PROVE Either(top, bottom, Over(top, bottom))
    BY DEF Over
  <1>2. Given(stack) = G1
    BY DEF Given
  <1>3. /\ Either(stack["file"], stack["carried"], G6) /\ Either(stack["env-file"], G6, G5)
        /\ Either(stack["stored"], G5, G4) /\ Either(stack["env"], G4, G3)
        /\ Either(stack["cli"], G3, G2) /\ Either(stack["admin"], G2, G1)
    <2> HIDE DEF Either
    <2> QED BY <1>1
  <1> HIDE DEF G1, G2, G3, G4, G5, G6
  <1>4. \A s \in {"admin", "cli", "env", "stored", "env-file", "file", "carried"} : s # "default"
    OBVIOUS
  <1> QED BY <1>2, <1>3, <1>4, SourceIs

\* The probe answers admin of exactly the overlay's fields.
LEMMA SourceAdmin ==
  ASSUME NEW stack, NEW f
  PROVE  source_of(stack, f) = "admin" <=> f \in DOMAIN stack["admin"]
  BY SourceIs

\* Without an override, a field given to the process is pinned.
LEMMA SourcePinned ==
  ASSUME NEW stack, NEW f, f \notin DOMAIN stack["admin"],
         f \in DOMAIN stack["cli"] \/ f \in DOMAIN stack["env"]
  PROVE  is_pinned(source_of(stack, f))
  BY SourceIs DEF is_pinned

\* Where a field is given, it is parsed as its type says, the derived
\* secrets included.
LEMMA FieldGiven ==
  ASSUME NEW given, NEW f \in Fields, f \in DOMAIN given
  PROVE  FieldFrom(given, f) = Parse(f, given[f])
  <1>1. SecretParams["solution_hash_secret"].kind = "SecretFile"
    BY DEF SecretParams, SecretParam
  <1>2. SecretParams["image_encryption_secret"].kind = "SecretFile"
    BY DEF SecretParams, SecretParam
  <1>3. CASE f \in Derived
    <2>1. /\ f \in DOMAIN SecretParams
          /\ f \notin DOMAIN ServerParams
      BY <1>3 DEF SecretParams, ServerParams, Derived
    <2>2. PARAMS[f].kind = "SecretFile"
      BY <1>1, <1>2, <1>3, <2>1 DEF PARAMS, Over, Derived
    <2>3. Parse(f, given[f]) = SecretParse(given[f])
      BY <1>3, <2>2 DEF Parse, Derived
    <2>4. FieldFrom(given, f) = derived_secret(given, f)
      BY <1>3 DEF FieldFrom
    <2>5. derived_secret(given, f) = SecretParse(given[f])
      BY DEF derived_secret
    <2> QED BY <2>3, <2>4, <2>5
  <1>4. CASE f \notin Derived
    BY <1>4 DEF FieldFrom
  <1> QED BY <1>3, <1>4

\* Two maps say the same of a field.
Agree(a, b, f) == (f \in DOMAIN a <=> f \in DOMAIN b) /\ (f \in DOMAIN a => a[f] = b[f])

\* Stacks that differ in what they carry, and agree on a field there.
LEMMA GivenAgree ==
  ASSUME NEW files, NEW over, NEW stored, NEW a, NEW b, NEW f, Agree(a, b, f)
  PROVE  Agree(Given(Stack(load_layers(Cli, Env, files), over, stored, a)),
               Given(Stack(load_layers(Cli, Env, files), over, stored, b)), f)
  <1> DEFINE A == Stack(load_layers(Cli, Env, files), over, stored, a)
             B == Stack(load_layers(Cli, Env, files), over, stored, b)
  <1>1. /\ A["admin"] = B["admin"] /\ A["cli"] = B["cli"] /\ A["env"] = B["env"]
        /\ A["stored"] = B["stored"] /\ A["env-file"] = B["env-file"]
        /\ A["file"] = B["file"] /\ A["carried"] = a /\ B["carried"] = b
    BY StackAt
  <1> HIDE DEF A, B
  <1>2. source_of(A, f) = source_of(B, f)
    BY <1>1, SourceIs DEF Agree
  <1>3. source_of(A, f) # "default" => A[source_of(A, f)][f] = B[source_of(A, f)][f]
    BY <1>1, SourceIs DEF Agree
  <1>4. \A stack : /\ f \in DOMAIN Given(stack) <=> source_of(stack, f) # "default"
                   /\ f \in DOMAIN Given(stack) =>
                        Given(stack)[f] = stack[source_of(stack, f)][f]
    BY SourceIsWhatAnswers
  <1> QED BY <1>2, <1>3, <1>4 DEF Agree, A, B

\* A live field resolves by what is given of it alone.
LEMMA LiveAgree ==
  ASSUME NEW a, NEW b, NEW f \in LiveFields, Agree(a, b, f)
  PROVE  FieldFrom(a, f) = FieldFrom(b, f)
  <1>1. f \notin Derived
    BY LiveAreAdopted DEF AdoptedFields, Derived
  <1> QED BY <1>1 DEF FieldFrom, Agree

-----------------------------------------------------------------------------
(***************************************************************************)
(* A resolved value, printed and carried over, is read back as itself.     *)
(***************************************************************************)
LEMMA NumberReadBack ==
  ASSUME NEW fits, NEW s, IntParse(fits, s) # Rejected
  PROVE  IntParse(fits, IntParse(fits, s)) = IntParse(fits, s)
  <1>1. Printed(Printed(s)) = Printed(s)
    BY DEF Printed
  <1>2. IntParse(fits, s) = Printed(s) /\ Printed(s) \in fits
    BY DEF IntParse
  <1> QED BY <1>1, <1>2 DEF IntParse

\* Which fields are numbers, and of which type; which are truth values.
Sized(f) ==
  CASE f = "server_port" -> FitsPort
    [] f \in {"database_max_connections", "rate_limit_burst_size"} -> FitsU32
    [] f \in {"default_session_ttl_seconds", "max_session_ttl_seconds",
              "cleanup_interval_seconds", "rate_limit_requests_per_second"} -> FitsU64
    [] f = "max_validation_attempts" -> FitsI64

Numbers == {"server_port", "database_max_connections", "rate_limit_burst_size",
            "default_session_ttl_seconds", "max_session_ttl_seconds",
            "cleanup_interval_seconds", "rate_limit_requests_per_second",
            "max_validation_attempts"}

Lenient == {"admin_config_write", "otel_enabled"}

\* No field but a secret is of a secret's kind, so Parse has one answer.
LEMMA ParseAt ==
  ASSUME NEW f \in Fields, NEW s
  PROVE  Parse(f, s) =
           IF f \in Numbers THEN IntParse(Sized(f), s)
           ELSE IF f = "captcha_compression" THEN ClampParse(s)
           ELSE IF f = "rate_limit_reverse_proxy" THEN parse_bool(s)
           ELSE IF f \in Lenient THEN parse_bool_lenient(s)
           ELSE IF f = "admin_restart_enabled"
                THEN IF parse_bool_lenient(s) = Rejected THEN "false" ELSE parse_bool_lenient(s)
           ELSE IF f \in DOMAIN SecretParams THEN SecretParse(s)
           ELSE s
  <1>1. \A g \in DOMAIN SecretParams : SecretParams[g].kind = "SecretFile"
    BY DEF SecretParams, SecretParam
  <1>2. \A g \in DOMAIN ServerParams : ServerParams[g].kind # "SecretFile"
    BY DEF ServerParams, Param
  <1>3. \A g \in DOMAIN SessionParams : SessionParams[g].kind # "SecretFile"
    BY DEF SessionParams, Param
  <1>4. \A g \in DOMAIN AccessParams : AccessParams[g].kind # "SecretFile"
    BY DEF AccessParams, Param
  <1>5. \A g \in DOMAIN TelemetryParams : TelemetryParams[g].kind # "SecretFile"
    <2>1. TelemetryParams["log_level"].kind = "Str"
      BY DEF TelemetryParams, Param
    <2>2. TelemetryParams["otel_enabled"].kind = "Bool"
      BY DEF TelemetryParams, Param
    <2>3. TelemetryParams["otel_endpoint"].kind = "Str"
      BY DEF TelemetryParams, Param
    <2>4. TelemetryParams["otel_service_name"].kind = "Str"
      BY DEF TelemetryParams, Param
    <2> QED BY <2>1, <2>2, <2>3, <2>4, TableAt
  <1>6. PARAMS[f].kind = "SecretFile" <=> f \in DOMAIN SecretParams
    BY <1>1, <1>2, <1>3, <1>4, <1>5, TableAt
  <1>7. f \in DOMAIN SecretParams =>
          f \notin Numbers \union Lenient \union {"captcha_compression",
                     "rate_limit_reverse_proxy", "admin_restart_enabled"}
    BY TableAt DEF Numbers, Lenient
  <1>8. CASE f \in Numbers
    BY <1>6, <1>7, <1>8 DEF Parse, Sized, Numbers
  <1>9. CASE f \notin Numbers
    BY <1>6, <1>7, <1>9 DEF Parse, Numbers, Lenient
  <1> QED BY <1>8, <1>9

LEMMA ParseReadBack ==
  ASSUME NEW f \in Fields, NEW s, Parse(f, s) # Rejected
  PROVE  Parse(f, Parse(f, s)) = Parse(f, s)
  <1>1. ASSUME NEW t, ClampParse(t) # Rejected PROVE ClampParse(ClampParse(t)) = ClampParse(t)
    <2>1. "1" \in FitsByte /\ "100" \in FitsByte
      BY DEF FitsByte
    <2>2. Printed("1") = "1" /\ Printed("100") = "100"
      BY DEF Printed
    <2>3. ClampParse("1") = "1" /\ ClampParse("100") = "100"
      BY <2>1, <2>2 DEF ClampParse, IntParse
    <2>4. CASE IntParse(FitsByte, t) \in {"0", "200"}
      BY <2>3, <2>4 DEF ClampParse
    <2>5. CASE IntParse(FitsByte, t) \notin {"0", "200"}
      <3>1. ClampParse(t) = IntParse(FitsByte, t)
        BY <2>5 DEF ClampParse
      <3>2. IntParse(FitsByte, ClampParse(t)) = IntParse(FitsByte, t)
        BY <1>1, <3>1, NumberReadBack
      <3> QED BY <2>5, <3>1, <3>2 DEF ClampParse
    <2> QED BY <2>4, <2>5
  <1>2. \A t : parse_bool(t) # Rejected => parse_bool(parse_bool(t)) = parse_bool(t)
    BY DEF parse_bool
  <1>3. /\ parse_bool_lenient("true") = "true"
        /\ parse_bool_lenient("false") = "false"
        /\ \A t : parse_bool_lenient(t) \in {"true", "false", Rejected}
        /\ "true" # Rejected /\ "false" # Rejected
    BY DEF parse_bool_lenient, Rejected
  <1>4. \A t : SecretParse(t) # Rejected => SecretParse(SecretParse(t)) = SecretParse(t)
    BY DEF SecretParse
  <1>5. \A t : IntParse(Sized(f), t) # Rejected =>
                 IntParse(Sized(f), IntParse(Sized(f), t)) = IntParse(Sized(f), t)
    BY NumberReadBack
  <1> QED BY <1>1, <1>2, <1>3, <1>4, <1>5, ParseAt

\* The defaults a boot field may have are spelled as they would be printed.
LEMMA DefaultReadBack ==
  ASSUME NEW f \in BootFields, PARAMS[f].default # Required
  PROVE  Parse(f, PARAMS[f].default) = PARAMS[f].default
  <1>1. /\ PARAMS["server_port"].default = "3000"
        /\ PARAMS["database_max_connections"].default = "5"
    BY TableAt DEF ServerParams, Param
  <1>2. /\ PARAMS["rate_limit_requests_per_second"].default = "2"
        /\ PARAMS["rate_limit_burst_size"].default = "10"
        /\ PARAMS["rate_limit_reverse_proxy"].default = "false"
        /\ PARAMS["admin_config_write"].default = "true"
        /\ PARAMS["admin_restart_enabled"].default = "false"
    BY TableAt DEF AccessParams, Param
  <1>3. PARAMS["otel_enabled"].default = "false"
    <2>1. TelemetryParams["otel_enabled"].default = "false"
      BY DEF TelemetryParams, Param
    <2> QED BY <2>1, TableAt
  <1>4. f \notin DOMAIN SecretParams
    <2>1. \A g \in DOMAIN SecretParams : SecretParams[g].default = Required
      BY DEF SecretParams, SecretParam
    <2> QED BY <2>1, TableAt
  <1>5. f \in Fields /\ f \notin AdoptedFields
    BY AdoptedAreLive DEF BootFields
  <1>6. /\ "3000" \in FitsPort /\ "5" \in FitsU32 /\ "2" \in FitsU64 /\ "10" \in FitsU32
        /\ \A s \in {"3000", "5", "2", "10"} : Printed(s) = s
    BY DEF FitsPort, FitsU32, FitsBoth, FitsU64, FitsByte, Printed
  <1>7. CASE f \in Numbers
    BY <1>1, <1>2, <1>5, <1>6, <1>7, ParseAt DEF Numbers, Sized, IntParse, AdoptedFields
  <1>8. CASE f \in Lenient \union {"rate_limit_reverse_proxy", "admin_restart_enabled"}
    <2>1. /\ parse_bool_lenient("true") = "true" /\ parse_bool_lenient("false") = "false"
          /\ parse_bool("false") = "false" /\ "false" # Rejected
      BY DEF parse_bool_lenient, parse_bool, Rejected
    <2> QED BY <1>2, <1>3, <1>5, <1>8, <2>1, ParseAt DEF Numbers, Lenient
  <1>9. CASE f \notin Numbers \union Lenient
                      \union {"rate_limit_reverse_proxy", "admin_restart_enabled"}
    BY <1>4, <1>5, <1>9, ParseAt DEF AdoptedFields
  <1> QED BY <1>7, <1>8, <1>9

\* A secret derived from the salt is the salt as it was accepted.
LEMMA BootSettles ==
  ASSUME NEW stack, Resolves(stack), NEW f \in BootFields
  PROVE  Parse(f, Resolved(stack)[f]) = Resolved(stack)[f]
  <1> DEFINE given == Given(stack)
  <1>1. f \in Fields /\ "api_key_salt" \in Fields /\ \A g \in Derived : g \in DOMAIN SecretParams
    BY TableAt DEF BootFields, Derived
  <1>2. \A g \in Fields : Resolved(stack)[g] = FieldFrom(given, g)
    BY DEF Resolved, from_env_provider
  <1>3. \A g \in Fields : FieldFrom(given, g) # Rejected
    BY <1>2 DEF Resolves
  <1> HIDE DEF given
  <1>4. CASE f \in DOMAIN given
    BY <1>1, <1>2, <1>3, <1>4, FieldGiven, ParseReadBack
  <1>5. CASE f \notin DOMAIN given /\ f \in Derived
    <2>1. "api_key_salt" \in DOMAIN given /\ FieldFrom(given, f) = given["api_key_salt"]
      BY <1>1, <1>3, <1>5 DEF FieldFrom, derived_secret
    <2>2. "api_key_salt" \in DOMAIN SecretParams
      BY TableAt
    <2>3. \A g \in DOMAIN SecretParams : \A t : Parse(g, t) = SecretParse(t)
      BY ParseAt, TableAt DEF Numbers, Lenient
    <2>4. SecretParse(given["api_key_salt"]) # Rejected
      BY <1>1, <1>3, <2>1, <2>2, <2>3, FieldGiven
    <2>5. SecretParse(given["api_key_salt"]) = given["api_key_salt"]
      BY <2>4 DEF SecretParse
    <2> QED BY <1>1, <1>2, <1>5, <2>1, <2>3, <2>5
  <1>6. CASE f \notin DOMAIN given /\ f \notin Derived
    BY <1>1, <1>2, <1>3, <1>6, DefaultReadBack DEF FieldFrom
  <1> QED BY <1>4, <1>5, <1>6

-----------------------------------------------------------------------------
(***************************************************************************)
(* Stacks as the handle builds them.                                       *)
(***************************************************************************)
Pinned == DOMAIN Cli.values \union DOMAIN Env

LEMMA NoLayerEmpty == DOMAIN NoLayer = {}
  BY DEF NoLayer

\* A stored setting is in force, or the layer that masks it is above the
\* store.
LEMMA StoredSource ==
  ASSUME NEW files, NEW over, NEW stored, NEW carried, NEW f \in DOMAIN stored
  PROVE  LET source == source_of(Stack(load_layers(Cli, Env, files), over, stored, carried), f)
         IN  /\ source = "stored" <=> f \notin DOMAIN over \union Pinned
             /\ source \in {"admin", "cli", "env", "stored"}
  BY StackAt, SourceIs DEF Pinned

\* ... and in force, it is what is given.
LEMMA StoredGiven ==
  ASSUME NEW files, NEW over, NEW stored, NEW carried, NEW f \in DOMAIN stored,
         f \notin DOMAIN over \union Pinned
  PROVE  LET stack == Stack(load_layers(Cli, Env, files), over, stored, carried)
         IN  f \in DOMAIN Given(stack) /\ Given(stack)[f] = stored[f]
  <1> DEFINE stack == Stack(load_layers(Cli, Env, files), over, stored, carried)
  <1>1. source_of(stack, f) = "stored" /\ stack["stored"] = stored
    BY StackAt, StoredSource
  <1> HIDE DEF stack
  <1>2. f \in DOMAIN Given(stack) /\ Given(stack)[f] = stored[f]
    BY <1>1, SourceIsWhatAnswers
  <1> QED BY <1>2 DEF stack

\* What a start would be given is given to a resolve too, of every field that
\* is not overridden; of the rest it is given what is carried.
LEMMA GivenFresh ==
  ASSUME NEW files, NEW over, NEW stored, NEW carried, NEW f, f \notin DOMAIN over
  PROVE  LET fresh == Given(Fresh(files, stored))
             stack == Stack(load_layers(Cli, Env, files), over, stored, carried)
             given == Given(stack)
         IN  /\ f \in DOMAIN fresh => f \in DOMAIN given /\ given[f] = fresh[f]
             /\ f \notin DOMAIN fresh => (f \in DOMAIN given <=> f \in DOMAIN carried)
             /\ f \notin DOMAIN fresh /\ f \in DOMAIN carried =>
                  given[f] = carried[f] /\ source_of(stack, f) = "carried"
  <1> DEFINE S == Stack(load_layers(Cli, Env, files), over, stored, carried)
             F == Fresh(files, stored)
  <1>1. /\ F["admin"] = NoLayer /\ S["admin"] = over
        /\ F["cli"] = S["cli"] /\ F["env"] = S["env"] /\ F["stored"] = S["stored"]
        /\ F["env-file"] = S["env-file"] /\ F["file"] = S["file"]
        /\ F["carried"] = NoLayer /\ S["carried"] = carried
    BY StackAt DEF Fresh
  <1> HIDE DEF S, F
  <1>2. \A stack : /\ f \in DOMAIN Given(stack) <=> source_of(stack, f) # "default"
                   /\ f \in DOMAIN Given(stack) =>
                        Given(stack)[f] = stack[source_of(stack, f)][f]
    BY SourceIsWhatAnswers
  <1>3. CASE source_of(F, f) # "default"
    <2>1. source_of(S, f) = source_of(F, f) /\ S[source_of(F, f)] = F[source_of(F, f)]
      BY <1>1, <1>3, NoLayerEmpty, SourceIs
    <2> QED BY <1>2, <1>3, <2>1 DEF S, F
  <1>4. CASE source_of(F, f) = "default"
    <2>1. source_of(S, f) = IF f \in DOMAIN carried THEN "carried" ELSE "default"
      BY <1>1, <1>4, NoLayerEmpty, SourceIs
    <2> QED BY <1>1, <1>2, <1>4, <2>1 DEF S, F
  <1> QED BY <1>3, <1>4

-----------------------------------------------------------------------------
(***************************************************************************)
(* The inductive invariant: what is pinned is never overridden, so its     *)
(* source stays the command line or the environment, so patch goes on      *)
(* refusing it.                                                            *)
(***************************************************************************)
OverlayFree == \A f \in Pinned : f \notin DOMAIN overlay

SourcesAdmin == \A f \in Fields : sources[f] = "admin" <=> f \in DOMAIN overlay

SourcesPinned == \A f \in Pinned : is_pinned(sources[f])

Shaped ==
  /\ disk \in Disks
  /\ DOMAIN running = Fields
  /\ \A f \in Fields : running[f] # Rejected
  /\ DOMAIN overlay \subseteq LiveFields
  /\ DOMAIN sources = Fields
  /\ pending \subseteq BootFields

IInv ==
  /\ Shaped
  /\ OverlayFree
  /\ SourcesAdmin
  /\ SourcesPinned
  /\ PinnedIsInForce
  /\ LiveFieldsExplained

\* Any of the handle's operations, with any argument: what Next may do, and
\* the handlers of ConfigAdmin too.
Call ==
  \/ EditFiles
  \/ \E stored : reload(stored) \/ adopt_stored(stored) \/ Restart(stored)
  \/ \E updates : patch(updates)

LEMMA NextIsCall == [Next]_handleVars => [Call]_handleVars
  BY DEF Next, Call

\* What any resolve that keeps the pinned fields free captures and resolves.
LEMMA ResolveKeeps ==
  ASSUME NEW files, NEW over, NEW stored, NEW carried,
         \A f \in Pinned : f \notin DOMAIN over
  PROVE  LET stack == Stack(load_layers(Cli, Env, files), over, stored, carried) IN
         /\ \A f \in Fields : Captured(stack)[f] = "admin" <=> f \in DOMAIN over
         /\ \A f \in Pinned : is_pinned(Captured(stack)[f])
         /\ \A f \in Pinned : Resolved(stack)[f] = Parse(f, Over(Cli.values, Env)[f])
  <1> DEFINE stack == Stack(load_layers(Cli, Env, files), over, stored, carried)
  <1>1. stack["admin"] = over /\ stack["cli"] = Cli.values /\ stack["env"] = Env
    BY StackAt
  <1>2. \A f \in Fields : Captured(stack)[f] = source_of(stack, f)
    BY DEF Captured
  <1>3. Pinned \subseteq Fields
    BY PinnedAssumption DEF Pinned
  <1> HIDE DEF stack
  <1>4. ASSUME NEW f \in Fields
        PROVE  Captured(stack)[f] = "admin" <=> f \in DOMAIN over
    BY <1>1, <1>2, SourceAdmin
  <1>5. ASSUME NEW f \in Pinned
        PROVE  is_pinned(Captured(stack)[f])
    <2>1. f \notin DOMAIN stack["admin"]
      BY <1>1
    <2>2. f \in DOMAIN stack["cli"] \/ f \in DOMAIN stack["env"]
      BY <1>1 DEF Pinned
    <2>3. is_pinned(source_of(stack, f))
      BY <2>1, <2>2, SourcePinned
    <2> QED BY <1>2, <1>3, <2>3
  <1>6. ASSUME NEW f \in Pinned
        PROVE  Resolved(stack)[f] = Parse(f, Over(Cli.values, Env)[f])
    <2>1. source_of(stack, f) = IF f \in DOMAIN Cli.values THEN "cli" ELSE "env"
      BY <1>1, SourceIs DEF Pinned
    <2>2. f \in DOMAIN Given(stack) /\ Given(stack)[f] = stack[source_of(stack, f)][f]
      BY <2>1, SourceIsWhatAnswers
    <2>3. Given(stack)[f] = Over(Cli.values, Env)[f]
      BY <1>1, <2>1, <2>2 DEF Pinned, Over
    <2>4. Resolved(stack)[f] = FieldFrom(Given(stack), f)
      BY <1>3 DEF Resolved, from_env_provider
    <2> QED BY <1>3, <2>2, <2>3, <2>4, FieldGiven
  <1> QED BY <1>4, <1>5, <1>6 DEF stack

\* Whatever layer is carried, a start and a reload agree on a live field.
LEMMA CarriedIsBoot ==
  ASSUME NEW files, NEW over, NEW stored, NEW config, NEW f \in LiveFields
  PROVE  Resolved(Stack(load_layers(Cli, Env, files), over, stored, NoLayer))[f]
         = Resolved(Stack(load_layers(Cli, Env, files), over, stored, boot_layer(config)))[f]
  <1> DEFINE A == Stack(load_layers(Cli, Env, files), over, stored, NoLayer)
             B == Stack(load_layers(Cli, Env, files), over, stored, boot_layer(config))
  <1>1. f \in Fields /\ f \notin BootFields
    BY LiveAreAdopted, AdoptedAreLive DEF LiveFields
  <1>2. Agree(NoLayer, boot_layer(config), f)
    BY <1>1, NoLayerEmpty DEF Agree, boot_layer
  <1>3. Agree(Given(A), Given(B), f)
    BY <1>2, GivenAgree
  <1> HIDE DEF A, B
  <1>4. FieldFrom(Given(A), f) = FieldFrom(Given(B), f)
    BY <1>3, LiveAgree
  <1>5. Resolved(A)[f] = Resolved(B)[f]
    BY <1>1, <1>4 DEF Resolved, from_env_provider
  <1> QED BY <1>5 DEF A, B

\* A start, from the configuration it resolves.
LEMMA StartEstablishes ==
  ASSUME NEW files, NEW used
  PROVE  LET config == Resolved(Fresh(files, used))
             from == Captured(Fresh(files, used))
         IN  /\ \A f \in Fields : from[f] # "admin"
             /\ \A f \in Pinned : is_pinned(from[f])
             /\ \A f \in Pinned : config[f] = Parse(f, Over(Cli.values, Env)[f])
             /\ \A f \in LiveFields :
                  config[f] = Resolved(Stack(load_layers(Cli, Env, files), NoLayer, used,
                                             boot_layer(config)))[f]
  <1> DEFINE config == Resolved(Fresh(files, used))
             from == Captured(Fresh(files, used))
  <1>1. \A f \in Pinned : f \notin DOMAIN NoLayer
    BY NoLayerEmpty
  <1>2. /\ \A f \in Fields : from[f] = "admin" <=> f \in DOMAIN NoLayer
        /\ \A f \in Pinned : is_pinned(from[f])
        /\ \A f \in Pinned : config[f] = Parse(f, Over(Cli.values, Env)[f])
    BY <1>1, ResolveKeeps DEF Fresh
  <1>3. \A f \in LiveFields :
          Resolved(Stack(load_layers(Cli, Env, files), NoLayer, used, NoLayer))[f]
          = Resolved(Stack(load_layers(Cli, Env, files), NoLayer, used, boot_layer(config)))[f]
    BY CarriedIsBoot
  <1> QED BY <1>2, <1>3, NoLayerEmpty DEF Fresh

THEOREM InitInv == HandleInit => IInv
  <1> SUFFICES ASSUME HandleInit PROVE IInv
    OBVIOUS
  <1> USE DEF HandleInit
  <1>1. PICK stored \in StoredLayers :
          /\ disk \in Disks /\ Startable(disk, stored) /\ pending = {}
          /\ running = Resolved(Fresh(disk, stored))
          /\ sources = Captured(Fresh(disk, stored))
          /\ overlay = NoLayer
          /\ basis = Behind(disk, stored)
    OBVIOUS
  <1>2. basis.disk = disk /\ basis.stored = stored
    BY <1>1 DEF Behind
  <1>3. /\ \A f \in Fields : sources[f] # "admin"
        /\ \A f \in Pinned : is_pinned(sources[f])
        /\ \A f \in Pinned : running[f] = Parse(f, Over(Cli.values, Env)[f])
        /\ \A f \in LiveFields :
             running[f] = Resolved(Stack(load_layers(Cli, Env, disk), NoLayer, stored,
                                         boot_layer(running)))[f]
    BY <1>1, StartEstablishes
  <1>4. DOMAIN overlay = {}
    BY <1>1, NoLayerEmpty
  <1>5. DOMAIN Over(Cli.values, Env) = Pinned
    BY OverAt DEF Pinned
  <1>6. PinnedIsInForce
    BY <1>3, <1>5 DEF PinnedIsInForce
  <1>7. LiveFieldsExplained
    BY <1>1, <1>2, <1>3 DEF LiveFieldsExplained
  <1>8. Shaped
    <2>1. DOMAIN running = Fields /\ DOMAIN sources = Fields
      BY <1>1 DEF Resolved, from_env_provider, Captured
    <2>2. \A f \in Fields : running[f] # Rejected
      BY <1>1 DEF Startable, Resolves
    <2> QED BY <1>1, <1>4, <2>1, <2>2 DEF Shaped
  <1> QED BY <1>3, <1>4, <1>6, <1>7, <1>8 DEF IInv, OverlayFree, SourcesAdmin, SourcesPinned

\* A start re-establishes the invariant from nothing.
LEMMA RestartInv ==
  ASSUME IInv, NEW stored, Restart(stored)
  PROVE  IInv'
  <1> DEFINE used == IF Startable(disk, stored) THEN stored ELSE NoLayer
  <1>1. /\ Startable(disk, used) /\ pending' = {}
        /\ running' = Resolved(Fresh(disk, used))
        /\ sources' = Captured(Fresh(disk, used))
        /\ overlay' = NoLayer
        /\ basis' = Behind(disk, used)
        /\ disk' = disk
    BY DEF Restart, Started
  <1> HIDE DEF used
  <1>2. basis'.disk = disk /\ basis'.stored = used
    BY <1>1 DEF Behind
  <1>3. /\ \A f \in Fields : sources'[f] # "admin"
        /\ \A f \in Pinned : is_pinned(sources'[f])
        /\ \A f \in Pinned : running'[f] = Parse(f, Over(Cli.values, Env)[f])
        /\ \A f \in LiveFields :
             running'[f] = Resolved(Stack(load_layers(Cli, Env, disk), NoLayer, used,
                                          boot_layer(running')))[f]
    BY <1>1, StartEstablishes
  <1>4. DOMAIN overlay' = {}
    BY <1>1, NoLayerEmpty
  <1>5. DOMAIN Over(Cli.values, Env) = Pinned
    BY OverAt DEF Pinned
  <1>6. PinnedIsInForce'
    BY <1>3, <1>5 DEF PinnedIsInForce
  <1>7. LiveFieldsExplained'
    BY <1>1, <1>2, <1>3 DEF LiveFieldsExplained
  <1>8. Shaped'
    <2>1. DOMAIN running' = Fields /\ DOMAIN sources' = Fields
      BY <1>1 DEF Resolved, from_env_provider, Captured
    <2>2. \A f \in Fields : running'[f] # Rejected
      BY <1>1 DEF Startable, Resolves
    <2> QED BY <1>1, <1>4, <2>1, <2>2 DEF Shaped, IInv
  <1> QED BY <1>3, <1>4, <1>6, <1>7, <1>8 DEF IInv, OverlayFree, SourcesAdmin, SourcesPinned

\* Publishing keeps every boot field.
LEMMA PublishKeepsBoot ==
  ASSUME NEW over, NEW stored, Publish(over, stored)
  PROVE  boot_layer(running') = boot_layer(running)
         /\ \A f \in BootFields : running'[f] = running[f]
  <1>1. \A f \in BootFields : f \in Fields /\ f \notin AdoptedFields
    BY AdoptedAreLive DEF BootFields
  <1>2. \A f \in BootFields : running'[f] = running[f]
    BY <1>1 DEF Publish, with_boot_fields_from
  <1> QED BY <1>2 DEF boot_layer

\* And keeps the invariant, whatever overlay that leaves the pinned free.
LEMMA PublishInv ==
  ASSUME IInv, NEW over, NEW stored, CanResolve(over, stored), Publish(over, stored),
         UNCHANGED disk, pending' \subseteq BootFields,
         DOMAIN over \subseteq LiveFields, \A f \in Pinned : f \notin DOMAIN over
  PROVE  IInv'
  <1> DEFINE stack == Carrying(over, stored)
  <1>1. /\ \A f \in Fields : Captured(stack)[f] = "admin" <=> f \in DOMAIN over
        /\ \A f \in Pinned : is_pinned(Captured(stack)[f])
        /\ \A f \in Pinned : Resolved(stack)[f] = Parse(f, Over(Cli.values, Env)[f])
    BY ResolveKeeps DEF Carrying
  <1>2. /\ running' = with_boot_fields_from(running, Resolved(stack))
        /\ sources' = Captured(stack)
        /\ overlay' = over
        /\ basis' = Behind(disk, stored)
    BY DEF Publish
  <1>3. basis'.disk = disk /\ basis'.stored = stored
    BY <1>2 DEF Behind
  <1>4. boot_layer(running') = boot_layer(running)
    BY PublishKeepsBoot
  <1>5. stack = Stack(load_layers(Cli, Env, basis'.disk), overlay', basis'.stored,
                      boot_layer(running'))
    BY <1>2, <1>3, <1>4 DEF Carrying
  <1> HIDE DEF stack
  <1>6. \A f \in LiveFields : running'[f] = Resolved(stack)[f]
    <2>1. LiveFields \subseteq AdoptedFields /\ AdoptedFields \subseteq Fields
      BY LiveAreAdopted, AdoptedAreLive
    <2> QED BY <1>2, <2>1 DEF with_boot_fields_from
  <1>7. LiveFieldsExplained'
    BY <1>5, <1>6 DEF LiveFieldsExplained
  <1>8. DOMAIN Over(Cli.values, Env) = Pinned /\ Pinned \subseteq Fields
    BY OverAt, PinnedAssumption DEF Pinned
  <1>9. PinnedIsInForce'
    <2>1. \A f \in Pinned : running[f] = Parse(f, Over(Cli.values, Env)[f])
      BY <1>8 DEF IInv, PinnedIsInForce
    <2>2. \A f \in Pinned : running'[f] \in {running[f], Resolved(stack)[f]}
      BY <1>2, <1>8 DEF with_boot_fields_from
    <2>3. \A f \in Pinned : running'[f] = Parse(f, Over(Cli.values, Env)[f])
      BY <1>1, <2>1, <2>2
    <2> QED BY <1>8, <2>3 DEF PinnedIsInForce
  <1>10. Shaped'
    <2>1. \A f \in Fields : Resolved(stack)[f] # Rejected
      BY DEF CanResolve, Resolves, stack
    <2>2. \A f \in Fields : running'[f] \in {running[f], Resolved(stack)[f]}
      BY <1>2 DEF with_boot_fields_from
    <2>3. DOMAIN running' = Fields /\ DOMAIN sources' = Fields
      BY <1>2 DEF with_boot_fields_from, Captured
    <2> QED BY <1>2, <2>1, <2>2, <2>3 DEF Shaped, IInv
  <1> QED BY <1>1, <1>2, <1>7, <1>9, <1>10 DEF IInv, OverlayFree, SourcesAdmin, SourcesPinned

\* patch refuses what is pinned, which the invariant says of every field
\* that the command line or the environment gives.
LEMMA PatchInv ==
  ASSUME IInv, NEW updates, patch(updates)
  PROVE  IInv'
  <1> DEFINE over == Over(updates, overlay)
  <1>1. /\ DOMAIN updates \subseteq LiveFields
        /\ \A f \in DOMAIN updates : ~is_pinned(sources[f])
        /\ CanResolve(over, held) /\ Publish(over, held) /\ UNCHANGED <<disk, pending>>
    BY DEF patch, PatchAllows
  <1>2. DOMAIN over = DOMAIN updates \union DOMAIN overlay
    BY OverAt
  <1> HIDE DEF over
  <1>3. \A f \in Pinned : f \notin DOMAIN over
    BY <1>1, <1>2 DEF IInv, OverlayFree, SourcesPinned
  <1>4. DOMAIN over \subseteq LiveFields /\ pending' \subseteq BootFields
    BY <1>1, <1>2 DEF IInv, Shaped
  <1> QED BY <1>1, <1>3, <1>4, PublishInv

LEMMA UnchangedInv ==
  ASSUME IInv, disk' \in Disks, UNCHANGED <<innerVars, basis>>
  PROVE  IInv'
  <1>1. /\ running' = running /\ overlay' = overlay /\ sources' = sources
        /\ pending' = pending /\ basis' = basis
    BY DEF innerVars
  <1> QED BY <1>1 DEF IInv, Shaped, OverlayFree, SourcesAdmin, SourcesPinned, PinnedIsInForce,
                      LiveFieldsExplained

THEOREM NextInv == IInv /\ [Call]_handleVars => IInv'
  <1> SUFFICES ASSUME IInv, [Call]_handleVars PROVE IInv'
    OBVIOUS
  <1>1. ASSUME EditFiles PROVE IInv'
    BY <1>1, UnchangedInv DEF EditFiles
  <1>2. ASSUME NEW stored, reload(stored) PROVE IInv'
    <2>1. CanResolve(NoLayer, stored) /\ Publish(NoLayer, stored) /\ UNCHANGED disk
      BY <1>2 DEF reload
    <2>2. pending' \subseteq BootFields
      BY <1>2 DEF reload, Hold, boot_drift
    <2> QED BY <2>1, <2>2, NoLayerEmpty, PublishInv
  <1>3. ASSUME NEW stored, adopt_stored(stored) PROVE IInv'
    <2>1. CanResolve(overlay, stored) /\ Publish(overlay, stored) /\ UNCHANGED disk
      BY <1>3 DEF adopt_stored
    <2>2. pending' \subseteq BootFields
      BY <1>3 DEF adopt_stored, Hold, boot_drift
    <2>3. DOMAIN overlay \subseteq LiveFields /\ \A f \in Pinned : f \notin DOMAIN overlay
      BY DEF IInv, Shaped, OverlayFree
    <2> QED BY <2>1, <2>2, <2>3, PublishInv
  <1>4. ASSUME NEW stored, Restart(stored) PROVE IInv'
    BY <1>4, RestartInv
  <1>5. ASSUME NEW updates, patch(updates) PROVE IInv'
    BY <1>5, PatchInv
  <1>6. CASE UNCHANGED handleVars
    BY <1>6, UnchangedInv DEF handleVars, IInv, Shaped
  <1> QED BY <1>1, <1>2, <1>3, <1>4, <1>5, <1>6 DEF Call

THEOREM Invariance == Spec => []IInv
  BY InitInv, NextInv, NextIsCall, PTL DEF Spec

-----------------------------------------------------------------------------
(***************************************************************************)
(* What is reported.  The invariant relates what waits for a restart, and  *)
(* where the stored settings are said to come from, to the layers that     *)
(* were resolved.                                                          *)
(***************************************************************************)
\* Every boot field, carried over, is read back as it runs: nothing waits
\* only because a source has gone.
BootSettled == \A f \in BootFields : Parse(f, running[f]) = running[f]

\* What waits is what a start would give, and give differently.
PendingIs ==
  LET fresh == Fresh(judged.disk, judged.stored) IN
  pending = {f \in BootFields \intersect DOMAIN Given(fresh) : Resolved(fresh)[f] # running[f]}

SourcesStored ==
  \A f \in DOMAIN basis.stored \intersect Fields :
    /\ sources[f] = "stored" <=> f \notin DOMAIN overlay \union Pinned
    /\ sources[f] \in {"admin", "cli", "env", "stored"}

\* What was last judged is not newer than what is in force.
JudgedInForce == held = judged.stored => held = basis.stored

RInv == HeldIsInForce /\ BootSettled /\ PendingIs /\ SourcesStored /\ JudgedInForce

\* A start, whose provenance and layers are its own.
LEMMA StartReports ==
  ASSUME NEW files, NEW used, Startable(files, used)
  PROVE  LET config == Resolved(Fresh(files, used))
             from == Captured(Fresh(files, used))
         IN  /\ \A f \in BootFields : Parse(f, config[f]) = config[f]
             /\ \A f \in DOMAIN used \intersect Fields :
                  /\ from[f] = "stored" <=> f \notin DOMAIN NoLayer \union Pinned
                  /\ from[f] \in {"admin", "cli", "env", "stored"}
  <1>1. Resolves(Fresh(files, used))
    BY DEF Startable
  <1>2. \A f \in Fields : Captured(Fresh(files, used))[f] = source_of(Fresh(files, used), f)
    BY DEF Captured
  <1> QED BY <1>1, <1>2, BootSettles, StoredSource DEF Fresh

THEOREM InitReports == HandleInit => RInv
  <1> SUFFICES ASSUME HandleInit PROVE RInv
    OBVIOUS
  <1>1. PICK stored \in StoredLayers :
          /\ Startable(disk, stored) /\ held = stored /\ pending = {}
          /\ running = Resolved(Fresh(disk, stored))
          /\ sources = Captured(Fresh(disk, stored))
          /\ overlay = NoLayer
          /\ basis = Behind(disk, stored) /\ judged = basis
    BY DEF HandleInit
  <1>2. basis.disk = disk /\ basis.stored = stored
    BY <1>1 DEF Behind
  <1>3. BootSettled /\ SourcesStored
    BY <1>1, <1>2, StartReports DEF BootSettled, SourcesStored
  <1>4. PendingIs
    BY <1>1, <1>2 DEF PendingIs
  <1> QED BY <1>1, <1>2, <1>3, <1>4 DEF RInv, HeldIsInForce, JudgedInForce

LEMMA RestartReports ==
  ASSUME NEW stored, Restart(stored)
  PROVE  RInv'
  <1> DEFINE used == IF Startable(disk, stored) THEN stored ELSE NoLayer
  <1>1. /\ Startable(disk, used) /\ pending' = {} /\ held' = stored
        /\ running' = Resolved(Fresh(disk, used))
        /\ sources' = Captured(Fresh(disk, used))
        /\ overlay' = NoLayer
        /\ basis' = Behind(disk, used) /\ judged' = basis'
        /\ disk' = disk
    BY DEF Restart, Started
  <1>2. basis'.disk = disk /\ basis'.stored = used
    BY <1>1 DEF Behind
  <1>3. HeldIsInForce'
    <2>1. held' = basis'.stored \/ ~Startable(basis'.disk, held')
      BY <1>1, <1>2
    <2> QED BY <2>1 DEF HeldIsInForce, Startable, LayersLoad, EnvFileLoads, ConfigFileLoads,
                        Resolves
  <1> HIDE DEF used
  <1>4. BootSettled' /\ SourcesStored'
    BY <1>1, <1>2, StartReports DEF BootSettled, SourcesStored
  <1>5. PendingIs'
    BY <1>1, <1>2 DEF PendingIs
  <1>6. JudgedInForce'
    BY <1>1 DEF JudgedInForce
  <1> QED BY <1>3, <1>4, <1>5, <1>6 DEF RInv

\* Any other publication: what runs keeps its boot fields.
LEMMA PublishReports ==
  ASSUME RInv, NEW over, NEW stored, Publish(over, stored), held' = stored
  PROVE  HeldIsInForce' /\ BootSettled' /\ SourcesStored' /\ JudgedInForce'
  <1>1. /\ sources' = Captured(Carrying(over, stored))
        /\ overlay' = over /\ basis' = Behind(disk, stored)
    BY DEF Publish
  <1>2. basis'.disk = disk /\ basis'.stored = stored
    BY <1>1 DEF Behind
  <1>3. BootSettled'
    BY PublishKeepsBoot DEF BootSettled, RInv
  <1>4. \A f \in Fields : sources'[f] = source_of(Carrying(over, stored), f)
    BY <1>1 DEF Captured
  <1>5. SourcesStored'
    BY <1>1, <1>2, <1>4, StoredSource DEF SourcesStored, Carrying
  <1> QED BY <1>2, <1>3, <1>5 DEF HeldIsInForce, JudgedInForce

\* Drift is reported of exactly what a start would be given and would move:
\* what is carried is read back as it is.
LEMMA HoldReports ==
  ASSUME IInv, RInv, NEW over, NEW stored, DOMAIN over \subseteq LiveFields,
         Publish(over, stored), Hold(over, stored)
  PROVE  PendingIs'
  <1> DEFINE fresh == Fresh(disk, stored)
             stack == Carrying(over, stored)
  <1>1. /\ pending' = {f \in BootFields : running[f] # Resolved(stack)[f]}
        /\ judged'.disk = disk /\ judged'.stored = stored
    BY DEF Hold, boot_drift, Behind
  <1>2. \A f \in BootFields : running'[f] = running[f]
    BY PublishKeepsBoot
  <1>3. ASSUME NEW f \in BootFields
        PROVE  running[f] # Resolved(stack)[f] <=>
                 f \in DOMAIN Given(fresh) /\ Resolved(fresh)[f] # running[f]
    <2>1. f \in Fields /\ f \notin DOMAIN over
      BY DEF BootFields, LiveFields
    <2>2. f \in DOMAIN boot_layer(running) /\ boot_layer(running)[f] = running[f]
      BY DEF boot_layer
    <2>3. /\ Resolved(stack)[f] = FieldFrom(Given(stack), f)
          /\ Resolved(fresh)[f] = FieldFrom(Given(fresh), f)
      BY <2>1 DEF Resolved, from_env_provider
    <2>4. /\ f \in DOMAIN Given(stack)
          /\ f \in DOMAIN Given(fresh) => Given(stack)[f] = Given(fresh)[f]
          /\ f \notin DOMAIN Given(fresh) => Given(stack)[f] = running[f]
      BY <2>1, <2>2, GivenFresh DEF Carrying
    <2>5. Resolved(stack)[f] = Parse(f, Given(stack)[f])
      BY <2>1, <2>3, <2>4, FieldGiven
    <2>6. f \in DOMAIN Given(fresh) => Resolved(fresh)[f] = Parse(f, Given(fresh)[f])
      BY <2>1, <2>3, FieldGiven
    <2>7. Parse(f, running[f]) = running[f]
      BY DEF RInv, BootSettled
    <2> QED BY <2>4, <2>5, <2>6, <2>7
  <1> QED BY <1>1, <1>2, <1>3 DEF PendingIs

THEOREM NextReports == IInv /\ RInv /\ [Call]_handleVars => RInv'
  <1> SUFFICES ASSUME IInv, RInv, [Call]_handleVars PROVE RInv'
    OBVIOUS
  <1>1. ASSUME NEW stored, reload(stored) \/ adopt_stored(stored) PROVE RInv'
    <2>1. PICK over : /\ DOMAIN over \subseteq LiveFields
                      /\ Publish(over, stored) /\ Hold(over, stored)
      BY <1>1, NoLayerEmpty DEF reload, adopt_stored, IInv, Shaped
    <2>2. held' = stored
      BY <2>1 DEF Hold
    <2> QED BY <2>1, <2>2, PublishReports, HoldReports DEF RInv
  <1>2. ASSUME NEW updates, patch(updates) PROVE RInv'
    <2>1. Publish(Over(updates, overlay), held) /\ UNCHANGED <<held, pending, judged>>
      BY <1>2 DEF patch
    <2>2. \A f \in BootFields : running'[f] = running[f]
      BY <2>1, PublishKeepsBoot
    <2>3. PendingIs'
      BY <2>1, <2>2 DEF PendingIs, RInv
    <2> QED BY <2>1, <2>3, PublishReports DEF RInv
  <1>3. ASSUME EditFiles \/ UNCHANGED handleVars PROVE RInv'
    <2>1. UNCHANGED <<innerVars, basis, judged>>
      BY <1>3 DEF EditFiles, handleVars
    <2> QED BY <2>1 DEF innerVars, RInv, HeldIsInForce, BootSettled, PendingIs, SourcesStored,
                        JudgedInForce
  <1> QED BY <1>1, <1>2, <1>3, RestartReports DEF Call

THEOREM ReportsInvariance == Spec => []RInv
  BY InitInv, InitReports, NextInv, NextReports, NextIsCall, PTL DEF Spec

-----------------------------------------------------------------------------
(***************************************************************************)
(* The properties.                                                         *)
(***************************************************************************)
LEMMA HandleProperties == IInv /\ RInv => RunningIsExplained /\ PendingIsReal
  <1>1. IInv => ProvenanceIsCurrent
    BY DEF IInv, SourcesAdmin, Shaped, LiveFields, ProvenanceIsCurrent
  <1>2. RInv => PendingIsReal
    BY DEF RInv, PendingIs, PendingIsReal
  <1> QED BY <1>1, <1>2 DEF IInv, RInv, RunningIsExplained

\* Whatever operations come in whatever order, with whatever happens to the
\* files, what runs is what the layers in force amount to, what the process
\* was given is in force, and the provenance says so.
THEOREM RunningHolds == Spec => []RunningIsExplained
  BY Invariance, ReportsInvariance, HandleProperties, PTL

\* What is reported as waiting for a restart would change at one, and what a
\* start would be given and would change is reported, through any sequence of
\* patches, reloads, adoptions, edits and starts.
THEOREM PendingHolds == Spec => []PendingIsReal
  BY Invariance, ReportsInvariance, HandleProperties, PTL

\* A resolve that fails publishes nothing, and no boot field is overridden.
THEOREM HandleTyped == Spec => []TypeOK
  <1> DEFINE HeldStored == DOMAIN held \subseteq Storable
  <1>1. HandleInit => HeldStored
    BY StoredAssumption DEF HandleInit
  <1>2. HeldStored /\ [Next]_handleVars => HeldStored'
    BY StoredAssumption DEF Next, EditFiles, reload, adopt_stored, Hold, Restart, Started, patch,
                            handleVars, innerVars
  <1>3. IInv /\ HeldStored => TypeOK
    BY DEF IInv, Shaped, TypeOK, IsLayer, Storable, LiveFields
  <1> QED BY <1>1, <1>2, <1>3, Invariance, PTL DEF Spec

LEMMA BootStep ==
  [Call]_handleVars =>
    [(\E f \in BootFields : running'[f] # running[f]) => Restart(held')]_handleVars
  <1> DEFINE Moved == \E f \in BootFields : running'[f] # running[f]
  <1> SUFFICES ASSUME Call, Moved PROVE Restart(held')
    OBVIOUS
  <1>1. ASSUME NEW over, NEW stored, Publish(over, stored) PROVE FALSE
    BY <1>1, PublishKeepsBoot
  <1>2. ASSUME EditFiles PROVE FALSE
    BY <1>2 DEF EditFiles, innerVars
  <1>3. ASSUME NEW stored, reload(stored) \/ adopt_stored(stored) PROVE FALSE
    BY <1>1, <1>3 DEF reload, adopt_stored
  <1>4. ASSUME NEW updates, patch(updates) PROVE FALSE
    BY <1>1, <1>4 DEF patch
  <1>5. ASSUME NEW stored, Restart(stored) PROVE Restart(held')
    <2>1. held' = stored
      BY <1>5 DEF Restart, Started
    <2> QED BY <1>5, <2>1
  <1> QED BY <1>2, <1>3, <1>4, <1>5 DEF Call

\* Only a start moves a boot field.
THEOREM BootHolds == Spec => BootFieldsHold
  BY NextIsCall, BootStep, PTL DEF Spec, BootFieldsHold
=============================================================================
