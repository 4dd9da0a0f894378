------------------------- MODULE FunctionProofs -------------------------
(***************************************************************************)
(* Proofs about pure parts of the program, for every input: what the       *)
(* runs of MCFunctions find of the inputs they enumerate.                  *)
(***************************************************************************)
EXTENDS MCResolution, MCTelemetry, MCSecrets, MCAnswers, MCCommandLine, ConfigHandleProofs,
        SequenceTheorems, FiniteSetTheorems, WellFoundedInduction

-----------------------------------------------------------------------------
(***************************************************************************)
(* Resolution.                                                             *)
(***************************************************************************)
LEMMA LayerNamesAre ==
  LayerNames = {"admin", "cli", "env", "stored", "env-file", "file", "carried"}
  BY DEF LayerNames, Precedence

\* A field's value depends on its own setting, and on the salt if it is one of
\* the two secrets that fall back to it.
LEMMA SameField ==
  ASSUME NEW a, NEW b, NEW f, Agree(a, b, f),
         f \in Derived /\ f \notin DOMAIN a => Agree(a, b, "api_key_salt")
  PROVE  FieldFrom(a, f) = FieldFrom(b, f)
  <1>1. CASE f \in Derived /\ f \notin DOMAIN a
    BY <1>1 DEF FieldFrom, derived_secret, Agree
  <1>2. CASE f \in DOMAIN a
    BY <1>2 DEF FieldFrom, derived_secret, Agree
  <1>3. CASE f \notin Derived /\ f \notin DOMAIN a
    BY <1>3 DEF FieldFrom, Agree
  <1> QED BY <1>1, <1>2, <1>3

\* A stack as main resolves it: nothing is carried yet, and the salt, without
\* which the server does not start, is given.
LayeredStack(stack) ==
  /\ stack \in [LayerNames -> UNION {[F -> STRING] : F \in SUBSET STRING}]
  /\ stack["carried"] = NoLayer
  /\ "api_key_salt" \in DOMAIN Given(stack)

LEMMA SourcesAnswer == Given_("stack") /\ LayeredStack(input.stack) => SourceAnswers
  <1> SUFFICES ASSUME LayeredStack(input.stack) PROVE SourceAnswers
    BY DEF SourceAnswers
  <1> DEFINE stack == input.stack
             given == Given(stack)
             salt == Setting("api_key_salt", given["api_key_salt"])
  <1> SUFFICES ASSUME NEW f \in Fields
               PROVE  LET source == source_of(stack, f)
                          alone == IF source = "default" THEN NoLayer ELSE Setting(f, stack[source][f])
                      IN  FieldFrom(Over(alone, salt), f) = Resolved(stack)[f]
    BY DEF SourceAnswers
  <1> DEFINE source == source_of(stack, f)
             alone == IF source = "default" THEN NoLayer ELSE Setting(f, stack[source][f])
             both == Over(alone, salt)
  <1>1. /\ DOMAIN salt = {"api_key_salt"} /\ salt["api_key_salt"] = given["api_key_salt"]
    BY DEF Setting
  <1>2. /\ DOMAIN alone = IF source = "default" THEN {} ELSE {f}
        /\ source # "default" => alone[f] = stack[source][f]
    BY DEF Setting, NoLayer
  <1>3. /\ DOMAIN both = DOMAIN alone \union {"api_key_salt"}
        /\ \A g \in DOMAIN alone : both[g] = alone[g]
        /\ "api_key_salt" \notin DOMAIN alone => both["api_key_salt"] = given["api_key_salt"]
    <2>1. ASSUME NEW top, NEW bottom, DOMAIN bottom = {"api_key_salt"}
          PROVE  /\ DOMAIN Over(top, bottom) = DOMAIN top \union {"api_key_salt"}
                 /\ \A g \in DOMAIN top : Over(top, bottom)[g] = top[g]
                 /\ "api_key_salt" \notin DOMAIN top =>
                      Over(top, bottom)["api_key_salt"] = bottom["api_key_salt"]
      BY <2>1 DEF Over
    <2> HIDE DEF alone, salt
    <2> QED BY <1>1, <2>1
  <1>4. /\ f \in DOMAIN given <=> source # "default"
        /\ f \in DOMAIN given => given[f] = stack[source][f]
    BY SourceIsWhatAnswers
  <1>5. "api_key_salt" \in DOMAIN given
    BY DEF LayeredStack
  <1> HIDE DEF both, alone, salt, source, given
  <1>6. Agree(both, given, f) \/ f = "api_key_salt"
    BY <1>2, <1>3, <1>4 DEF Agree
  <1>7. Agree(both, given, "api_key_salt")
    BY <1>2, <1>3, <1>4, <1>5 DEF Agree
  <1>8. FieldFrom(both, f) = FieldFrom(given, f)
    <2>1. "api_key_salt" \notin Derived
      BY DEF Derived
    <2> QED BY <1>6, <1>7, <2>1, SameField
  <1>9. Resolved(stack)[f] = FieldFrom(given, f)
    BY DEF Resolved, from_env_provider, given
  <1> QED BY <1>8, <1>9 DEF both, alone, salt, source, given

\* Stacks that have the same settings in each layer answer from the same one.
LEMMA SameSource ==
  ASSUME NEW A, NEW B, NEW f,
         \A l \in LayerNames : f \in DOMAIN A[l] <=> f \in DOMAIN B[l]
  PROVE  source_of(A, f) = source_of(B, f)
  BY LayerNamesAre, SourceIs

\* Under what is given, a layer is carried.
LEMMA CarriedBelow ==
  ASSUME NEW stack, LayeredStack(stack), NEW layer, NEW f
  PROVE  LET given == Given(stack)
             over == Given([stack EXCEPT !["carried"] = layer])
         IN  /\ f \in DOMAIN over <=> f \in DOMAIN given \/ f \in DOMAIN layer
             /\ f \in DOMAIN given => over[f] = given[f]
             /\ f \notin DOMAIN given /\ f \in DOMAIN layer => over[f] = layer[f]
  <1> DEFINE B == [stack EXCEPT !["carried"] = layer]
  <1>1. B["carried"] = layer /\ \A l \in LayerNames \ {"carried"} : B[l] = stack[l]
    BY LayerNamesAre DEF LayeredStack
  <1>2. DOMAIN stack["carried"] = {}
    BY DEF LayeredStack, NoLayer
  <1> HIDE DEF B
  <1>3. source_of(stack, f) # "default" =>
          /\ source_of(B, f) = source_of(stack, f)
          /\ B[source_of(stack, f)] = stack[source_of(stack, f)]
    BY <1>1, <1>2, LayerNamesAre, SourceIs
  <1>4. source_of(stack, f) = "default" =>
          source_of(B, f) = IF f \in DOMAIN layer THEN "carried" ELSE "default"
    BY <1>1, <1>2, LayerNamesAre, SourceIs
  <1>5. CASE f \in DOMAIN Given(stack)
    <2>1. source_of(stack, f) # "default" /\ Given(stack)[f] = stack[source_of(stack, f)][f]
      BY <1>5, SourceIsWhatAnswers
    <2>2. f \in DOMAIN Given(B) /\ Given(B)[f] = B[source_of(B, f)][f]
      BY <1>3, <2>1, SourceIsWhatAnswers
    <2>3. Given(B)[f] = Given(stack)[f]
      BY <1>3, <2>1, <2>2
    <2> QED BY <1>5, <2>2, <2>3 DEF B
  <1>6. CASE f \notin DOMAIN Given(stack)
    <2>1. source_of(stack, f) = "default"
      BY <1>6, SourceIsWhatAnswers
    <2>2. /\ f \in DOMAIN Given(B) <=> f \in DOMAIN layer
          /\ f \in DOMAIN layer => Given(B)[f] = layer[f]
      BY <1>1, <1>4, <2>1, SourceIsWhatAnswers
    <2> QED BY <1>6, <2>2 DEF B
  <1> QED BY <1>5, <1>6

\* The secrets that fall back to the salt are carried.
LEMMA DerivedAreBoot == Derived \subseteq BootFields
  <1>1. Derived \subseteq DOMAIN SecretParams
    BY TableAt DEF Derived
  <1>2. \A f \in DOMAIN SecretParams : SecretParams[f].reload = "Boot"
    BY TableAt DEF SecretParams, SecretParam
  <1> QED BY <1>1, <1>2, TableAt DEF BootFields

LEMMA ReloadsToItself ==
  Given_("stack") /\ LayeredStack(input.stack) => ReloadOfUnchanged
  <1> DEFINE stack == input.stack
             config == Resolved(stack)
             given == Given(stack)
             over == Given([stack EXCEPT !["carried"] = boot_layer(config)])
  <1> SUFFICES ASSUME LayeredStack(stack), Resolves(stack), NEW f \in Fields
               PROVE  FieldFrom(over, f) = FieldFrom(given, f)
    BY DEF ReloadOfUnchanged, Resolved, from_env_provider
  <1>1. /\ DOMAIN boot_layer(config) = BootFields
        /\ \A g \in BootFields : boot_layer(config)[g] = config[g]
    BY DEF boot_layer
  <1>2. /\ f \in DOMAIN over <=> f \in DOMAIN given \/ f \in BootFields
        /\ f \in DOMAIN given => over[f] = given[f]
        /\ f \notin DOMAIN given /\ f \in BootFields => over[f] = config[f]
    <2> DEFINE layer == boot_layer(config)
    <2>1. /\ f \in DOMAIN over <=> f \in DOMAIN given \/ f \in DOMAIN layer
          /\ f \in DOMAIN given => over[f] = given[f]
          /\ f \notin DOMAIN given /\ f \in DOMAIN layer => over[f] = layer[f]
      BY CarriedBelow
    <2> HIDE DEF layer, over, given, config
    <2>2. DOMAIN layer = BootFields /\ \A g \in BootFields : layer[g] = config[g]
      BY <1>1 DEF layer
    <2> QED BY <2>1, <2>2
  <1>3. config[f] = FieldFrom(given, f)
    BY DEF Resolved, from_env_provider
  <1>4. f \in BootFields => Parse(f, config[f]) = config[f]
    BY BootSettles
  <1> HIDE DEF over, given, config
  <1>5. CASE f \in DOMAIN given
    BY <1>2, <1>5, FieldGiven
  <1>6. CASE f \notin DOMAIN given /\ f \in BootFields
    BY <1>2, <1>3, <1>4, <1>6, FieldGiven
  <1>7. CASE f \notin DOMAIN given /\ f \notin BootFields
    BY <1>2, <1>7, DerivedAreBoot, SameField DEF Agree
  <1> QED BY <1>5, <1>6, <1>7

\* What can be changed while the server runs has a default.
LEMMA LiveHaveDefaults ==
  ASSUME NEW f \in Fields, f \notin BootFields
  PROVE  f \notin Derived /\ PARAMS[f].default \notin {Required, Rejected}
  <1>1. f \in AdoptedFields
    BY LiveAreAdopted
  <1>2. TelemetryParams["log_level"].default \notin {Required, Rejected}
    BY DEF TelemetryParams, Param, Required, Rejected
  <1>3. \A g \in DOMAIN SessionParams : SessionParams[g].default \notin {Required, Rejected}
    BY TableAt DEF SessionParams, Param, Required, Rejected
  <1> QED BY <1>1, <1>2, <1>3, TableAt, DerivedAreBoot DEF AdoptedFields

LEMMA FilesVanish == Given_("stack") /\ LayeredStack(input.stack) => FilesMayVanish
  <1> DEFINE stack == input.stack
             config == Resolved(stack)
             given == Given(stack)
             without == [stack EXCEPT !["env-file"] = NoLayer, !["file"] = NoLayer,
                                      !["carried"] = boot_layer(config)]
             over == Given(without)
             Moved(f) == source_of(stack, f) \in {"env-file", "file", "default"}
  <1> SUFFICES ASSUME LayeredStack(stack), Resolves(stack), NEW f \in Fields
               PROVE  /\ FieldFrom(over, f) # Rejected
                      /\ f \in BootFields /\ Moved(f) => FieldFrom(over, f) = config[f]
    BY DEF FilesMayVanish, Resolves, Resolved, from_env_provider, BootFields
  <1>1. config[f] = FieldFrom(given, f) /\ config[f] # Rejected
    BY DEF Resolves, Resolved, from_env_provider
  <1>2. f \in BootFields => Parse(f, config[f]) = config[f]
    BY BootSettles
  <1>3. /\ without["env-file"] = NoLayer /\ without["file"] = NoLayer
        /\ without["carried"] = boot_layer(config)
        /\ \A l \in {"admin", "cli", "env", "stored"} : without[l] = stack[l]
    BY LayerNamesAre DEF LayeredStack
  <1>4. DOMAIN stack["carried"] = {} /\ DOMAIN NoLayer = {}
    BY DEF LayeredStack, NoLayer
  <1>5. /\ DOMAIN boot_layer(config) = BootFields
        /\ f \in BootFields => boot_layer(config)[f] = config[f]
    BY DEF boot_layer
  <1> HIDE DEF without, config
  <1>6. CASE ~Moved(f)
    <2>1. /\ source_of(stack, f) \in {"admin", "cli", "env", "stored"}
          /\ source_of(without, f) = source_of(stack, f)
      BY <1>3, <1>4, <1>6, SourceIs
    <2>2. f \in DOMAIN given /\ f \in DOMAIN over /\ over[f] = given[f]
      BY <1>3, <2>1, SourceIsWhatAnswers
    <2> QED BY <1>1, <1>6, <2>2, FieldGiven
  <1>7. CASE Moved(f) /\ f \in BootFields
    <2>1. source_of(without, f) = "carried"
      BY <1>3, <1>4, <1>5, <1>7, SourceIs
    <2>2. f \in DOMAIN over /\ over[f] = config[f]
      BY <1>3, <1>5, <1>7, <2>1, SourceIsWhatAnswers
    <2> QED BY <1>1, <1>2, <1>7, <2>2, FieldGiven
  <1>8. CASE Moved(f) /\ f \notin BootFields
    <2>1. source_of(without, f) = "default"
      BY <1>3, <1>4, <1>5, <1>8, SourceIs
    <2>2. f \notin DOMAIN over
      BY <2>1, SourceIsWhatAnswers
    <2> QED BY <1>8, <2>2, LiveHaveDefaults DEF FieldFrom
  <1> QED BY <1>6, <1>7, <1>8

\* What is shown of a setting, put where it is said to be from.
LEMMA ShownAgain ==
  ASSUME NEW stack, LayeredStack(stack), Resolves(stack), NEW f \in Fields, ~PARAMS[f].secret,
         source_of(stack, f) # "default"
  PROVE  Resolved([stack EXCEPT ![source_of(stack, f)] = Over(Setting(f, Resolved(stack)[f]), @)])
         = Resolved(stack)
  <1> DEFINE config == Resolved(stack)
             from == source_of(stack, f)
             top == Setting(f, config[f])
             B == [stack EXCEPT ![from] = Over(top, @)]
             given == Given(stack)
             over == Given(B)
  <1>1. from \in LayerNames /\ f \in DOMAIN stack[from]
    BY LayerNamesAre, SourceIs, SourceIsWhatAnswers
  <1>2. DOMAIN top = {f} /\ top[f] = config[f]
    BY DEF Setting
  <1>3. B[from] = Over(top, stack[from]) /\ \A l \in LayerNames \ {from} : B[l] = stack[l]
    BY <1>1 DEF LayeredStack
  <1>4. /\ f \in DOMAIN given /\ given[f] = stack[from][f]
        /\ config[f] = FieldFrom(given, f) /\ FieldFrom(given, f) # Rejected
    BY SourceIsWhatAnswers DEF Resolved, Resolves, from_env_provider
  <1> HIDE DEF config, top, B
  <1>5. /\ DOMAIN B[from] = DOMAIN stack[from] /\ B[from][f] = config[f]
        /\ \A g \in DOMAIN stack[from] \ {f} : B[from][g] = stack[from][g]
    BY <1>1, <1>2, <1>3 DEF Over
  <1>6. ASSUME NEW g
        PROVE  source_of(B, g) = source_of(stack, g)
    <2>1. \A l \in LayerNames : DOMAIN B[l] = DOMAIN stack[l]
      BY <1>3, <1>5
    <2> QED BY <2>1, SameSource
  <1>7. f \in DOMAIN over /\ over[f] = config[f]
    BY <1>4, <1>5, <1>6, SourceIsWhatAnswers
  <1>8. ASSUME NEW g, g # f
        PROVE  Agree(over, given, g)
    <2>1. source_of(stack, g) # "default" => source_of(stack, g) \in LayerNames
      BY LayerNamesAre, SourceIs
    <2>2. g \in DOMAIN over <=> g \in DOMAIN given
      BY <1>6, SourceIsWhatAnswers
    <2>3. ASSUME g \in DOMAIN given
          PROVE  over[g] = given[g]
      <3>1. /\ over[g] = B[source_of(stack, g)][g]
            /\ given[g] = stack[source_of(stack, g)][g] /\ g \in DOMAIN stack[source_of(stack, g)]
            /\ source_of(stack, g) \in LayerNames
        BY <1>6, <2>1, <2>2, <2>3, SourceIsWhatAnswers
      <3> QED BY <1>3, <1>5, <1>8, <3>1
    <2> QED BY <2>2, <2>3 DEF Agree
  <1>9. FieldFrom(over, f) = FieldFrom(given, f)
    BY <1>4, <1>7, FieldGiven, ParseReadBack
  <1>10. f # "api_key_salt"
    <2>1. SecretParams["api_key_salt"].secret
      BY DEF SecretParams, SecretParam
    <2> QED BY <2>1, TableAt
  <1>11. \A g \in Fields : FieldFrom(over, g) = FieldFrom(given, g)
    BY <1>8, <1>9, <1>10, SameField
  <1>12. Resolved(B) = Resolved(stack)
    BY <1>11 DEF Resolved, from_env_provider
  <1> QED BY <1>12 DEF B, top, config

\* No secret reads like another setting, or like what stands for a secret.
SecretsAreApart(config) ==
  \A f, g \in Fields :
    PARAMS[f].secret => config[f] # redact(g, config[g])

LEMMA ShowsTruly ==
  Given_("stack") /\ LayeredStack(input.stack) /\ SecretsAreApart(Resolved(input.stack)) =>
    ShownIsTrue
  <1> DEFINE stack == input.stack
             config == Resolved(stack)
             shown == render_config(config, stack)
  <1> SUFFICES ASSUME LayeredStack(stack), Resolves(stack), SecretsAreApart(config),
                      NEW f \in Fields
               PROVE  IF PARAMS[f].secret
                      THEN \A g \in Fields : shown[g].value # config[f]
                      ELSE shown[f].source # "default" =>
                             Resolved([stack EXCEPT
                               ![shown[f].source] = Over(Setting(f, shown[f].value), @)]) = config
    BY DEF ShownIsTrue
  <1>1. \A g \in Fields : /\ shown[g].value = redact(g, config[g])
                          /\ shown[g].source = source_of(stack, g)
    BY DEF render_config
  <1> HIDE DEF shown
  <1>2. CASE PARAMS[f].secret
    BY <1>1, <1>2 DEF SecretsAreApart
  <1>3. CASE ~PARAMS[f].secret
    <2>1. shown[f].value = config[f]
      BY <1>1, <1>3 DEF redact
    <2> QED BY <1>1, <1>3, <2>1, ShownAgain
  <1> QED BY <1>2, <1>3

\* Whatever the layers of a start hold, each with any settings and any
\* spellings: the probe names the layer that answers, a reload of what nobody
\* touched moves nothing, and neither does one whose files have gone; and what
\* is shown resolves to the same, and tells no secret that is not written
\* out in another setting (LayeredEnv, boot_layer, render_config).
THEOREM LayersAlwaysAnswer ==
  Given_("stack") /\ LayeredStack(input.stack) =>
    /\ SourceAnswers /\ ReloadOfUnchanged /\ FilesMayVanish
    /\ SecretsAreApart(Resolved(input.stack)) => LayersAnswer
  BY SourcesAnswer, ReloadsToItself, FilesVanish, ShowsTruly DEF LayersAnswer

-----------------------------------------------------------------------------
(***************************************************************************)
(* Telemetry.                                                              *)
(***************************************************************************)
\* A nonempty set of numbers up to n has a largest one.
LEMMA LargestExists ==
  ASSUME NEW n \in Nat, NEW S \in SUBSET (0 .. n), S # {}
  PROVE  \E i \in S : \A j \in S : j <= i
  <1> DEFINE T == {n - i : i \in S}
             Less == OpToRel(<, Nat)
  <1>1. T \subseteq Nat /\ T # {}
    <2>1. ASSUME NEW i \in S PROVE n - i \in Nat
      OBVIOUS
    <2> QED BY <2>1
  <1>2. PICK x \in T : \A y \in T : ~ (<<y, x>> \in Less)
    BY <1>1, WFMin, NatLessThanWellFounded
  <1>3. PICK i \in S : x = n - i
    BY <1>2
  <1>4. ASSUME NEW j \in S, ~(j <= i)
        PROVE  FALSE
    <2>1. n - j < n - i /\ n - j \in T
      BY <1>4
    <2>2. <<n - j, x>> \in Less
      BY <1>1, <1>3, <2>1 DEF OpToRel
    <2> QED BY <1>2, <2>1, <2>2
  <1> QED BY <1>4

\* Trimming keeps a beginning that does not end in a slash, and a base that
\* does not is kept as it is.
LEMMA TrimAt ==
  ASSUME NEW S, NEW base \in Seq(S)
  PROVE  LET trimmed == trim_end_matches(base) IN
         /\ trimmed \in Seq(S)
         /\ trimmed # <<>> => trimmed[Len(trimmed)] # "/"
         /\ base # <<>> /\ base[Len(base)] # "/" => trimmed = base
  <1> DEFINE kept == {n \in 0 .. Len(base) : n = 0 \/ base[n] # "/"}
             Longest(n) == \A m \in kept : m <= n
             k == CHOOSE n \in kept : Longest(n)
  <1>1. Len(base) \in Nat /\ kept \in SUBSET (0 .. Len(base)) /\ 0 \in kept
    OBVIOUS
  <1>2. \E n \in kept : Longest(n)
    <2> HIDE DEF kept
    <2> QED BY <1>1, LargestExists
  <1>3. k \in kept /\ Longest(k)
    <2> HIDE DEF kept
    <2> QED BY <1>2
  <1>4. trim_end_matches(base) = SubSeq(base, 1, k)
    BY DEF trim_end_matches
  <1> HIDE DEF k
  <1>5. k \in 0 .. Len(base) /\ (k # 0 => base[k] # "/")
    BY <1>3
  <1>6. /\ SubSeq(base, 1, k) \in Seq(S) /\ Len(SubSeq(base, 1, k)) = k
        /\ \A i \in 1 .. k : SubSeq(base, 1, k)[i] = base[i]
    BY <1>5
  <1>7. base # <<>> /\ base[Len(base)] # "/" => k = Len(base)
    <2>1. base # <<>> /\ base[Len(base)] # "/" => Len(base) \in kept
      BY <1>1
    <2> QED BY <1>3, <1>5, <2>1
  <1>8. k = Len(base) => SubSeq(base, 1, k) = base
    BY <1>6
  <1> QED BY <1>4, <1>5, <1>6, <1>7, <1>8

\* An endpoint ends with its signal's path, follows the base, and is its own.
LEMMA EndpointAt ==
  ASSUME NEW S, Traces \in S, Measurements \in S, NEW base \in Seq(S),
         NEW path \in {Traces, Measurements}
  PROVE  LET trimmed == trim_end_matches(base)
             endpoint == signal_endpoint(base, path)
         IN  /\ endpoint # <<>> /\ Last(endpoint) = path
             /\ (trimmed = <<>> \/ Last(trimmed) # path) => Front(endpoint) = trimmed
             /\ signal_endpoint(endpoint, path) = endpoint
  <1> DEFINE trimmed == trim_end_matches(base)
             endpoint == signal_endpoint(base, path)
  <1>1. trimmed \in Seq(S)
    BY TrimAt
  <1>2. endpoint = IF trimmed # <<>> /\ Last(trimmed) = path THEN trimmed
                   ELSE Append(trimmed, path)
    BY DEF signal_endpoint
  <1> HIDE DEF trimmed, endpoint
  <1>3. /\ Append(trimmed, path) \in Seq(S) /\ Append(trimmed, path) # <<>>
        /\ Len(Append(trimmed, path)) = Len(trimmed) + 1
        /\ Append(trimmed, path)[Len(trimmed) + 1] = path
    BY <1>1
  <1>4. endpoint \in Seq(S) /\ endpoint # <<>> /\ endpoint[Len(endpoint)] = path
    BY <1>1, <1>2, <1>3 DEF Last
  <1>5. Front(Append(trimmed, path)) = trimmed
    <2>1. Front(Append(trimmed, path)) = SubSeq(Append(trimmed, path), 1, Len(trimmed))
      BY <1>1, <1>3 DEF Front
    <2> QED BY <1>1, <2>1
  <1>6. path # "/"
    BY DEF Traces, Measurements
  <1>7. trim_end_matches(endpoint) = endpoint
    BY <1>4, <1>6, TrimAt
  <1>8. signal_endpoint(endpoint, path) = endpoint
    BY <1>4, <1>7 DEF signal_endpoint, Last
  <1> QED BY <1>2, <1>4, <1>5, <1>8 DEF Last, trimmed, endpoint

\* The providers a process that comes up has, is instrumented with and keeps.
LEMMA StartedAt ==
  ASSUME NEW config, NEW built \in BOOLEAN, config.otel_enabled \in BOOLEAN, NEW fails,
         started(built, config, fails).up
  PROVE  LET process == started(built, config, fails)
             tracer == build_tracer_provider(from_config(config))
             meter == build_meter_provider(from_config(config))
         IN  IF built /\ config.otel_enabled
             THEN /\ process.spans = tracer /\ process.counters = meter
                  /\ process.provider_slot = {tracer} /\ process.meter_slot = {meter}
             ELSE process = Blank
  <1> DEFINE tracer == build_tracer_provider(from_config(config))
             meter == build_meter_provider(from_config(config))
             ready == init_telemetry(Blank, config, fails)
  <1>1. CASE ~(built /\ config.otel_enabled)
    BY <1>1 DEF started, init_metrics, init_tracing, is_telemetry_enabled, Blank, Metrics
  <1>2. CASE built /\ config.otel_enabled
    <2>1. started(built, config, fails) =
            LET traced == IF ready.up THEN [ready EXCEPT !.spans = ready.tracer] ELSE ready
            IN  IF traced.up THEN [traced EXCEPT !.counters = traced.meter] ELSE traced
      BY <1>2 DEF started, init_metrics, init_tracing, is_telemetry_enabled, Metrics
    <2> DEFINE T == [Blank EXCEPT !.provider_slot = {tracer}, !.tracer = tracer]
               M == [T EXCEPT !.meter_slot = {meter}, !.meter = meter]
    <2>2. ready \in {[Blank EXCEPT !.up = FALSE], [T EXCEPT !.up = FALSE], M}
      BY DEF init_telemetry
    <2> HIDE DEF ready, tracer, meter
    <2>3. ready = M
      BY <2>1, <2>2 DEF Blank
    <2>4. /\ ready.up /\ ready.tracer = tracer /\ ready.meter = meter
          /\ ready.provider_slot = {tracer} /\ ready.meter_slot = {meter}
          /\ ready \in [{"up", "tracer", "meter", "provider_slot", "meter_slot", "spans",
                         "counters"} -> {ready[x] : x \in DOMAIN ready}]
      BY <2>3 DEF Blank
    <2> QED BY <1>2, <2>1, <2>4 DEF tracer, meter
  <1> QED BY <1>1, <1>2

\* However an endpoint is written, whatever of the start fails: a server that
\* is up and has telemetry sends each signal to its own path, named once,
\* through the providers it shuts down; one that has none sends nothing
\* (signal_endpoint, init_telemetry, init_tracing, shutdown_telemetry).
THEOREM TelemetryAlwaysArrives ==
  Given_("telemetry") /\ input.base \in Seq(STRING) /\ {input.built, input.enabled} \subseteq BOOLEAN
    => TelemetryArrives
  <1> SUFFICES ASSUME input.base \in Seq(STRING), input.built \in BOOLEAN,
                      input.enabled \in BOOLEAN
               PROVE  TelemetryArrives
    OBVIOUS
  <1> DEFINE config == [otel_enabled |-> input.enabled, otel_endpoint |-> input.base,
                        otel_service_name |-> "captchapi"]
             process == started(input.built, config, input.fails)
             over == shutdown_telemetry(process)
             bare == trim_end_matches(input.base)
             plain == bare = <<>> \/ Last(bare) \notin {Traces, Measurements}
             instruments == {process.spans, process.counters}
             tracer == build_tracer_provider(from_config(config))
             meter == build_meter_provider(from_config(config))
             Arrives == /\ Ends(process.spans, Traces) /\ Ends(process.counters, Measurements)
                        /\ plain => \A p \in instruments : Front(p.to) = bare
                        /\ signal_endpoint(process.spans.to, Traces) = process.spans.to
                        /\ process.spans.as = process.counters.as
                        /\ over.sent = instruments /\ shutdown_telemetry(over.left).sent = {}
             Silent == instruments = {Nowhere} /\ over.sent = {}
  <1>1. SUFFICES ASSUME process.up
                 PROVE  IF input.built /\ input.enabled THEN Arrives ELSE Silent
    BY DEF TelemetryArrives
  <1>2. config.otel_enabled = input.enabled /\ config.otel_endpoint = input.base
    OBVIOUS
  <1>3. IF input.built /\ input.enabled
        THEN /\ process.spans = tracer /\ process.counters = meter
             /\ process.provider_slot = {tracer} /\ process.meter_slot = {meter}
        ELSE process = Blank
    <2> HIDE DEF config
    <2> QED BY <1>1, <1>2, StartedAt
  <1>4. /\ tracer.to = signal_endpoint(input.base, Traces)
        /\ meter.to = signal_endpoint(input.base, Measurements)
        /\ tracer.as = meter.as
    BY DEF build_tracer_provider, build_meter_provider, from_config, Provider, build_resource
  <1>5. /\ over.sent = process.provider_slot \union process.meter_slot
        /\ shutdown_telemetry(over.left).sent = over.left.provider_slot \union over.left.meter_slot
        /\ over.left = [process EXCEPT !.provider_slot = {}, !.meter_slot = {}]
    BY DEF shutdown_telemetry
  <1> HIDE DEF config, process, tracer, meter
  <1>6. CASE ~(input.built /\ input.enabled)
    BY <1>3, <1>5, <1>6 DEF Blank
  <1>7. CASE input.built /\ input.enabled
    <2> DEFINE S == STRING \union {Traces, Measurements}
    <2>1. Traces \in S /\ Measurements \in S /\ input.base \in Seq(S)
      OBVIOUS
    <2>2. /\ tracer.to # <<>> /\ Last(tracer.to) = Traces
          /\ plain => Front(tracer.to) = bare
          /\ signal_endpoint(tracer.to, Traces) = tracer.to
      <3> HIDE DEF S
      <3> QED BY <1>4, <2>1, EndpointAt
    <2>3. /\ meter.to # <<>> /\ Last(meter.to) = Measurements
          /\ plain => Front(meter.to) = bare
      <3> HIDE DEF S
      <3> QED BY <1>4, <2>1, EndpointAt
    <2>4. over.sent = instruments
      BY <1>3, <1>5, <1>7
    <2>5. shutdown_telemetry(over.left).sent = {}
      BY <1>5
    <2> QED BY <1>3, <1>4, <1>7, <2>2, <2>3, <2>4, <2>5 DEF Ends
  <1> QED BY <1>6, <1>7

-----------------------------------------------------------------------------
(***************************************************************************)
(* Secrets.                                                                *)
(***************************************************************************)
\* Three parts, one after the other.
LEMMA FlattenThree ==
  ASSUME NEW seqs, Len(seqs) = 3
  PROVE  FlattenSeq(seqs) = (seqs[1] \o seqs[2]) \o seqs[3]
  <1> DEFINE Step(g) == [i \in 1 .. Len(seqs) |-> IF i = 1 THEN seqs[i] ELSE g[i - 1] \o seqs[i]]
             f == CHOOSE g : g = Step(g)
             w == [i \in 1 .. 3 |-> IF i = 1 THEN seqs[1]
                                   ELSE IF i = 2 THEN seqs[1] \o seqs[2]
                                   ELSE (seqs[1] \o seqs[2]) \o seqs[3]]
  <1>2. FlattenSeq(seqs) = f[3]
    BY DEF FlattenSeq
  <1>3. w = Step(w)
    <2>1. \A i \in 1 .. 3 : w[i] = IF i = 1 THEN seqs[i] ELSE w[i - 1] \o seqs[i]
      OBVIOUS
    <2> QED BY <2>1
  <1>4. f = Step(f)
    <2> HIDE DEF Step, w
    <2> QED BY <1>3
  <1> HIDE DEF f
  <1>5. ASSUME NEW h
        PROVE  Step(h)[1] = seqs[1] /\ Step(h)[2] = h[1] \o seqs[2] /\ Step(h)[3] = h[2] \o seqs[3]
    OBVIOUS
  <1>6. f[1] = seqs[1] /\ f[2] = f[1] \o seqs[2] /\ f[3] = f[2] \o seqs[3]
    <2> HIDE DEF Step
    <2>1. Step(f)[1] = seqs[1] /\ Step(f)[2] = f[1] \o seqs[2] /\ Step(f)[3] = f[2] \o seqs[3]
      BY <1>5
    <2> QED BY <1>4, <2>1
  <1> QED BY <1>2, <1>6

\* What holds no z ends where the first z is.
LEMMA SplitAtFirst ==
  ASSUME NEW S, NEW z \in S, NEW a \in Seq(S), NEW b \in Seq(S), NEW c \in Seq(S), NEW d \in Seq(S),
         \A i \in DOMAIN a : a[i] # z, \A i \in DOMAIN b : b[i] # z,
         (a \o <<z>>) \o c = (b \o <<z>>) \o d
  PROVE  a = b /\ c = d
  <1>1. ASSUME NEW x \in Seq(S), NEW y \in Seq(S)
        PROVE  /\ x \o <<z>> \in Seq(S) /\ Len(x \o <<z>>) = Len(x) + 1
               /\ (x \o <<z>>) \o y \in Seq(S)
               /\ ((x \o <<z>>) \o y)[Len(x) + 1] = z
               /\ \A i \in 1 .. Len(x) : ((x \o <<z>>) \o y)[i] = x[i]
    <2>1. /\ x \o <<z>> \in Seq(S) /\ Len(x \o <<z>>) = Len(x) + 1
          /\ (x \o <<z>>)[Len(x) + 1] = z
          /\ \A i \in 1 .. Len(x) : (x \o <<z>>)[i] = x[i]
      OBVIOUS
    <2> DEFINE w == x \o <<z>>
    <2> HIDE DEF w
    <2>2. w \in Seq(S) /\ Len(w) = Len(x) + 1
      BY <2>1 DEF w
    <2>3. w \o y \in Seq(S) /\ \A i \in 1 .. Len(w) : (w \o y)[i] = w[i]
      BY <2>2
    <2>4. Len(x) \in Nat
      OBVIOUS
    <2> QED BY <2>1, <2>2, <2>3, <2>4 DEF w
  <1> DEFINE u == (a \o <<z>>) \o c
             v == (b \o <<z>>) \o d
  <1>2. /\ u = v /\ u[Len(a) + 1] = z /\ v[Len(b) + 1] = z
        /\ \A i \in 1 .. Len(a) : u[i] = a[i] /\ a[i] # z
        /\ \A i \in 1 .. Len(b) : v[i] = b[i] /\ b[i] # z
    <2>1. u[Len(a) + 1] = z /\ \A i \in 1 .. Len(a) : u[i] = a[i]
      BY <1>1
    <2>2. v[Len(b) + 1] = z /\ \A i \in 1 .. Len(b) : v[i] = b[i]
      BY <1>1
    <2>3. DOMAIN a = 1 .. Len(a) /\ DOMAIN b = 1 .. Len(b)
      OBVIOUS
    <2>4. u = v
      OBVIOUS
    <2> HIDE DEF u, v
    <2> QED BY <2>1, <2>2, <2>3, <2>4
  <1>3. Len(a) \in Nat /\ Len(b) \in Nat
    OBVIOUS
  <1> HIDE DEF u, v
  <1>4. Len(a) = Len(b)
    <2>1. ~(Len(a) < Len(b))
      BY <1>2, <1>3
    <2>2. ASSUME Len(b) < Len(a) PROVE FALSE
      <3>1. Len(b) + 1 \in 1 .. Len(a)
        BY <1>3, <2>2
      <3>2. u[Len(b) + 1] # z
        BY <1>2, <3>1
      <3> QED BY <1>2, <3>2
    <2> QED BY <1>3, <2>1, <2>2
  <1>5. a = b
    BY <1>2, <1>4
  <1>6. c = d
    BY <1>1, <1>5, ConcatSimplifications
  <1> QED BY <1>5, <1>6

\* A digest serves one message.
LEMMA DigestsApart ==
  ASSUME NEW x, NEW y, Sha256(x) = Sha256(y)
  PROVE  x = y
  BY DEF Sha256

\* What follows the same start is the same.
LEMMA SameRest ==
  ASSUME NEW S, NEW p \in Seq(S), NEW T, NEW a \in Seq(T), NEW b \in Seq(T), p \o a = p \o b
  PROVE  a = b
  <1> DEFINE U == S \union T
  <1>1. p \in Seq(U) /\ a \in Seq(U) /\ b \in Seq(U)
    BY SeqMonotonic
  <1> HIDE DEF U
  <1> QED BY <1>1, ConcatSimplifications

\* The symbols a padded key is made of.
Pads(pad, key) == {<<pad, key>>, <<pad, Zero>>}

\* A padded key starts with the key.
LEMMA PaddedAt ==
  ASSUME NEW pad, NEW key
  PROVE  LET padded == Padded(pad, <<key>>) IN
         /\ padded \in Seq(Pads(pad, key))
         /\ Len(padded) = 3 /\ padded[1] = <<pad, key>>
  <1>1. Len(<<key>>) = 1 /\ <<key>>[1] = key
    OBVIOUS
  <1>2. Padded(pad, <<key>>) = [i \in 1 .. 3 |-> <<pad, IF i <= 1 THEN key ELSE Zero>>]
    BY <1>1 DEF Padded, BLOCK_SIZE
  <1>3. Padded(pad, <<key>>) = <<<<pad, key>>, <<pad, Zero>>, <<pad, Zero>>>>
    BY <1>2
  <1> DEFINE x == <<pad, key>>
             y == <<pad, Zero>>
  <1> HIDE DEF x, y
  <1>4. <<x, y, y>> \in Seq({x, y}) /\ Len(<<x, y, y>>) = 3 /\ <<x, y, y>>[1] = x
    OBVIOUS
  <1> QED BY <1>3, <1>4 DEF x, y, Pads

\* The parts of a message, one after the other.
LEMMA FlattenOf ==
  ASSUME NEW S, NEW a \in Seq(S), NEW b \in Seq(S), NEW c \in Seq(S)
  PROVE  FlattenSeq(<<a, b, c>>) = (a \o b) \o c /\ (a \o b) \o c \in Seq(S)
  <1> DEFINE s == <<a, b, c>>
  <1>1. Len(s) = 3 /\ s[1] = a /\ s[2] = b /\ s[3] = c
    OBVIOUS
  <1>2. (a \o b) \o c \in Seq(S)
    <2>1. a \o b \in Seq(S)
      OBVIOUS
    <2> QED BY <2>1
  <1> HIDE DEF s
  <1>3. FlattenSeq(s) = (a \o b) \o c
    BY <1>1, FlattenThree
  <1> QED BY <1>2, <1>3 DEF s

\* One digest serves one key and one message.
LEMMA HmacApart ==
  ASSUME NEW S, NEW k, NEW l, NEW p, NEW q,
         FlattenSeq(p) \in Seq(S), FlattenSeq(q) \in Seq(S),
         hmac_sha256(<<k>>, p) = hmac_sha256(<<l>>, q)
  PROVE  k = l /\ FlattenSeq(p) = FlattenSeq(q)
  <1> DEFINE m == FlattenSeq(p)
             n == FlattenSeq(q)
             Inner(key) == Padded("inner", <<key>>)
             Outer(key, message) == Append(Padded("outer", <<key>>), Sha256(Inner(key) \o message))
  <1>1. hmac_sha256(<<k>>, p) = Sha256(Outer(k, m)) /\ hmac_sha256(<<l>>, q) = Sha256(Outer(l, n))
    BY DEF hmac_sha256
  <1>2. m \in Seq(S) /\ n \in Seq(S)
    OBVIOUS
  <1> HIDE DEF m, n
  <1>3. Outer(k, m) = Outer(l, n)
    BY <1>1, DigestsApart
  <1>4. ASSUME NEW pad, NEW key
        PROVE  Padded(pad, <<key>>) \in Seq(Pads(pad, key)) /\ Padded(pad, <<key>>)[1] = <<pad, key>>
    BY PaddedAt
  <1>5. Padded("outer", <<k>>) = Padded("outer", <<l>>) /\ Sha256(Inner(k) \o m) = Sha256(Inner(l) \o n)
    <2> DEFINE pk == Padded("outer", <<k>>)
               ql == Padded("outer", <<l>>)
               u == Sha256(Inner(k) \o m)
               v == Sha256(Inner(l) \o n)
    <2>1. pk \in Seq(Pads("outer", k)) /\ ql \in Seq(Pads("outer", l))
      BY <1>4
    <2>2. Append(pk, u) = Append(ql, v)
      BY <1>3
    <2> HIDE DEF pk, ql, u, v, Inner
    <2>3. pk = ql /\ u = v
      <3> DEFINE U == (Pads("outer", k) \union Pads("outer", l)) \union {u, v}
      <3>1. pk \in Seq(U) /\ ql \in Seq(U)
        BY <2>1, SeqMonotonic
      <3>2. u \in U /\ v \in U
        OBVIOUS
      <3> HIDE DEF U
      <3> QED BY <2>2, <3>1, <3>2, AppendInjective
    <2> QED BY <2>3 DEF pk, ql, u, v
  <1>6. k = l
    <2>1. <<"outer", k>> = <<"outer", l>>
      BY <1>4, <1>5
    <2> QED BY <2>1
  <1>7. Inner(k) \o m = Inner(k) \o n
    BY <1>5, <1>6, DigestsApart
  <1>8. m = n
    <2> DEFINE pk == Inner(k)
    <2>1. pk \in Seq(Pads("inner", k)) /\ pk \o m = pk \o n
      BY <1>4, <1>7
    <2> HIDE DEF pk
    <2> QED BY <1>2, <2>1, SameRest
  <1> QED BY <1>6, <1>8 DEF m, n

\* Symbols of what is configured, submitted and issued.
Symbol == {<<"char", c>> : c \in STRING} \union {<<"byte", n>> : n \in Nat}

\* The symbols of the two domains.
DomainSymbols == {<<"char", c>> : c \in {"c", ":", "s", "i", "k"}}

\* The symbols of a domain.
LEMMA DomainAt ==
  ASSUME NEW x \in {"c", ":", "s", "i", "k"}
  PROVE  LET domain == Text(<<"c", ":", x>>) IN
         /\ domain \in Seq(DomainSymbols) /\ Len(domain) = 3
         /\ domain[1] = <<"char", "c">> /\ domain[2] = <<"char", ":">> /\ domain[3] = <<"char", x>>
  <1> DEFINE a == <<"char", "c">>
             b == <<"char", ":">>
             d == <<"char", x>>
  <1>1. Text(<<"c", ":", x>>) = <<a, b, d>>
    <2> DEFINE t == <<"c", ":", x>>
    <2>1. DOMAIN t = 1 .. 3 /\ t[1] = "c" /\ t[2] = ":" /\ t[3] = x
      OBVIOUS
    <2> HIDE DEF t
    <2>2. Text(t) = [i \in 1 .. 3 |-> <<"char", t[i]>>]
      BY <2>1 DEF Text
    <2>3. [i \in 1 .. 3 |-> <<"char", t[i]>>] = <<a, b, d>>
      BY <2>1
    <2> QED BY <2>2, <2>3 DEF t
  <1>2. a \in DomainSymbols /\ b \in DomainSymbols /\ d \in DomainSymbols
    BY DEF DomainSymbols
  <1> HIDE DEF a, b, d
  <1>3. <<a, b, d>> \in Seq(DomainSymbols) /\ Len(<<a, b, d>>) = 3
        /\ <<a, b, d>>[1] = a /\ <<a, b, d>>[2] = b /\ <<a, b, d>>[3] = d
    BY <1>2
  <1> QED BY <1>1, <1>3 DEF a, b, d

\* A sequence starts with its first part,
LEMMA StartsWith ==
  ASSUME NEW S, NEW s \in Seq(S), NEW T, NEW t \in Seq(T), NEW i \in 1 .. Len(s)
  PROVE  (s \o t)[i] = s[i]
  <1> DEFINE U == S \union T
  <1>1. s \in Seq(U) /\ t \in Seq(U)
    BY SeqMonotonic
  <1> HIDE DEF U
  <1> QED BY <1>1

\* and with what it was before a symbol was added.
LEMMA AppendStartsWith ==
  ASSUME NEW S, NEW s \in Seq(S), NEW e, NEW i \in 1 .. Len(s)
  PROVE  Append(s, e)[i] = s[i]
  <1> DEFINE U == S \union {e}
  <1>1. s \in Seq(U) /\ e \in U
    BY SeqMonotonic
  <1> HIDE DEF U
  <1> QED BY <1>1

\* What a derived key starts with, and that it is one secret's.
LEMMA DerivedAt ==
  ASSUME NEW S, NEW secret \in Seq(S), NEW x \in {"c", ":", "s", "i", "k"}
  PROVE  LET w == Text(<<"c", ":", x>>) \o secret IN
         w[1] = <<"char", "c">> /\ w[2] = <<"char", ":">> /\ w[3] = <<"char", x>>
  <1> DEFINE domain == Text(<<"c", ":", x>>)
  <1>1. /\ domain \in Seq(DomainSymbols) /\ Len(domain) = 3
        /\ domain[1] = <<"char", "c">> /\ domain[2] = <<"char", ":">> /\ domain[3] = <<"char", x>>
    BY DomainAt
  <1> HIDE DEF domain
  <1>2. 1 \in 1 .. Len(domain) /\ 2 \in 1 .. Len(domain) /\ 3 \in 1 .. Len(domain)
    BY <1>1
  <1>3. /\ (domain \o secret)[1] = domain[1] /\ (domain \o secret)[2] = domain[2]
        /\ (domain \o secret)[3] = domain[3]
    BY <1>1, <1>2, StartsWith
  <1>4. /\ (domain \o secret)[1] = <<"char", "c">> /\ (domain \o secret)[2] = <<"char", ":">>
        /\ (domain \o secret)[3] = <<"char", x>>
    BY <1>1, <1>3
  <1> QED BY <1>4 DEF domain

\* One key is of one secret,
LEMMA KeyIsSecrets ==
  ASSUME NEW S, NEW a \in Seq(S), NEW b \in Seq(S), SolutionKey(a) = SolutionKey(b)
  PROVE  a = b
  <1>1. SolutionDomain \in Seq(DomainSymbols)
    BY DomainAt DEF SolutionDomain
  <1>2. SolutionDomain \o a = SolutionDomain \o b
    BY DigestsApart DEF SolutionKey
  <1> QED BY <1>1, <1>2, SameRest

\* and the key of an answer is no key of an image.
LEMMA KeysDiffer ==
  ASSUME NEW S, NEW a \in Seq(S), NEW b \in Seq(S)
  PROVE  SolutionKey(a) # MasterKey(b)
  <1> SUFFICES ASSUME SolutionKey(a) = MasterKey(b) PROVE FALSE
    OBVIOUS
  <1>1. SolutionDomain \o a = ImageDomain \o b
    BY DigestsApart DEF SolutionKey, MasterKey
  <1>2. (SolutionDomain \o a)[3] = <<"char", "s">> /\ (ImageDomain \o b)[3] = <<"char", "i">>
    BY DerivedAt DEF SolutionDomain, ImageDomain
  <1>3. <<"char", "s">> # <<"char", "i">>
    OBVIOUS
  <1> QED BY <1>1, <1>2, <1>3

\* What an HMAC is the digest of.
LEMMA HmacAt ==
  ASSUME NEW k, NEW parts
  PROVE  \E w : hmac_sha256(<<k>>, parts) = Sha256(w) /\ w[1] = <<"outer", k>>
  <1> DEFINE p == Padded("outer", <<k>>)
             last == Sha256(Padded("inner", <<k>>) \o FlattenSeq(parts))
  <1>1. p \in Seq(Pads("outer", k)) /\ Len(p) = 3 /\ p[1] = <<"outer", k>>
    BY PaddedAt
  <1>2. hmac_sha256(<<k>>, parts) = Sha256(Append(p, last))
    BY DEF hmac_sha256
  <1> HIDE DEF p, last
  <1>3. 1 \in 1 .. Len(p)
    BY <1>1
  <1>4. Append(p, last)[1] = p[1]
    BY <1>1, <1>3, AppendStartsWith
  <1> QED BY <1>1, <1>2, <1>4

\* No digest of what starts with a symbol that is not a pad's is an HMAC.
LEMMA NotHmac ==
  ASSUME NEW k, NEW parts, NEW v, \A l : v[1] # <<"outer", l>>
  PROVE  Sha256(v) # hmac_sha256(<<k>>, parts)
  <1>1. PICK w : hmac_sha256(<<k>>, parts) = Sha256(w) /\ w[1] = <<"outer", k>>
    BY HmacAt
  <1> QED BY <1>1, DigestsApart

\* The zero byte is a symbol.
LEMMA ZeroApart == <<Zero>> \in Seq(Symbol) /\ Zero \in Symbol
  BY DEF Zero, Symbol

\* A stored hash serves one secret, one id and one answer.
LEMMA AnswersApart ==
  ASSUME NEW secret \in Seq(Symbol), NEW other \in Seq(Symbol),
         NEW id1 \in Seq(Symbol), NEW id2 \in Seq(Symbol),
         NEW answer \in Seq(Symbol), NEW tried \in Seq(Symbol),
         \A i \in DOMAIN id1 : id1[i] # Zero, \A i \in DOMAIN id2 : id2[i] # Zero,
         solution_hash(other, id2, tried) = solution_hash(secret, id1, answer)
  PROVE  other = secret /\ id1 = id2 /\ tried = answer
  <1> DEFINE k == SolutionKey(other)
             l == SolutionKey(secret)
             z == <<Zero>>
  <1>1. hmac_sha256(<<k>>, <<id2, z, tried>>) = hmac_sha256(<<l>>, <<id1, z, answer>>)
    BY DEF solution_hash
  <1>2. z \in Seq(Symbol)
    BY ZeroApart
  <1> HIDE DEF k, l, z
  <1> DEFINE there == <<id1, z, answer>>
             here == <<id2, z, tried>>
  <1>3. k = l /\ (id2 \o z) \o tried = (id1 \o z) \o answer
    <2>1. /\ FlattenSeq(here) = (id2 \o z) \o tried /\ FlattenSeq(here) \in Seq(Symbol)
          /\ FlattenSeq(there) = (id1 \o z) \o answer /\ FlattenSeq(there) \in Seq(Symbol)
      <3>1. FlattenSeq(here) = (id2 \o z) \o tried /\ (id2 \o z) \o tried \in Seq(Symbol)
        BY <1>2, FlattenOf
      <3>2. FlattenSeq(there) = (id1 \o z) \o answer /\ (id1 \o z) \o answer \in Seq(Symbol)
        BY <1>2, FlattenOf
      <3> QED BY <3>1, <3>2
    <2> HIDE DEF here, there
    <2>2. k = l /\ FlattenSeq(here) = FlattenSeq(there)
      BY <1>1, <2>1, HmacApart DEF here, there
    <2> QED BY <2>1, <2>2
  <1>4. other = secret
    BY <1>3, KeyIsSecrets DEF k, l
  <1>5. id2 = id1 /\ tried = answer
    BY <1>3, ZeroApart, SplitAtFirst, ZenonT(40) DEF z
  <1> QED BY <1>4, <1>5

\* What may be submitted as an answer: any bytes; an id holds no zero byte.
AnswersGiven ==
  /\ {input.secret, input.other, input.id1, input.id2, input.answer, input.tried} \subseteq Seq(Symbol)
  /\ \A id \in {input.id1, input.id2} : \A i \in DOMAIN id : id[i] # Zero

\* AnswerIsSessions, whatever was submitted (SolutionHasher::hash, verify).
LEMMA AnswersStayApart == AnswersGiven => AnswerIsSessions
  <1> SUFFICES ASSUME AnswersGiven PROVE AnswerIsSessions
    OBVIOUS
  <1> DEFINE there == solution_hash(input.secret, input.id1, input.answer)
             here == solution_hash(input.other, input.id2, input.tried)
  <1>1. here = there => input.other = input.secret /\ input.id1 = input.id2 /\ input.tried = input.answer
    <2>1. /\ input.secret \in Seq(Symbol) /\ input.other \in Seq(Symbol)
          /\ input.id1 \in Seq(Symbol) /\ input.id2 \in Seq(Symbol)
          /\ input.answer \in Seq(Symbol) /\ input.tried \in Seq(Symbol)
          /\ \A i \in DOMAIN input.id1 : input.id1[i] # Zero
          /\ \A i \in DOMAIN input.id2 : input.id2[i] # Zero
      BY DEF AnswersGiven
    <2> SUFFICES ASSUME here = there
                 PROVE  input.other = input.secret /\ input.id1 = input.id2 /\ input.tried = input.answer
      OBVIOUS
    <2> DEFINE s == input.secret
               o == input.other
               i1 == input.id1
               i2 == input.id2
               a == input.answer
               t == input.tried
    <2>2. solution_hash(o, i2, t) = solution_hash(s, i1, a)
      OBVIOUS
    <2> HIDE DEF s, o, i1, i2, a, t
    <2>3. o = s /\ i1 = i2 /\ t = a
      <3>1. /\ s \in Seq(Symbol) /\ o \in Seq(Symbol) /\ i1 \in Seq(Symbol) /\ i2 \in Seq(Symbol)
            /\ a \in Seq(Symbol) /\ t \in Seq(Symbol)
            /\ \A i \in DOMAIN i1 : i1[i] # Zero
            /\ \A i \in DOMAIN i2 : i2[i] # Zero
        BY <2>1 DEF s, o, i1, i2, a, t
      <3> QED BY <2>2, <3>1, AnswersApart
    <2> QED BY <2>3 DEF s, o, i1, i2, a, t
  <1>2. input.other = input.secret /\ input.id1 = input.id2 /\ input.tried = input.answer => here = there
    OBVIOUS
  <1> QED BY <1>1, <1>2 DEF AnswerIsSessions, verify

\* Any secrets, the same or not; an API key is alphanumeric (generate_api_key).
KeysGiven ==
  /\ {input.salt, input.solution, input.image, input.id, input.api_key} \subseteq Seq(Symbol)
  /\ Len(input.api_key) >= 2 /\ \A i \in DOMAIN input.api_key : input.api_key[i] # <<"char", ":">>

\* KeysAreApart, whatever the secrets are (KEY_DERIVATION_DOMAIN).
LEMMA KeysStayApart == KeysGiven => KeysAreApart
  <1> SUFFICES ASSUME KeysGiven PROVE KeysAreApart
    OBVIOUS
  <1> DEFINE sk == SolutionKey(input.solution)
             mk == MasterKey(input.image)
             ik == session_key(input.image, input.id)
             ah == hash_api_key(input.salt, input.api_key)
             sh == solution_hash(input.solution, input.id, input.api_key)
             z == <<Zero>>
  <1>1. sk # mk
    BY KeysDiffer DEF KeysGiven
  <1>2. ASSUME NEW S, NEW secret \in Seq(S), NEW x \in {"c", ":", "s", "i", "k"}, NEW k, NEW parts
        PROVE  Sha256(Text(<<"c", ":", x>>) \o secret) # hmac_sha256(<<k>>, parts)
    <2> DEFINE v == Text(<<"c", ":", x>>) \o secret
    <2>1. v[1] = <<"char", "c">>
      BY DerivedAt
    <2> HIDE DEF v
    <2>2. \A l : v[1] # <<"outer", l>>
      BY <2>1
    <2>3. Sha256(v) # hmac_sha256(<<k>>, parts)
      BY <2>2, NotHmac
    <2> QED BY <2>3 DEF v
  <1>3. {sk, mk} \intersect {ik, sh} = {}
    BY <1>2 DEF KeysGiven, SolutionKey, MasterKey, session_key, solution_hash, SolutionDomain,
                ImageDomain
  <1>4. ik # sh
    <2> DEFINE info == SessionKeyInfo
    <2>1. info \in Seq(DomainSymbols)
      BY DomainAt DEF SessionKeyInfo
    <2> DEFINE U == Symbol \union DomainSymbols
    <2>2. /\ info \in Seq(U) /\ z \in Seq(U) /\ input.id \in Seq(U) /\ input.api_key \in Seq(U)
      BY <2>1, ZeroApart, SeqMonotonic DEF KeysGiven
    <2>3. ik = hmac_sha256(<<mk>>, <<info, z, input.id>>)
          /\ sh = hmac_sha256(<<sk>>, <<input.id, z, input.api_key>>)
      BY DEF session_key, solution_hash
    <2> HIDE DEF info, z, U, mk, sk, ik, sh
    <2> DEFINE p == <<info, z, input.id>>
               q == <<input.id, z, input.api_key>>
    <2>4. FlattenSeq(p) \in Seq(U) /\ FlattenSeq(q) \in Seq(U)
      <3>1. ASSUME NEW a \in Seq(U), NEW b \in Seq(U), NEW c \in Seq(U)
            PROVE  FlattenSeq(<<a, b, c>>) \in Seq(U)
        <4>1. FlattenSeq(<<a, b, c>>) = (a \o b) \o c /\ (a \o b) \o c \in Seq(U)
          BY FlattenOf
        <4> QED BY <4>1
      <3> DEFINE id == input.id
                 key == input.api_key
      <3>2. id \in Seq(U) /\ key \in Seq(U)
        BY <2>2
      <3> HIDE DEF id, key
      <3>3. FlattenSeq(<<info, z, id>>) \in Seq(U) /\ FlattenSeq(<<id, z, key>>) \in Seq(U)
        BY <2>2, <3>1, <3>2
      <3> QED BY <3>3 DEF id, key
    <2> HIDE DEF p, q
    <2>5. ik = hmac_sha256(<<mk>>, p) /\ sh = hmac_sha256(<<sk>>, q)
      BY <2>3 DEF p, q
    <2> QED BY <1>1, <2>4, <2>5, HmacApart
  <1> DEFINE key == input.api_key \o input.salt
  <1>5. ah = Sha256(key) /\ key[1] = input.api_key[1] /\ key[2] = input.api_key[2]
        /\ key[1] \in Symbol /\ key[2] # <<"char", ":">>
    <2>1. ah = Sha256(key)
      BY DEF hash_api_key
    <2>2. \A i \in 1 .. Len(input.api_key) : key[i] = input.api_key[i] /\ key[i] \in Symbol
      <3> DEFINE a == input.api_key
                 s == input.salt
      <3>1. a \in Seq(Symbol) /\ s \in Seq(Symbol)
        BY DEF KeysGiven
      <3> HIDE DEF a, s
      <3>2. ASSUME NEW i \in 1 .. Len(a) PROVE (a \o s)[i] = a[i] /\ a[i] \in Symbol
        BY <3>1, StartsWith, ElementOfSeq
      <3> QED BY <3>2 DEF a, s
    <2>3. Len(input.api_key) \in Nat /\ DOMAIN input.api_key = 1 .. Len(input.api_key)
      BY LenProperties DEF KeysGiven
    <2>4. 1 \in 1 .. Len(input.api_key) /\ 2 \in 1 .. Len(input.api_key)
      BY <2>3 DEF KeysGiven
    <2> HIDE DEF key
    <2> QED BY <2>1, <2>2, <2>3, <2>4 DEF KeysGiven
  <1>6. ah \notin {ik, sh}
    <2>1. \A l : key[1] # <<"outer", l>>
      BY <1>5 DEF Symbol
    <2> HIDE DEF key, ah
    <2>2. \A k, parts : Sha256(key) # hmac_sha256(<<k>>, parts)
      BY <2>1, NotHmac
    <2> QED BY <1>5, <2>2 DEF session_key, solution_hash
  <1>7. ah \notin {sk, mk}
    <2>1. (SolutionDomain \o input.solution)[2] = <<"char", ":">>
          /\ (ImageDomain \o input.image)[2] = <<"char", ":">>
      BY DerivedAt DEF KeysGiven, SolutionDomain, ImageDomain
    <2> HIDE DEF key, ah
    <2> QED BY <1>5, <2>1, DigestsApart DEF SolutionKey, MasterKey
  <1> HIDE DEF sk, mk, ik, ah, sh
  <1> DEFINE keys == <<sk, mk, ik>>
  <1>8. DOMAIN keys = {1, 2, 3} /\ keys[1] = sk /\ keys[2] = mk /\ keys[3] = ik
    OBVIOUS
  <1> HIDE DEF keys
  <1>9. \A i, j \in DOMAIN keys : keys[i] = keys[j] => i = j
    BY <1>1, <1>3, <1>8
  <1>10. \A i \in DOMAIN keys : keys[i] \notin {ah, sh}
    BY <1>3, <1>4, <1>6, <1>7, <1>8
  <1> QED BY <1>9, <1>10 DEF KeysAreApart, keys, sk, mk, ik, ah, sh

\* What a message is sealed into.
Sealed(key, nonce, i, symbol) == <<"sealed", <<key, nonce, i, symbol>>>>
Tag(key, nonce, aad, message, i) == <<"tag", <<key, nonce, aad, message, i>>>>
Pieces(key, nonce, aad, message) ==
  {Sealed(key, nonce, i, message[i]) : i \in 1 .. Len(message)}
    \union {Tag(key, nonce, aad, message, i) : i \in 1 .. TAG_LEN}

Version == <<"byte", FORMAT_VERSION>>
OnceSealed(key, nonce, id, image, S) == ({Version} \union S) \union Pieces(key, nonce, id, image)

\* A function of 1 .. n is a sequence.
LEMMA FunctionIsSeq ==
  ASSUME NEW S, NEW n \in Nat, NEW f \in [1 .. n -> S]
  PROVE  f \in Seq(S) /\ Len(f) = n
  OBVIOUS

\* Two sequences, symbol by symbol.
LEMMA ConcatAt ==
  ASSUME NEW S, NEW s \in Seq(S), NEW t \in Seq(S)
  PROVE  /\ s \o t \in Seq(S) /\ Len(s \o t) = Len(s) + Len(t)
         /\ \A i \in 1 .. Len(s) : (s \o t)[i] = s[i]
         /\ \A i \in 1 .. Len(t) : (s \o t)[Len(s) + i] = t[i]
  OBVIOUS

\* What is sealed, symbol by symbol.
LEMMA AeadAt ==
  ASSUME NEW key, NEW nonce, NEW aad, NEW S, NEW message \in Seq(S)
  PROVE  LET a == Aead(key, nonce, aad, message) IN
         /\ a \in Seq(Pieces(key, nonce, aad, message)) /\ Len(a) = Len(message) + 2
         /\ \A i \in 1 .. Len(message) : a[i] = Sealed(key, nonce, i, message[i])
         /\ \A i \in 1 .. 2 : a[Len(message) + i] = Tag(key, nonce, aad, message, i)
  <1> DEFINE P == Pieces(key, nonce, aad, message)
             f == [i \in 1 .. Len(message) |-> Sealed(key, nonce, i, message[i])]
             g == [i \in 1 .. 2 |-> Tag(key, nonce, aad, message, i)]
  <1>1. Aead(key, nonce, aad, message) = f \o g
    <2>1. DOMAIN message = 1 .. Len(message)
      OBVIOUS
    <2> QED BY <2>1 DEF Aead, TAG_LEN, Sealed, Tag
  <1>2. Len(message) \in Nat
    OBVIOUS
  <1>3. f \in Seq(P) /\ Len(f) = Len(message)
        /\ \A i \in 1 .. Len(message) : f[i] = Sealed(key, nonce, i, message[i])
    <2>1. f \in [1 .. Len(message) -> P]
      BY DEF Pieces
    <2>2. \A i \in 1 .. Len(message) : f[i] = Sealed(key, nonce, i, message[i])
      OBVIOUS
    <2> HIDE DEF f, P
    <2> QED BY <1>2, <2>1, <2>2
  <1>4. g \in Seq(P) /\ Len(g) = 2 /\ \A i \in 1 .. 2 : g[i] = Tag(key, nonce, aad, message, i)
    <2>1. g \in [1 .. 2 -> P]
      BY DEF Pieces, TAG_LEN
    <2>2. \A i \in 1 .. 2 : g[i] = Tag(key, nonce, aad, message, i)
      OBVIOUS
    <2> HIDE DEF g, P
    <2>3. g \in Seq(P) /\ Len(g) = 2
      BY <2>1, FunctionIsSeq
    <2> QED BY <2>2, <2>3
  <1> HIDE DEF f, g, P
  <1>5. /\ f \o g \in Seq(P) /\ Len(f \o g) = Len(f) + Len(g)
        /\ \A i \in 1 .. Len(f) : (f \o g)[i] = f[i]
        /\ \A i \in 1 .. Len(g) : (f \o g)[Len(f) + i] = g[i]
    <2>1. f \in Seq(P) /\ g \in Seq(P)
      BY <1>3, <1>4
    <2>2. f \o g \in Seq(P) /\ Len(f \o g) = Len(f) + Len(g)
      BY <2>1, ConcatAt
    <2>3. \A i \in 1 .. Len(f) : (f \o g)[i] = f[i]
      BY <2>1, ConcatAt
    <2>4. \A i \in 1 .. Len(g) : (f \o g)[Len(f) + i] = g[i]
      BY <2>1, ConcatAt
    <2> QED BY <2>2, <2>3, <2>4
  <1> QED BY <1>1, <1>3, <1>4, <1>5 DEF P

\* IsStored bytes, symbol by symbol.
IsStored(e, key, id, nonce, image, N) ==
  /\ e \in Seq(OnceSealed(key, nonce, id, image, N))
  /\ Len(e) = 5 + Len(image) /\ e[1] = Version
  /\ \A i \in 1 .. 2 : e[1 + i] = nonce[i]
  /\ \A i \in 1 .. Len(image) + 2 : e[3 + i] = Aead(key, nonce, id, image)[i]

\* What is written, symbol by symbol.
LEMMA EncryptedAt ==
  ASSUME NEW secret, NEW id, NEW N, NEW nonce \in Seq(N), Len(nonce) = 2, NEW S, NEW image \in Seq(S)
  PROVE  IsStored(encrypt(secret, id, nonce, image), session_key(secret, id), id, nonce, image, N)
  <1> DEFINE key == session_key(secret, id)
             a == Aead(key, nonce, id, image)
             ver == Version
             P == Pieces(key, nonce, id, image)
             head == <<ver>> \o nonce
  <1>1. a \in Seq(P) /\ Len(a) = Len(image) + 2
    BY AeadAt
  <1>2. encrypt(secret, id, nonce, image) = head \o a
    BY DEF encrypt, Version
  <1>0. Len(image) \in Nat
    OBVIOUS
  <1> HIDE DEF ver, P, a, key
  <1>3. /\ head \in Seq({ver} \union N) /\ Len(head) = 3 /\ head[1] = ver
        /\ \A i \in 1 .. 2 : head[1 + i] = nonce[i]
    <2> DEFINE v == <<ver>>
    <2>1. v \in Seq({ver}) /\ Len(v) = 1 /\ v[1] = ver
      OBVIOUS
    <2> HIDE DEF v
    <2> DEFINE U == {ver} \union N
    <2>3. v \in Seq(U) /\ nonce \in Seq(U)
      BY <2>1, SeqMonotonic
    <2> HIDE DEF U
    <2>2. /\ v \o nonce \in Seq(U) /\ Len(v \o nonce) = Len(v) + Len(nonce)
          /\ \A i \in 1 .. Len(v) : (v \o nonce)[i] = v[i]
          /\ \A i \in 1 .. Len(nonce) : (v \o nonce)[Len(v) + i] = nonce[i]
      <3>1. v \o nonce \in Seq(U) /\ Len(v \o nonce) = Len(v) + Len(nonce)
        BY <2>3, ConcatAt
      <3>2. \A i \in 1 .. Len(v) : (v \o nonce)[i] = v[i]
        BY <2>3, ConcatAt
      <3>3. \A i \in 1 .. Len(nonce) : (v \o nonce)[Len(v) + i] = nonce[i]
        BY <2>3, ConcatAt
      <3> QED BY <3>1, <3>2, <3>3
    <2> QED BY <2>1, <2>2 DEF v, U
  <1> HIDE DEF head
  <1> DEFINE U == ({ver} \union N) \union P
  <1>6. head \in Seq(U) /\ a \in Seq(U)
    BY <1>1, <1>3, SeqMonotonic
  <1> HIDE DEF U
  <1>4. /\ head \o a \in Seq(U) /\ Len(head \o a) = Len(head) + Len(a)
        /\ \A i \in 1 .. Len(head) : (head \o a)[i] = head[i]
        /\ \A i \in 1 .. Len(a) : (head \o a)[Len(head) + i] = a[i]
    BY <1>6, ConcatAt
  <1>5. /\ Len(head \o a) = 5 + Len(image) /\ (head \o a)[1] = ver
        /\ \A i \in 1 .. 2 : (head \o a)[1 + i] = nonce[i]
        /\ \A i \in 1 .. Len(image) + 2 : (head \o a)[3 + i] = a[i]
    BY <1>0, <1>1, <1>3, <1>4
  <1> QED BY <1>2, <1>4, <1>5 DEF ver, P, U, a, key, OnceSealed, IsStored

\* A part of a sequence, symbol by symbol.
LEMMA SubSeqAt ==
  ASSUME NEW S, NEW s \in Seq(S), NEW m \in Nat, NEW n \in Nat, m >= 1, n <= Len(s), m <= n + 1
  PROVE  /\ SubSeq(s, m, n) \in Seq(S) /\ Len(SubSeq(s, m, n)) = n - m + 1
         /\ \A i \in 1 .. n - m + 1 : SubSeq(s, m, n)[i] = s[m + i - 1]
  <1>1. m \in Int /\ n \in Int /\ \A i \in m .. n : s[i] \in S
    BY ElementOfSeq, LenProperties
  <1>2. SubSeq(s, m, n) \in Seq(S)
    BY <1>1, SubSeqProperties
  <1>3. Len(SubSeq(s, m, n)) = n - m + 1
    BY <1>1, SubSeqProperties
  <1>4. \A i \in 1 .. n - m + 1 : SubSeq(s, m, n)[i] = s[m + i - 1]
    BY <1>1, SubSeqProperties
  <1> QED BY <1>2, <1>3, <1>4

\* The message of what was sealed.
Message(bytes) ==
  [i \in 1 .. Len(bytes) - TAG_LEN |-> IF bytes[i][1] = "sealed" THEN bytes[i][2][4] ELSE Zero]

\* What decrypt makes of stored bytes.
ReadIs(read, found, sealed, rest) ==
  /\ Len(found) < 5 => read = Fails("short")
  /\ Len(found) >= 5 /\ found[1] # Version => read = Fails("version")
  /\ Len(found) >= 5 /\ found[1] = Version =>
       /\ sealed = rest => read = Opened(Message(rest))
       /\ sealed # rest => read = Fails("authentication")

\* What is found is read or refused.
LEMMA OpenedIs ==
  ASSUME NEW secret, NEW id, NEW U, NEW found \in Seq(U)
  PROVE  LET key == session_key(secret, id)
             rest == SubSeq(found, 4, Len(found))
         IN  ReadIs(decrypt(secret, id, found), found,
                    Aead(key, SubSeq(found, 2, 3), id, Message(rest)), rest)
  <1> DEFINE key == session_key(secret, id)
             nonce == SubSeq(found, 2, 3)
             rest == SubSeq(found, 4, Len(found))
             sealed == Aead(key, nonce, id, Message(rest))
             read == decrypt(secret, id, found)
  <1>1. Len(found) \in Nat
    OBVIOUS
  <1> DEFINE failure == Fails("authentication")
  <1>2. OpenedWith(key, nonce, id, rest) = IF sealed = rest THEN Opened(Message(rest)) ELSE failure
    BY DEF OpenedWith, Message
  <1>3. read = IF Len(found) < 5 THEN Fails("short")
               ELSE IF found[1] # Version THEN Fails("version")
               ELSE Unsealed(secret, id, found)
    BY DEF decrypt, NONCE_LEN, TAG_LEN, Version
  <1>4. Len(found) >= 5 => Unsealed(secret, id, found) = OpenedWith(key, nonce, id, rest)
    BY <1>1 DEF Unsealed, NONCE_LEN, TAG_LEN
  <1> HIDE DEF failure, key, nonce, rest, sealed, read
  <1>5. /\ Len(found) < 5 => read = Fails("short")
        /\ Len(found) >= 5 /\ found[1] # Version => read = Fails("version")
        /\ Len(found) >= 5 /\ found[1] = Version =>
             /\ sealed = rest => read = Opened(Message(rest))
             /\ sealed # rest => read = failure
    BY <1>1, <1>2, <1>3, <1>4
  <1>6. ReadIs(read, found, sealed, rest)
    BY <1>5 DEF failure, ReadIs
  <1> QED BY <1>6 DEF key, nonce, rest, sealed, read

\* What is written is read back.
LEMMA ReadBack ==
  ASSUME NEW secret, NEW id, NEW N, NEW nonce \in Seq(N), Len(nonce) = 2, NEW S, NEW image \in Seq(S)
  PROVE  decrypt(secret, id, encrypt(secret, id, nonce, image)) = Opened(image)
  <1> DEFINE key == session_key(secret, id)
             found == encrypt(secret, id, nonce, image)
             a == Aead(key, nonce, id, image)
             P == Pieces(key, nonce, id, image)
             U == OnceSealed(key, nonce, id, image, N)
             rest == SubSeq(found, 4, Len(found))
  <1>10. IsStored(found, key, id, nonce, image, N)
    BY EncryptedAt
  <1>2. /\ a \in Seq(P) /\ Len(a) = Len(image) + 2
        /\ \A i \in 1 .. Len(image) : a[i] = Sealed(key, nonce, i, image[i])
    BY AeadAt
  <1>4. P \subseteq U
    BY DEF OnceSealed
  <1> HIDE DEF U, P, found, a, key
  <1>1. /\ found \in Seq(U) /\ Len(found) = 5 + Len(image) /\ found[1] = Version
        /\ \A i \in 1 .. 2 : found[1 + i] = nonce[i]
        /\ \A i \in 1 .. Len(image) + 2 : found[3 + i] = a[i]
    BY <1>10 DEF IsStored, U, a
  <1>3. Len(image) \in Nat /\ image = [i \in 1 .. Len(image) |-> image[i]]
    OBVIOUS
  <1>5. SubSeq(found, 2, 3) = nonce
    <2> DEFINE s == SubSeq(found, 2, 3)
    <2>1. 2 \in Nat /\ 3 \in Nat /\ 2 >= 1 /\ 3 <= Len(found) /\ 2 <= 3 + 1
      BY <1>1, <1>3
    <2>2. s \in Seq(U) /\ Len(s) = 3 - 2 + 1 /\ \A i \in 1 .. 3 - 2 + 1 : s[i] = found[2 + i - 1]
      BY <1>1, <2>1, SubSeqAt
    <2> HIDE DEF s
    <2>3. \A i \in 1 .. 2 : s[i] = nonce[i]
      BY <1>1, <2>2
    <2> DEFINE V == U \union N
    <2>4. s \in Seq(V) /\ nonce \in Seq(V) /\ Len(s) = Len(nonce)
      BY <2>2, SeqMonotonic
    <2> HIDE DEF V
    <2>5. s = nonce
      BY <2>2, <2>3, <2>4, SeqEqual
    <2> QED BY <2>5 DEF s
  <1>6. rest = a
    <2>1. 4 \in Nat /\ Len(found) \in Nat /\ 4 >= 1 /\ Len(found) <= Len(found) /\ 4 <= Len(found) + 1
      BY <1>1, <1>3
    <2>2. /\ rest \in Seq(U) /\ Len(rest) = Len(found) - 4 + 1
          /\ \A i \in 1 .. Len(found) - 4 + 1 : rest[i] = found[4 + i - 1]
      BY <1>1, <2>1, SubSeqAt
    <2> HIDE DEF rest
    <2>3. Len(rest) = Len(image) + 2 /\ Len(rest) = Len(a)
      BY <1>1, <1>2, <1>3, <2>2
    <2>5. ASSUME NEW i \in 1 .. Len(rest) PROVE rest[i] = a[i]
      <3>1. i \in 1 .. Len(found) - 4 + 1 /\ i \in 1 .. Len(image) + 2 /\ 4 + i - 1 = 3 + i
        BY <1>1, <1>3, <2>3
      <3> QED BY <1>1, <2>2, <3>1
    <2>4. a \in Seq(U)
      BY <1>2, <1>4, SeqMonotonic
    <2> QED BY <2>2, <2>3, <2>4, <2>5, SeqEqual
  <1> HIDE DEF rest
  <1>7. Message(a) = image
    <2>1. Len(a) - 2 = Len(image)
      BY <1>2, <1>3
    <2>2. ASSUME NEW i \in 1 .. Len(image)
          PROVE  (IF a[i][1] = "sealed" THEN a[i][2][4] ELSE Zero) = image[i]
      <3>1. a[i] = Sealed(key, nonce, i, image[i])
        BY <1>2
      <3>2. Sealed(key, nonce, i, image[i])[1] = "sealed" /\ Sealed(key, nonce, i, image[i])[2][4] = image[i]
        BY DEF Sealed
      <3> QED BY <3>1, <3>2
    <2>3. Message(a) = [i \in 1 .. Len(image) |-> IF a[i][1] = "sealed" THEN a[i][2][4] ELSE Zero]
      BY <2>1 DEF Message, TAG_LEN
    <2>4. Message(a) = [i \in 1 .. Len(image) |-> image[i]]
      BY <2>2, <2>3
    <2> QED BY <1>3, <2>4
  <1>8. Aead(key, nonce, id, Message(rest)) = rest
    BY <1>6, <1>7 DEF a
  <1>9. decrypt(secret, id, found) = Opened(Message(rest))
    <2>1. Len(found) >= 5
      BY <1>1, <1>3
    <2> DEFINE first == SubSeq(found, 2, 3)
               sealed == Aead(session_key(secret, id), first, id, Message(SubSeq(found, 4, Len(found))))
               read == decrypt(secret, id, found)
    <2>2. ReadIs(read, found, sealed, SubSeq(found, 4, Len(found)))
      BY <1>1, OpenedIs
    <2>3. sealed = rest
      BY <1>5, <1>8 DEF rest, key
    <2> HIDE DEF first, sealed, read
    <2>4. read = Opened(Message(rest))
      <3> HIDE DEF rest
      <3>1. ReadIs(read, found, sealed, rest)
        BY <2>2 DEF rest
      <3> QED BY <1>1, <2>1, <2>3, <3>1 DEF ReadIs
    <2> QED BY <2>4 DEF read
  <1> QED BY <1>6, <1>7, <1>9 DEF found

\* What is read was written for the session, under the same secret.
LEMMA OnlyWritten ==
  ASSUME NEW secret, NEW id, NEW U, NEW found \in Seq(U), decrypt(secret, id, found).error = "none"
  PROVE  \E nonce, image :
           /\ nonce = SubSeq(found, 2, 3) /\ nonce \in Seq(U) /\ Len(nonce) = 2
           /\ Len(found) >= 5 /\ found[1] = Version
           /\ decrypt(secret, id, found) = Opened(image)
           /\ found = encrypt(secret, id, nonce, image)
           /\ found[Len(found)] = Tag(session_key(secret, id), nonce, id, image, 2)
  <1> DEFINE key == session_key(secret, id)
             nonce == SubSeq(found, 2, 3)
             rest == SubSeq(found, 4, Len(found))
             image == Message(rest)
             a == Aead(key, nonce, id, image)
             read == decrypt(secret, id, found)
  <1>0. Len(found) \in Nat
    OBVIOUS
  <1>1. Len(found) >= 5 /\ found[1] = Version /\ a = rest /\ read = Opened(image)
    <2>1. ReadIs(read, found, a, rest)
      BY OpenedIs
    <2>2. Fails("short").error = "short" /\ Fails("version").error = "version"
          /\ Fails("authentication").error = "authentication"
      BY DEF Fails
    <2>3. read.error = "none"
      OBVIOUS
    <2> HIDE DEF key, nonce, rest, a, read
    <2> QED BY <1>0, <2>1, <2>2, <2>3 DEF ReadIs
  <1>2. nonce \in Seq(U) /\ Len(nonce) = 2 /\ \A i \in 1 .. 2 : nonce[i] = found[1 + i]
    <2>1. 2 \in Nat /\ 3 \in Nat /\ 2 >= 1 /\ 3 <= Len(found) /\ 2 <= 3 + 1
      BY <1>0, <1>1
    <2>2. nonce \in Seq(U) /\ Len(nonce) = 3 - 2 + 1 /\ \A i \in 1 .. 3 - 2 + 1 : nonce[i] = found[2 + i - 1]
      BY <2>1, SubSeqAt
    <2> HIDE DEF nonce
    <2> QED BY <2>2
  <1>3. rest \in Seq(U) /\ Len(rest) = Len(found) - 3
        /\ \A i \in 1 .. Len(found) - 3 : rest[i] = found[3 + i]
    <2>1. 4 \in Nat /\ 4 >= 1 /\ Len(found) <= Len(found) /\ 4 <= Len(found) + 1
      BY <1>0, <1>1
    <2>2. /\ rest \in Seq(U) /\ Len(rest) = Len(found) - 4 + 1
          /\ \A i \in 1 .. Len(found) - 4 + 1 : rest[i] = found[4 + i - 1]
      BY <1>0, <2>1, SubSeqAt
    <2> HIDE DEF rest
    <2> QED BY <1>0, <2>2, SMTT(20)
  <1> HIDE DEF nonce, rest
  <1> DEFINE n == Len(found) - 5
             I == {image[i] : i \in 1 .. n}
  <1>4. image \in Seq(I) /\ Len(image) = n /\ n \in Nat
    <2>1. n \in Nat /\ Len(rest) - 2 = n
      BY <1>0, <1>1, <1>3
    <2>2. image \in [1 .. n -> I]
      BY <2>1 DEF Message, TAG_LEN
    <2> HIDE DEF image, I, n
    <2> QED BY <2>1, <2>2, FunctionIsSeq
  <1> HIDE DEF image, I
  <1> DEFINE P == Pieces(key, nonce, id, image)
  <1>5. /\ a \in Seq(P) /\ Len(a) = Len(image) + 2
        /\ \A i \in 1 .. 2 : a[Len(image) + i] = Tag(key, nonce, id, image, i)
    BY <1>4, AeadAt
  <1>6. found[Len(found)] = Tag(key, nonce, id, image, 2)
    <2> HIDE DEF a, P, key
    <2>1. Len(found) - 3 \in 1 .. Len(found) - 3 /\ Len(found) - 3 = Len(image) + 2
          /\ 3 + (Len(found) - 3) = Len(found)
      BY <1>0, <1>1, <1>4
    <2>2. rest[Len(found) - 3] = found[Len(found)]
      BY <1>3, <2>1
    <2>3. a[Len(image) + 2] = Tag(key, nonce, id, image, 2)
      BY <1>5
    <2> QED BY <1>1, <2>1, <2>2, <2>3
  <1>7. found = encrypt(secret, id, nonce, image)
    <2> DEFINE e == encrypt(secret, id, nonce, image)
               V == OnceSealed(key, nonce, id, image, U)
               W == U \union V
    <2>1. /\ e \in Seq(V) /\ Len(e) = 5 + Len(image) /\ e[1] = Version
          /\ \A i \in 1 .. 2 : e[1 + i] = nonce[i]
          /\ \A i \in 1 .. Len(image) + 2 : e[3 + i] = a[i]
      <3>1. IsStored(e, key, id, nonce, image, U)
        BY <1>2, <1>4, EncryptedAt
      <3> HIDE DEF key, e
      <3> QED BY <3>1 DEF IsStored
    <2>2. found \in Seq(W)
      BY SeqMonotonic
    <2>3. e \in Seq(W)
      <3> HIDE DEF V, e
      <3> QED BY <2>1, SeqMonotonic
    <2> HIDE DEF e, V, W, P, a, key
    <2>4. Len(e) = Len(found)
      BY <1>0, <1>4, <2>1
    <2>5. ASSUME NEW i \in 1 .. Len(found) PROVE found[i] = e[i]
      <3>1. CASE i = 1
        BY <1>1, <2>1, <3>1
      <3>2. CASE i \in 2 .. 3
        <4>1. i - 1 \in 1 .. 2 /\ 1 + (i - 1) = i
          BY <3>2
        <4> QED BY <1>2, <2>1, <4>1
      <3>3. CASE i \in 4 .. Len(found)
        <4>1. i - 3 \in 1 .. Len(found) - 3 /\ 3 + (i - 3) = i /\ Len(found) - 3 = Len(image) + 2
          BY <1>0, <1>4, <3>3
        <4> QED BY <1>1, <1>3, <2>1, <4>1
      <3> QED BY <1>0, <3>1, <3>2, <3>3
    <2>6. found = e
      BY <2>2, <2>3, <2>4, <2>5, SeqEqual
    <2> QED BY <2>6 DEF e
  <1> QED BY <1>1, <1>2, <1>6, <1>7 DEF nonce

\* No cell of stored bytes but a tag of it is a tag.
LEMMA TagOf ==
  ASSUME NEW key, NEW nonce, NEW id, NEW image, NEW k, NEW n, NEW a, NEW m,
         Tag(k, n, a, m, 2) \in OnceSealed(key, nonce, id, image, {<<"char", c>> : c \in {"m", "n", "x", "y"}})
  PROVE  n = nonce /\ m = image
  <1> DEFINE x == Tag(k, n, a, m, 2)
  <1>1. x[1] = "tag" /\ x[2] = <<k, n, a, m, 2>>
    BY DEF Tag
  <1>2. x # Version
    BY <1>1 DEF Version
  <1>3. x \notin {<<"char", c>> : c \in {"m", "n", "x", "y"}}
    BY <1>1
  <1>4. \A i \in 1 .. Len(image) : x # Sealed(key, nonce, i, image[i])
    BY <1>1 DEF Sealed
  <1>5. PICK i \in 1 .. TAG_LEN : x = Tag(key, nonce, id, image, i)
    BY <1>2, <1>3, <1>4 DEF OnceSealed, Pieces
  <1>6. <<k, n, a, m, 2>> = <<key, nonce, id, image, i>>
    BY <1>1, <1>5 DEF Tag
  <1> QED BY <1>6

\* What may be found is of what was written, and no other symbol but two.
LEMMA DamagedOf ==
  ASSUME NEW W, NEW bytes \in Seq(W), NEW other \in Seq(W), Len(bytes) = 7, Len(other) = 7,
         Zero \in W, <<"byte", 1>> \in W, NEW damage \in Damages, NEW spot \in 1 .. 7
  PROVE  LET found == Damaged(bytes, other, damage, spot) IN
         /\ found \in Seq(W)
         /\ damage = "version" => Len(found) = 7 /\ found[1] = <<"byte", 1>>
  <1> DEFINE one == <<"byte", 1>>
             found == Damaged(bytes, other, damage, spot)
             head == SubSeq(bytes, 1, spot)
             end == SubSeq(bytes, spot, Len(bytes))
             start == SubSeq(bytes, 1, spot - 1)
             rest == SubSeq(other, spot + 1, Len(other))
  <1>1. head \in Seq(W)
    <2>1. spot \in Nat /\ 1 \in Nat /\ 1 >= 1 /\ spot <= Len(bytes) /\ 1 <= spot + 1
      OBVIOUS
    <2> QED BY <2>1, SubSeqAt
  <1>2. end \in Seq(W)
    <2>1. spot \in Nat /\ 7 \in Nat /\ spot >= 1 /\ 7 <= Len(bytes) /\ spot <= 7 + 1
      OBVIOUS
    <2> QED BY <2>1, SubSeqAt
  <1>3. start \in Seq(W)
    <2>1. spot - 1 \in Nat /\ 1 \in Nat /\ 1 >= 1 /\ spot - 1 <= Len(bytes) /\ 1 <= (spot - 1) + 1
      OBVIOUS
    <2> QED BY <2>1, SubSeqAt
  <1>4. rest \in Seq(W)
    <2>1. spot + 1 \in Nat /\ 7 \in Nat /\ spot + 1 >= 1 /\ 7 <= Len(other) /\ spot + 1 <= 7 + 1
      OBVIOUS
    <2> QED BY <2>1, SubSeqAt
  <1>5. [bytes EXCEPT ![spot] = Zero] \in Seq(W)
    BY ExceptSeq
  <1>6. [bytes EXCEPT ![1] = one] \in Seq(W) /\ Len([bytes EXCEPT ![1] = one]) = 7
        /\ [bytes EXCEPT ![1] = one][1] = one
    <2>1. 1 \in 1 .. Len(bytes) /\ one \in W
      OBVIOUS
    <2> HIDE DEF one
    <2> DEFINE e == [bytes EXCEPT ![1] = one]
    <2>2. e \in Seq(W)
      BY <2>1, ExceptSeq
    <2>3. Len(e) = Len(bytes)
      BY <2>1, ExceptSeq
    <2>4. e[1] = one
      BY <2>1
    <2> QED BY <2>2, <2>3, <2>4
  <1>7. head \o rest \in Seq(W) /\ end \o start \in Seq(W)
    <2> HIDE DEF head, rest, end, start
    <2> QED BY <1>1, <1>2, <1>3, <1>4
  <1>8. CASE damage = "none"
    BY <1>8 DEF Damaged
  <1>9. CASE damage = "cut"
    <2>1. found = start
      BY <1>9 DEF Damaged
    <2> QED BY <1>3, <1>9, <2>1
  <1>10. CASE damage = "joined"
    <2>1. found = head \o rest
      BY <1>10 DEF Damaged
    <2> QED BY <1>7, <1>10, <2>1
  <1>11. CASE damage = "changed"
    <2>1. found = [bytes EXCEPT ![spot] = Zero]
      BY <1>11 DEF Damaged
    <2> QED BY <1>5, <1>11, <2>1
  <1>12. CASE damage = "swapped"
    <2>1. found = end \o start
      BY <1>12 DEF Damaged
    <2> QED BY <1>7, <1>12, <2>1
  <1>13. CASE damage = "version"
    <2>1. found = [bytes EXCEPT ![1] = one]
      BY <1>13 DEF Damaged
    <2> QED BY <1>6, <2>1
  <1> QED BY <1>8, <1>9, <1>10, <1>11, <1>12, <1>13 DEF Damages

Letters == {"m", "n", "x", "y"}
Chars == {<<"char", c>> : c \in Letters}

\* Two letters are two symbols.
LEMMA TextOfTwo ==
  ASSUME NEW x \in Letters, NEW y \in Letters
  PROVE  Text(<<x, y>>) \in Seq(Chars) /\ Len(Text(<<x, y>>)) = 2
  <1> DEFINE a == <<"char", x>>
             b == <<"char", y>>
  <1>1. Text(<<x, y>>) = <<a, b>>
    <2> DEFINE t == <<x, y>>
    <2>1. DOMAIN t = 1 .. 2 /\ t[1] = x /\ t[2] = y
      OBVIOUS
    <2> HIDE DEF t
    <2>2. Text(t) = [i \in 1 .. 2 |-> <<"char", t[i]>>]
      BY <2>1 DEF Text
    <2>3. [i \in 1 .. 2 |-> <<"char", t[i]>>] = <<a, b>>
      BY <2>1
    <2> QED BY <2>2, <2>3 DEF t
  <1>2. a \in Chars /\ b \in Chars
    BY DEF Chars
  <1> HIDE DEF a, b
  <1>3. <<a, b>> \in Seq(Chars) /\ Len(<<a, b>>) = 2
    BY <1>2
  <1> QED BY <1>1, <1>3

\* Any secrets and ids, the same or not.
ImagesGiven ==
  {input.n1, input.n2} \subseteq Nonces /\ input.damage \in Damages /\ input.at \in 1 .. 7

\* ImageIsSessions, whatever the secrets and ids are (ImageCipher::decrypt).
LEMMA ImagesStayApart == ImagesGiven => ImageIsSessions
  <1> SUFFICES ASSUME ImagesGiven PROVE ImageIsSessions
    OBVIOUS
  <1> DEFINE now == input.now
             id == input.id2
             k1 == session_key(input.secret, input.id1)
             k2 == session_key(input.secret, id)
             n1 == input.n1
             n2 == input.n2
             written == encrypt(input.secret, input.id1, n1, Image)
             other == encrypt(input.secret, id, n2, Image)
             found == Damaged(written, other, input.damage, input.at)
             read == decrypt(now, id, found)
             W1 == OnceSealed(k1, n1, input.id1, Image, Chars)
             W2 == OnceSealed(k2, n2, id, Image, Chars)
             W == (W1 \union W2) \union {Zero, <<"byte", 1>>}
  <1>1. Image \in Seq(Chars) /\ Len(Image) = 2
    <2>1. "x" \in Letters /\ "y" \in Letters
      BY DEF Letters
    <2> QED BY <2>1, TextOfTwo DEF Image
  <1>2. \A n \in Nonces : n \in Seq(Chars) /\ Len(n) = 2
    <2>1. "m" \in Letters /\ "n" \in Letters
      BY DEF Letters
    <2>2. Text(<<"m", "n">>) \in Seq(Chars) /\ Len(Text(<<"m", "n">>)) = 2
      BY <2>1, TextOfTwo
    <2>3. Text(<<"m", "m">>) \in Seq(Chars) /\ Len(Text(<<"m", "m">>)) = 2
      BY <2>1, TextOfTwo
    <2> QED BY <2>2, <2>3 DEF Nonces
  <1>3. n1 \in Nonces /\ n2 \in Nonces
    BY DEF ImagesGiven
  <1>4. IsStored(written, k1, input.id1, n1, Image, Chars)
    <2> DEFINE s == input.secret
               i == input.id1
               n == input.n1
    <2>1. n \in Seq(Chars) /\ Len(n) = 2
      BY <1>2, <1>3
    <2> HIDE DEF s, i, n
    <2>2. IsStored(encrypt(s, i, n, Image), session_key(s, i), i, n, Image, Chars)
      BY <1>1, <2>1, EncryptedAt
    <2> QED BY <2>2 DEF s, i, n
  <1>5. IsStored(other, k2, id, n2, Image, Chars)
    <2> DEFINE s == input.secret
               i == input.id2
               n == input.n2
    <2>1. n \in Seq(Chars) /\ Len(n) = 2
      BY <1>2, <1>3
    <2> HIDE DEF s, i, n
    <2>2. IsStored(encrypt(s, i, n, Image), session_key(s, i), i, n, Image, Chars)
      BY <1>1, <2>1, EncryptedAt
    <2> QED BY <2>2 DEF s, i, n
  <1>6. found \in Seq(W) /\ (input.damage = "version" => Len(found) = 7 /\ found[1] = <<"byte", 1>>)
    <2>1. written \in Seq(W1) /\ Len(written) = 7 /\ other \in Seq(W2) /\ Len(other) = 7
      <3> HIDE DEF written, other, k1, k2
      <3> QED BY <1>1, <1>4, <1>5 DEF IsStored
    <2>2. W1 \subseteq W /\ W2 \subseteq W /\ Zero \in W /\ <<"byte", 1>> \in W
      OBVIOUS
    <2> DEFINE damage == input.damage
               spot == input.at
    <2>3. damage \in Damages /\ spot \in 1 .. 7
      BY DEF ImagesGiven
    <2> HIDE DEF written, other, W, W1, W2, damage, spot
    <2>4. written \in Seq(W) /\ other \in Seq(W)
      BY <2>1, <2>2, SeqMonotonic
    <2> DEFINE f == Damaged(written, other, damage, spot)
    <2>5. f \in Seq(W) /\ (damage = "version" => Len(f) = 7 /\ f[1] = <<"byte", 1>>)
      BY <2>1, <2>2, <2>3, <2>4, DamagedOf, ZenonT(40)
    <2> QED BY <2>5 DEF damage, spot
  <1> HIDE DEF found
  <1>7. read.error \in {"short", "version", "authentication", "none"}
    <2> DEFINE rest == SubSeq(found, 4, Len(found))
               sealed == Aead(session_key(now, id), SubSeq(found, 2, 3), id, Message(rest))
    <2> HIDE DEF W
    <2>1. ReadIs(read, found, sealed, rest) /\ Len(found) \in Nat
      <3> DEFINE s == now
                 i == id
      <3> HIDE DEF s, i
      <3>1. ReadIs(decrypt(s, i, found), found,
                   Aead(session_key(s, i), SubSeq(found, 2, 3), i, Message(rest)), rest)
        BY <1>6, OpenedIs
      <3> QED BY <1>6, <3>1 DEF s, i
    <2> HIDE DEF read, sealed, rest
    <2>2. read = Fails("short") \/ read = Fails("version") \/ read = Fails("authentication")
          \/ read = Opened(Message(rest))
      BY <2>1 DEF ReadIs
    <2> QED BY <2>2 DEF Fails, Opened
  <1>8. ASSUME NEW nonce \in Nonces, found = encrypt(now, id, nonce, Image)
        PROVE  read.error = "none"
    <2> DEFINE s == now
               i == id
    <2> HIDE DEF s, i
    <2>1. decrypt(s, i, encrypt(s, i, nonce, Image)) = Opened(Image)
      BY <1>1, <1>2, ReadBack
    <2> QED BY <1>8, <2>1 DEF Opened, s, i
  <1>9. ASSUME read.error = "none"
        PROVE  read.image = Image /\ \E nonce \in Nonces : found = encrypt(now, id, nonce, Image)
    <2> DEFINE s == now
               i == id
    <2>1. decrypt(s, i, found).error = "none"
      BY <1>9
    <2> HIDE DEF s, i, W
    <2>2. PICK nonce, image :
            /\ Len(found) >= 5 /\ decrypt(s, i, found) = Opened(image)
            /\ found = encrypt(s, i, nonce, image)
            /\ found[Len(found)] = Tag(session_key(s, i), nonce, i, image, 2)
      BY <1>6, <2>1, OnlyWritten
    <2>3. found[Len(found)] \in W
      BY <1>6, <2>2, ElementOfSeq, LenProperties
    <2> DEFINE x == Tag(session_key(s, i), nonce, i, image, 2)
    <2>4. x \in W1 \/ x \in W2
      <3>1. x[1] = "tag"
        BY DEF Tag
      <3>2. x # Zero /\ x # <<"byte", 1>>
        BY <3>1 DEF Zero
      <3> HIDE DEF x, W1, W2
      <3> QED BY <2>2, <2>3, <3>2 DEF W, x
    <2>5. (nonce = n1 \/ nonce = n2) /\ image = Image
      <3> DEFINE i1 == input.id1
                 m1 == n1
                 m2 == n2
                 i2 == id
      <3> HIDE DEF k1, k2, i1, i2, m1, m2
      <3>1. x \in OnceSealed(k1, m1, i1, Image, Chars) \/ x \in OnceSealed(k2, m2, i2, Image, Chars)
        BY <2>4 DEF i1, i2, m1, m2
      <3>2. (nonce = m1 \/ nonce = m2) /\ image = Image
        BY <3>1, TagOf DEF Chars, Letters
      <3> QED BY <3>2 DEF m1, m2
    <2>6. nonce \in Nonces
      BY <1>3, <2>5
    <2> QED BY <2>2, <2>5, <2>6 DEF s, i, Opened
  <1>10. input.damage = "version" => read.error = "version"
    <2> SUFFICES ASSUME input.damage = "version" PROVE read.error = "version"
      OBVIOUS
    <2> DEFINE s == now
               i == id
               rest == SubSeq(found, 4, Len(found))
               sealed == Aead(session_key(s, i), SubSeq(found, 2, 3), i, Message(rest))
               it == decrypt(s, i, found)
               one == <<"byte", 1>>
    <2> HIDE DEF s, i, W
    <2>1. ReadIs(it, found, sealed, rest)
      BY <1>6, OpenedIs
    <2>2. one # Version
      BY DEF Version, FORMAT_VERSION
    <2>3. Len(found) = 7 /\ found[1] = one
      BY <1>6
    <2> HIDE DEF it, sealed, rest, one
    <2>4. it = Fails("version")
      BY <2>1, <2>2, <2>3 DEF ReadIs
    <2> QED BY <2>4 DEF Fails, s, i, it
  <1>11. read.error = "none" <=> \E nonce \in Nonces : found = encrypt(now, id, nonce, Image)
    BY <1>8, <1>9
  <1> QED BY <1>7, <1>9, <1>10, <1>11 DEF ImageIsSessions, found

\* Whatever the secrets, ids and answers are, and however stored bytes were
\* cut, joined, moved or changed, what is derived for one session or purpose
\* serves no other (services/solution_hash.rs, image_cipher.rs, auth.rs).
THEOREM SecretsAlwaysStayApart ==
  /\ Given_("answers") => AnswersGiven
  /\ Given_("keys") => KeysGiven
  /\ Given_("images") => ImagesGiven
  => SecretsStayApart
  <1>1. (Given_("answers") => AnswersGiven) => AnswerIsSessions
    BY AnswersStayApart DEF AnswerIsSessions
  <1>2. (Given_("keys") => KeysGiven) => KeysAreApart
    BY KeysStayApart DEF KeysAreApart
  <1>3. (Given_("images") => ImagesGiven) => ImageIsSessions
    BY ImagesStayApart DEF ImageIsSessions
  <1> QED BY <1>1, <1>2, <1>3 DEF SecretsStayApart

-----------------------------------------------------------------------------
(***************************************************************************)
(* Requests.                                                               *)
(***************************************************************************)
\* A nonempty set of naturals has a least element, and it is its minimum.
LEMMA LeastExists ==
  ASSUME NEW S \in SUBSET Nat, S # {}
  PROVE  Min(S) \in S /\ \A j \in S : Min(S) <= j
  <1> DEFINE Less == OpToRel(<, Nat)
  <1>1. PICK x \in S : \A y \in S : ~ (<<y, x>> \in Less)
    BY WFMin, NatLessThanWellFounded
  <1>2. \A j \in S : x <= j
    <2>1. ASSUME NEW j \in S, ~(x <= j) PROVE FALSE
      <3>1. j < x /\ j \in Nat /\ x \in Nat
        BY <2>1
      <3>2. <<j, x>> \in Less
        BY <3>1 DEF OpToRel
      <3> QED BY <1>1, <3>2
    <2> QED BY <2>1
  <1> QED BY <1>2 DEF Min

\* What a request is taken to ask for.
Asked(request) == [p \in DOMAIN Bounds |-> IF p \in DOMAIN request THEN request[p] ELSE Defaults[p]]

\* The parameters of a picture.
LEMMA BoundsAre == DOMAIN Bounds = {"difficulty", "length", "width", "height", "compression"}
  BY DEF Bounds

\* A request is accepted when its lifetime is, and every parameter is within
\* its bounds.
IsJudged(verdict, request, expires_in, too_long) ==
  /\ verdict.params = Asked(request)
  /\ verdict.expires_in = expires_in
  /\ verdict.error = "none" <=> ~ too_long /\ \A p \in DOMAIN Bounds : Asked(request)[p] \in Bounds[p]

\* What validate_session_params makes of a request.
LEMMA JudgedIs ==
  ASSUME NEW request, NEW expires_in, NEW too_long
  PROVE  IsJudged(Judged(request, expires_in, too_long), request, expires_in, too_long)
  <1> DEFINE value == Asked(request)
             wrong == {i \in DOMAIN Checked : value[Checked[i]] \notin Bounds[Checked[i]]}
             verdict == Judged(request, expires_in, too_long)
             first == IF wrong # {} THEN Checked[Min(wrong)] ELSE "none"
             error == IF too_long THEN "expires_in" ELSE first
  <1>1. verdict = [error |-> error, params |-> value, expires_in |-> expires_in]
    BY DEF Judged, Asked
  <1>2. /\ DOMAIN Checked = 1 .. 5
        /\ {Checked[i] : i \in 1 .. 5} = DOMAIN Bounds
        /\ \A i \in 1 .. 5 : Checked[i] # "none"
    <2>1. DOMAIN Checked = 1 .. 5 BY DEF Checked
    <2>2. /\ Checked[1] = "difficulty" /\ Checked[2] = "length" /\ Checked[3] = "width"
          /\ Checked[4] = "height" /\ Checked[5] = "compression"
      BY DEF Checked
    <2>3. \A i \in 1 .. 5 : i \in {1, 2, 3, 4, 5} OBVIOUS
    <2> HIDE DEF Checked
    <2> QED BY <2>1, <2>2, <2>3, BoundsAre
  <1>3. wrong # {} => first # "none"
    <2> SUFFICES ASSUME wrong # {} PROVE Checked[Min(wrong)] # "none"
      OBVIOUS
    <2>1. wrong \in SUBSET Nat /\ wrong \subseteq 1 .. 5 BY <1>2
    <2> HIDE DEF wrong
    <2>2. Min(wrong) \in wrong BY <2>1, LeastExists
    <2> QED BY <1>2, <2>1, <2>2
  <1>4. wrong = {} <=> \A p \in DOMAIN Bounds : value[p] \in Bounds[p]
    BY <1>2
  <1> HIDE DEF value, wrong
  <1>5. error = "none" <=> ~ too_long /\ wrong = {}
    BY <1>3
  <1> HIDE DEF error
  <1> QED BY <1>1, <1>4, <1>5 DEF IsJudged, value

\* No cast and no clamp on the way to the renderer changes what is in bounds.
DrawnAs(length, difficulty, width, height, quality) ==
  /\ Rendered(length % Narrow, difficulty % Narrow, width % Narrow, height % Narrow)
       = [length |-> length, difficulty |-> difficulty, width |-> width, height |-> height]
  /\ quality % 256 = quality

\* The parameters of a picture are within their bounds.
WithinBounds(length, difficulty, width, height, quality) ==
  /\ length \in 1 .. 20 /\ difficulty \in 1 .. 10 /\ width \in 50 .. 1000
  /\ height \in 30 .. 500 /\ quality \in 1 .. 100

\* What is within the bounds is within what the renderer can draw too, and in
\* the range of every cast on the way.
LEMMA DrawnAsAsked ==
  ASSUME NEW length, NEW difficulty, NEW width, NEW height, NEW quality,
         WithinBounds(length, difficulty, width, height, quality)
  PROVE  DrawnAs(length, difficulty, width, height, quality)
  <1>0. /\ length \in 1 .. 20 /\ difficulty \in 1 .. 10 /\ width \in 50 .. 1000
        /\ height \in 30 .. 500 /\ quality \in 1 .. 100
    BY DEF WithinBounds
  <1>1. /\ length % Narrow = length /\ difficulty % Narrow = difficulty
        /\ width % Narrow = width /\ height % Narrow = height
    BY <1>0 DEF Narrow
  <1>2. /\ Clamped(length, 1, 32) = length /\ Clamped(difficulty, 1, 10) = difficulty
        /\ Clamped(width, 30, 2000) = width /\ Clamped(height, 20, 2000) = height
    BY <1>0 DEF Clamped, AtLeast, AtMost
  <1> QED BY <1>0, <1>1, <1>2 DEF Rendered, DrawnAs

\* The picture is the one that was asked for, whatever was asked for.
LEMMA AskedFor == Given_("request") /\ "expires_in" \notin DOMAIN input.request => PictureIsTheOneAsked
  <1> SUFFICES ASSUME "expires_in" \notin DOMAIN input.request PROVE PictureIsTheOneAsked
    OBVIOUS
  <1> DEFINE settings == Settings(input.compression)
             request == WithCompression(input.request, input.compression)
             verdict == create_session(input.request, settings)
             picture == Picture(verdict.params)
             late == 0 > 0
  <1>1. verdict = Judged(request, 0, late)
    <2>1. "expires_in" \notin DOMAIN request /\ ~ (0 > 0)
      BY DEF WithCompression
    <2> HIDE DEF request
    <2>2. verdict = validate_session_params(request, 0, 0)
      BY DEF request, create_session, Settings
    <2> QED BY <2>1, <2>2 DEF validate_session_params
  <1> HIDE DEF verdict, request, late
  <1>2. verdict.error = "none" => \A p \in DOMAIN Bounds : verdict.params[p] \in Bounds[p]
    <2>1. IsJudged(verdict, request, 0, late)
      BY <1>1, JudgedIs
    <2> QED BY <2>1 DEF IsJudged, late
  <1>3. ASSUME verdict.error = "none"
        PROVE  /\ \A p \in {"difficulty", "length", "width", "height"} :
                    picture.drawn[p] = verdict.params[p]
               /\ picture.quality = verdict.params.compression
               /\ picture.quality \in 1 .. 100
               /\ validate_solution(picture.drawn.length)
    <2> DEFINE params == verdict.params
    <2>1. /\ params.difficulty \in 1 .. 10 /\ params.length \in 1 .. 20
          /\ params.width \in 50 .. 1000 /\ params.height \in 30 .. 500
          /\ params.compression \in 1 .. 100
      BY <1>2, <1>3 DEF Bounds
    <2> HIDE DEF params
    <2>2. picture = [drawn |-> [length |-> params.length, difficulty |-> params.difficulty,
                                width |-> params.width, height |-> params.height],
                     quality |-> params.compression]
      <3>1. picture = [drawn |-> Rendered(params.length % Narrow, params.difficulty % Narrow,
                                          params.width % Narrow, params.height % Narrow),
                       quality |-> params.compression % 256]
        BY DEF Picture, params
      <3>2. DrawnAs(params.length, params.difficulty, params.width, params.height, params.compression)
        <4> DEFINE d == params.difficulty  l == params.length  w == params.width
                   h == params.height  q == params.compression
        <4>1. WithinBounds(l, d, w, h, q)
          BY <2>1 DEF WithinBounds
        <4> HIDE DEF d, l, w, h, q
        <4>2. DrawnAs(l, d, w, h, q)
          BY <4>1, DrawnAsAsked
        <4> QED BY <4>2 DEF d, l, w, h, q
      <3> QED BY <3>1, <3>2 DEF DrawnAs
    <2> QED BY <2>1, <2>2 DEF validate_solution, SOLUTION_MAX_LEN, params
  <1> QED BY <1>3 DEF PictureIsTheOneAsked, verdict

\* A second within a date's reach is the same as a signed integer.
LEMMA SignedIs == \A n \in 0 .. 511 : AsSigned(n) = n
  BY DEF AsSigned, Wide

\* A lifetime within its limit ends before the last date there is.
Allowed(now, lifetime, most) ==
  now \in Nat /\ most \in Nat /\ lifetime \in Nat /\ lifetime <= most /\ now + most <= LastDate

Reached(now, lifetime) ==
  lifetime \in 0 .. 511 /\ now + lifetime \in 0 .. 511 /\ now + lifetime <= LastDate

LEMMA WithinReach ==
  ASSUME NEW now, NEW lifetime, NEW most, Allowed(now, lifetime, most)
  PROVE  Reached(now, lifetime)
  BY DEF Allowed, Reached, LastDate

\* A session is there as long as it was granted.
LEMMA LifetimeGranted ==
  Given_("lifetime") /\ {input.now, input.max_ttl, input.default_ttl, input.expires_in} \subseteq Nat
    => LifetimeIsGranted
  <1> SUFFICES ASSUME input.now \in Nat, input.max_ttl \in Nat, input.expires_in \in Nat
               PROVE  LifetimeIsGranted
    OBVIOUS
  <1> DEFINE request == [p \in {"expires_in"} |-> input.expires_in]
             verdict == validate_session_params(request, input.default_ttl, input.max_ttl)
             ends == Expiry(input.now, verdict.expires_in)
             late == input.expires_in > input.max_ttl
  <1>1. verdict = Judged(request, input.expires_in, late)
    BY DEF validate_session_params
  <1> HIDE DEF verdict, request, late
  <1>2. /\ verdict.expires_in = input.expires_in
        /\ verdict.error = "none" => input.expires_in <= input.max_ttl
    <2>1. IsJudged(verdict, request, input.expires_in, late)
      BY <1>1, JudgedIs
    <2> QED BY <2>1 DEF IsJudged, late
  <1>3. ASSUME verdict.error = "none", input.now + input.max_ttl <= LastDate
        PROVE  /\ \A later \in 0 .. Wide \div 2 - 1 - input.now :
                     is_expired(input.now + later, ends) <=> later > input.expires_in
               /\ expires_at_datetime(input.now, ends) = input.now + input.expires_in
               /\ SessionResult(input.now, ends).expires_at
                    = SessionResult(input.now, ends).created_at + 1000 * input.expires_in
    <2>1. /\ input.expires_in \in 0 .. 511 /\ input.now + input.expires_in \in 0 .. 511
          /\ input.now + input.expires_in <= LastDate
      <3> DEFINE now == input.now  most == input.max_ttl  lifetime == input.expires_in
      <3>1. Allowed(now, lifetime, most)
        BY <1>2, <1>3 DEF Allowed
      <3> HIDE DEF now, most, lifetime
      <3>2. Reached(now, lifetime)
        BY <3>1, WithinReach
      <3> QED BY <3>2 DEF Reached, now, lifetime
    <2>2. ends = input.now + input.expires_in
      BY <1>2, <2>1, SignedIs DEF Expiry
    <2> HIDE DEF ends
    <2>3. /\ SessionResult(input.now, ends).expires_at = ends * 1000
          /\ SessionResult(input.now, ends).created_at = input.now * 1000
      BY DEF SessionResult
    <2>4. \A later \in 0 .. Wide \div 2 - 1 - input.now :
            is_expired(input.now + later, ends) <=> later > input.expires_in
      BY <2>2 DEF is_expired
    <2>5. ends * 1000 = input.now * 1000 + 1000 * input.expires_in
      BY <2>2
    <2> QED BY <2>1, <2>2, <2>3, <2>4, <2>5 DEF expires_at_datetime
  <1> QED BY <1>3 DEF LifetimeIsGranted, verdict, request

\* A copy of the picture is kept no longer than its session.
LEMMA CopiesDoExpire ==
  Given_("lifetime") /\ {input.now, input.max_ttl, input.expires_in} \subseteq Nat => CopiesExpire
  <1> SUFFICES ASSUME input.now \in Nat, input.max_ttl \in Nat, input.expires_in \in Nat
               PROVE  CopiesExpire
    OBVIOUS
  <1> DEFINE ends == Expiry(input.now, input.expires_in)
  <1> SUFFICES ASSUME input.expires_in <= input.max_ttl, input.now + input.max_ttl <= LastDate,
                      NEW read \in input.now .. ends,
                      NEW kept \in read .. read + max_age(read, input.now, ends)
               PROVE  ~ is_expired(kept, ends)
    BY DEF CopiesExpire
  <1>1. input.expires_in \in 0 .. 511 /\ input.now + input.expires_in \in 0 .. 511
    <2> DEFINE now == input.now  most == input.max_ttl  lifetime == input.expires_in
    <2>1. Allowed(now, lifetime, most)
      BY DEF Allowed
    <2> HIDE DEF now, most, lifetime
    <2>2. Reached(now, lifetime)
      BY <2>1, WithinReach
    <2> QED BY <2>2 DEF Reached, now, lifetime
  <1>2. ends = input.now + input.expires_in
    <2>1. AsSigned(input.expires_in) = input.expires_in
      BY <1>1, SignedIs
    <2>2. AsSigned(input.now + input.expires_in) = input.now + input.expires_in
      BY <1>1, SignedIs
    <2> QED BY <2>1, <2>2 DEF Expiry
  <1> HIDE DEF ends
  <1> QED BY <1>1, <1>2 DEF is_expired, max_age, AtLeast

\* Nobody is shown what went wrong inside.
LEMMA InternalsInside == Given_("error") /\ input.kind \in DOMAIN HttpErrors => InternalsStayInside
  <1> SUFFICES ASSUME input.kind \in DOMAIN HttpErrors PROVE InternalsStayInside
    OBVIOUS
  <1> DEFINE http == HttpErrors[input.kind]
             node == NodeErrors[input.kind]
  <1>1. /\ http.status = 500 => ~ http.shown /\ ~ node.shown
        /\ node.shown <=> http.shown
        /\ node.status = "InvalidArg" => http.status \in {400, 409}
    BY DEF HttpErrors, NodeErrors, Answer
  <1> QED BY <1>1 DEF InternalsStayInside

\* Two requests that ask for the same are judged the same.
LEMMA JudgedAlike ==
  ASSUME NEW a, NEW b, Asked(a) = Asked(b), NEW ttl, NEW life, NEW late, NEW over, ~ late, ~ over
  PROVE  /\ Judged(a, ttl, late).error = Judged(b, life, over).error
         /\ Judged(a, ttl, late).params = Judged(b, life, over).params
  BY DEF Judged, Asked

\* The binding judges as the server does.
LEMMA NodeJudgesAlike ==
  Given_("request") /\ DOMAIN input.request \subseteq DOMAIN Bounds /\ input.compression \in Int
    => NodeJudgesLikeServer
  <1> SUFFICES ASSUME DOMAIN input.request \subseteq DOMAIN Bounds, input.compression \in Int
               PROVE  NodeJudgesLikeServer
    OBVIOUS
  <1> DEFINE config == [f \in {"captcha_compression"} |-> input.compression]
             told == node_create_session(input.request, node_settings(config))
             server == create_session(input.request, Settings(Clamped(input.compression, 1, 100)))
             untold == node_settings([f \in {} |-> 0])
             drawn == node_generate(WithCompression(input.request, 40))
             late == 0 > 0
  <1>1. /\ \A p \in DOMAIN input.request : p \in CreateSessionOptions /\ p # "expires_in"
        /\ "expires_in" \notin DOMAIN input.request
    BY BoundsAre DEF CreateSessionOptions, CreateSessionRequest
  <1> DEFINE passed == [p \in DOMAIN input.request \intersect CreateSessionOptions |-> input.request[p]]
             request == WithCompression(input.request, input.compression)
             widened == WithCompression(passed, input.compression)
             bare == WithCompression(input.request, 40)
             drawable == [p \in DOMAIN bare \intersect GenerateOptions |-> bare[p]]
  \* What a request asks for is decided by what it says of each parameter.
  <1>3. Asked(widened) = Asked(request)
    BY <1>1 DEF Asked, WithCompression
  <1>4. Asked(drawable) = Asked(bare)
    BY DEF Asked, GenerateOptions
  <1>5. /\ "expires_in" \notin DOMAIN request /\ "expires_in" \notin DOMAIN widened
        /\ "expires_in" \notin DOMAIN bare /\ "expires_in" \notin DOMAIN drawable
    BY <1>1, BoundsAre DEF WithCompression, GenerateOptions
  <1>6. \A n \in 1 .. 100 : Clamped(n, 1, 100) = n
    BY DEF Clamped, AtLeast, AtMost
  <1>2. /\ node_settings(config).captcha_compression = input.compression
        /\ node_settings(config).default_session_ttl_seconds = 300
        /\ node_settings(config).max_session_ttl_seconds = 3600
        /\ untold = NodeFallbacks
    BY DEF node_settings, NodeFallbacks
  <1> DEFINE on_time == 300 > 3600
             at_once == 0 > 0
             in_time == 0 > Wide - 1
  <1>7. told = Judged(widened, 300, on_time)
    <2> HIDE DEF passed, config
    <2>1. told = create_session(passed, node_settings(config))
      BY DEF node_create_session, passed
    <2> HIDE DEF told
    <2>2. told = validate_session_params(widened, 300, 3600)
      BY <1>2, <2>1 DEF create_session
    <2> HIDE DEF widened
    <2> QED BY <1>5, <2>2 DEF validate_session_params
  <1>8. ASSUME input.compression \in 1 .. 100
        PROVE  server = Judged(request, 0, at_once)
    <2>1. Clamped(input.compression, 1, 100) = input.compression
      BY <1>6, <1>8
    <2> HIDE DEF server
    <2>2. server = validate_session_params(request, 0, 0)
      BY <2>1 DEF create_session, Settings, server
    <2> HIDE DEF request
    <2> QED BY <1>5, <2>2 DEF validate_session_params
  <1>9. drawn = Judged(drawable, 0, in_time)
    <2> HIDE DEF bare
    <2>1. drawn = validate_session_params(drawable, 0, Wide - 1)
      BY DEF node_generate, bare
    <2> HIDE DEF drawable, drawn
    <2> QED BY <1>5, <2>1 DEF validate_session_params
  <1>10. create_session(input.request, untold) = Judged(bare, 300, on_time)
    <2>1. create_session(input.request, untold) = validate_session_params(bare, 300, 3600)
      BY <1>2 DEF create_session, NodeFallbacks
    <2> HIDE DEF bare
    <2> QED BY <1>5, <2>1 DEF validate_session_params
  <1>11. ~ on_time /\ ~ at_once /\ ~ in_time
    BY DEF Wide
  <1>12. \A f \in DOMAIN untold : untold[f] = Number(PARAMS[f].default)
    <2>1. /\ PARAMS["default_session_ttl_seconds"].default = "300"
          /\ PARAMS["max_session_ttl_seconds"].default = "3600"
          /\ PARAMS["max_validation_attempts"].default = "3"
          /\ PARAMS["captcha_compression"].default = "40"
      BY DEF PARAMS, Over, ServerParams, SecretParams, SessionParams, Param
    <2>2. Number("300") = 300 /\ Number("3600") = 3600 /\ Number("3") = 3 /\ Number("40") = 40
      BY DEF Number
    <2> QED BY <1>2, <2>1, <2>2 DEF NodeFallbacks
  <1> HIDE DEF told, server, untold, drawn, config, request, widened, bare, drawable, passed,
               on_time, at_once, in_time
  <1>13. input.compression \in 1 .. 100 => told.error = server.error /\ told.params = server.params
    BY <1>3, <1>7, <1>8, <1>11, JudgedAlike
  <1>14. /\ drawn.error = create_session(input.request, untold).error
         /\ drawn.params = create_session(input.request, untold).params
    BY <1>4, <1>9, <1>10, <1>11, JudgedAlike
  <1> QED BY <1>12, <1>13, <1>14 DEF NodeJudgesLikeServer, told, server, untold, drawn, config

\* What the characters of a description are.
LEMMA CharactersAre ==
  /\ DOMAIN Characters = {"letter", "accent", "zero_width", "bidi", "space", "newline", "tab",
                          "return", "feed", "bell"}
  /\ \A c \in DOMAIN Characters :
       /\ Characters[c].bytes = IF c = "accent" THEN 2
                                ELSE IF c \in {"zero_width", "bidi"} THEN 3 ELSE 1
       /\ ~ Characters[c].white <=> c \in {"letter", "accent", "zero_width", "bidi", "bell"}
       /\ Characters[c].control <=> c \in {"newline", "tab", "return", "feed", "bell"}
  BY DEF Characters, Character

\* A description takes a byte for each character, one more for each accent, and
\* two more for each that is zero wide or changes direction.
LEMMA BytesAre ==
  ASSUME NEW d \in Seq(DOMAIN Characters)
  PROVE  /\ Bytes(d) = Len(d) + Cardinality({i \in DOMAIN d : d[i] = "accent"})
                      + 2 * Cardinality({i \in DOMAIN d : d[i] \in {"zero_width", "bidi"}})
         /\ Bytes(d) \in Nat
  <1> DEFINE S == DOMAIN d
             weight(i) == Characters[d[i]].bytes
             any(s) == CHOOSE x \in s : TRUE
             Step(g) == [s \in SUBSET S |-> IF s = {} THEN 0 ELSE weight(any(s)) + g[s \ {any(s)}]]
             sum == CHOOSE g : g = Step(g)
             accents(s) == {i \in s : d[i] = "accent"}
             wide(s) == {i \in s : d[i] \in {"zero_width", "bidi"}}
             Total(s) == Cardinality(s) + Cardinality(accents(s)) + 2 * Cardinality(wide(s))
             closed == [s \in SUBSET S |-> Total(s)]
  <1>1. Bytes(d) = sum[S]
    BY DEF Bytes, MapThenSumSet, MapThenFoldSet
  <1>2. S = 1 .. Len(d) /\ IsFiniteSet(S) /\ Cardinality(S) = Len(d)
    <2>1. Len(d) \in Nat /\ S = 1 .. Len(d)
      OBVIOUS
    <2> DEFINE n == Len(d)
    <2> HIDE DEF n
    <2>2. IsFiniteSet(1 .. n) /\ Cardinality(1 .. n) = n
      <3>1. n \in Int /\ 1 \in Int /\ n >= 0
        BY <2>1 DEF n
      <3> QED BY <3>1, FS_Interval
    <2> QED BY <2>1, <2>2 DEF n
  <1>3. \A i \in S : weight(i) = IF d[i] = "accent" THEN 2
                                 ELSE IF d[i] \in {"zero_width", "bidi"} THEN 3 ELSE 1
    BY CharactersAre
  <1>4. \A s : s # {} => any(s) \in s
    OBVIOUS
  <1>5. \A s \in SUBSET S : accents(s) \in SUBSET s /\ wide(s) \in SUBSET s
    OBVIOUS
  <1>6. \A s, x : /\ accents(s \ {x}) = accents(s) \ {x}
                  /\ x \in accents(s) <=> x \in s /\ d[x] = "accent"
                  /\ wide(s \ {x}) = wide(s) \ {x}
                  /\ x \in wide(s) <=> x \in s /\ d[x] \in {"zero_width", "bidi"}
    OBVIOUS
  <1>7. accents({}) = {} /\ wide({}) = {}
    OBVIOUS
  <1>8. closed = [s \in SUBSET S |-> closed[s]] /\ \A s \in SUBSET S : closed[s] = Total(s)
    OBVIOUS
  <1> HIDE DEF S, weight, any, accents, wide, closed
  <1>9. ASSUME NEW s \in SUBSET S
        PROVE  /\ IsFiniteSet(s) /\ IsFiniteSet(accents(s)) /\ IsFiniteSet(wide(s))
               /\ Cardinality(s) \in Nat /\ Cardinality(accents(s)) \in Nat
               /\ Cardinality(wide(s)) \in Nat
    <2>1. IsFiniteSet(s)
      BY <1>2, FS_Subset
    <2>2. IsFiniteSet(accents(s)) /\ IsFiniteSet(wide(s))
      BY <1>5, <2>1, FS_Subset
    <2> QED BY <2>1, <2>2, FS_CardinalityType
  <1>10. ASSUME NEW s \in SUBSET S, NEW x \in s
         PROVE  closed[s] = weight(x) + closed[s \ {x}]
    <2> DEFINE rest == s \ {x}
    <2>1. Cardinality(rest) = Cardinality(s) - 1 /\ rest \in SUBSET S
      BY <1>9, FS_RemoveElement
    <2>2. Cardinality(accents(rest)) = IF d[x] = "accent" THEN Cardinality(accents(s)) - 1
                                       ELSE Cardinality(accents(s))
      <3> DEFINE a == accents(s)
      <3>1. accents(rest) = a \ {x} /\ (x \in a <=> d[x] = "accent")
        BY <1>6
      <3>2. IsFiniteSet(a) BY <1>9
      <3> HIDE DEF a, rest
      <3>3. Cardinality(a \ {x}) = IF x \in a THEN Cardinality(a) - 1 ELSE Cardinality(a)
        BY <3>2, FS_RemoveElement
      <3> QED BY <3>1, <3>3 DEF a
    <2>3. Cardinality(wide(rest)) = IF d[x] \in {"zero_width", "bidi"} THEN Cardinality(wide(s)) - 1
                                    ELSE Cardinality(wide(s))
      <3> DEFINE a == wide(s)
      <3>1. wide(rest) = a \ {x} /\ (x \in a <=> d[x] \in {"zero_width", "bidi"})
        BY <1>6
      <3>2. IsFiniteSet(a) BY <1>9
      <3> HIDE DEF a, rest
      <3>3. Cardinality(a \ {x}) = IF x \in a THEN Cardinality(a) - 1 ELSE Cardinality(a)
        BY <3>2, FS_RemoveElement
      <3> QED BY <3>1, <3>3 DEF a
    <2>4. closed[s] = Total(s) /\ closed[rest] = Total(rest)
      BY <1>8, <2>1
    <2>5. weight(x) = IF d[x] = "accent" THEN 2
                      ELSE IF d[x] \in {"zero_width", "bidi"} THEN 3 ELSE 1
      BY <1>3
    <2>6. /\ Cardinality(s) \in Nat /\ Cardinality(accents(s)) \in Nat
          /\ Cardinality(wide(s)) \in Nat
      BY <1>9
    <2> DEFINE n == Cardinality(s)
               a == Cardinality(accents(s))
               w == Cardinality(wide(s))
               m == Cardinality(rest)
               b == Cardinality(accents(rest))
               v == Cardinality(wide(rest))
    <2>7. closed[s] = n + a + 2 * w /\ closed[rest] = m + b + 2 * v
      BY <2>4
    <2> HIDE DEF n, a, w, m, b, v, Total
    <2>8. n \in Nat /\ a \in Nat /\ w \in Nat
      BY <2>6 DEF n, a, w
    <2>9. m = n - 1
      BY <2>1 DEF m, n
    <2>10. b = IF d[x] = "accent" THEN a - 1 ELSE a
      BY <2>2 DEF b, a
    <2>11. v = IF d[x] \in {"zero_width", "bidi"} THEN w - 1 ELSE w
      BY <2>3 DEF v, w
    <2> HIDE DEF rest
    <2>12. closed[s] = weight(x) + closed[rest]
      BY <2>5, <2>7, <2>8, <2>9, <2>10, <2>11
    <2> QED BY <2>12 DEF rest
  <1>11. closed[{}] = 0
    <2>1. closed[{}] = Cardinality({}) + Cardinality(accents({})) + 2 * Cardinality(wide({}))
      BY <1>8
    <2> DEFINE none == Cardinality({})
    <2>2. closed[{}] = none + none + 2 * none
      BY <1>7, <2>1
    <2>3. none = 0
      BY FS_EmptySet
    <2> HIDE DEF none
    <2> QED BY <2>2, <2>3
  <1>12. closed = Step(closed)
    <2>1. \A s \in SUBSET S : closed[s] = IF s = {} THEN 0 ELSE weight(any(s)) + closed[s \ {any(s)}]
      BY <1>4, <1>10, <1>11
    <2> QED BY <1>8, <2>1
  <1>13. sum = Step(sum)
    BY <1>12
  <1> HIDE DEF sum
  <1>14. sum[{}] = 0 /\ \A s \in SUBSET S : s # {} => sum[s] = weight(any(s)) + sum[s \ {any(s)}]
    BY <1>13
  <1>15. ASSUME NEW s \in SUBSET S, sum[s] # closed[s]
         PROVE  FALSE
    <2> DEFINE wrong == {t \in SUBSET S : sum[t] # closed[t]}
               sizes == {Cardinality(t) : t \in wrong}
    <2>1. sizes \in SUBSET Nat /\ sizes # {}
      BY <1>9, <1>15
    <2>2. PICK t \in wrong : \A u \in wrong : Cardinality(t) <= Cardinality(u)
      <3>1. Min(sizes) \in sizes /\ \A n \in sizes : Min(sizes) <= n
        <4> HIDE DEF sizes
        <4> QED BY <2>1, LeastExists
      <3> QED BY <3>1
    <2>3. t # {}
      BY <1>11, <1>14
    <2> DEFINE x == any(t)
               rest == t \ {x}
    <2>4. x \in t BY <1>4, <2>3
    <2>5. Cardinality(rest) = Cardinality(t) - 1 /\ rest \in SUBSET S
      <3>1. IsFiniteSet(t) BY <1>9
      <3> HIDE DEF x
      <3> QED BY <2>4, <3>1, FS_RemoveElement
    <2>6. sum[rest] = closed[rest]
      <3>1. Cardinality(t) \in Nat BY <1>9
      <3>2. ~ (Cardinality(t) <= Cardinality(rest)) BY <2>5, <3>1
      <3>3. rest \notin wrong BY <2>2, <3>2
      <3> QED BY <2>5, <3>3
    <2>7. closed[t] = weight(x) + closed[rest] /\ sum[t] = weight(x) + sum[rest]
      BY <1>10, <1>14, <2>3, <2>4
    <2> QED BY <2>2, <2>6, <2>7
  <1>16. sum[S] = closed[S]
    BY <1>15
  <1>17. Bytes(d) = Total(S) /\ Total(S) \in Nat
    <2>1. closed[S] = Total(S)
      BY <1>8
    <2>2. /\ Cardinality(S) \in Nat /\ Cardinality(accents(S)) \in Nat
          /\ Cardinality(wide(S)) \in Nat
      BY <1>9
    <2> QED BY <1>1, <1>16, <2>1, <2>2
  <1> QED BY <1>2, <1>17 DEF S, accents, wide

\* What validate_api_key_description lets pass, and nothing else.
LEMMA DescriptionIs ==
  ASSUME NEW d \in Seq(DOMAIN Characters)
  PROVE  LET blank == {i \in DOMAIN d : d[i] \in {"space", "newline", "tab", "return"}}
             kept == {i \in DOMAIN d : d[i] \in {"letter", "accent", "zero_width", "bidi"}}
         IN  validate_api_key_description({d}) <=>
               /\ kept # {} /\ DOMAIN d = kept \union blank
               /\ Bytes(d) <= MAX_DESCRIPTION_LENGTH
  <1> DEFINE blank == {i \in DOMAIN d : d[i] \in {"space", "newline", "tab", "return"}}
             kept == {i \in DOMAIN d : d[i] \in {"letter", "accent", "zero_width", "bidi"}}
             few == Bytes(d) <= MAX_DESCRIPTION_LENGTH
  <1>1. validate_api_key_description({d}) <=>
          /\ \E i \in DOMAIN d : ~ Characters[d[i]].white
          /\ few
          /\ \A i \in DOMAIN d : Characters[d[i]].control => d[i] \in {"newline", "tab", "return"}
    BY DEF validate_api_key_description
  <1>2. \A i \in DOMAIN d :
          /\ d[i] \in {"letter", "accent", "zero_width", "bidi", "space", "newline", "tab",
                       "return", "feed", "bell"}
          /\ ~ Characters[d[i]].white <=> d[i] \in {"letter", "accent", "zero_width", "bidi", "bell"}
          /\ Characters[d[i]].control <=> d[i] \in {"newline", "tab", "return", "feed", "bell"}
    BY CharactersAre
  <1> HIDE DEF few
  <1>3. (\A i \in DOMAIN d : Characters[d[i]].control => d[i] \in {"newline", "tab", "return"})
          <=> DOMAIN d = kept \union blank
    <2>1. \A i \in DOMAIN d :
            (Characters[d[i]].control => d[i] \in {"newline", "tab", "return"})
              <=> i \in kept \union blank
      BY <1>2
    <2> QED BY <2>1
  <1>4. DOMAIN d = kept \union blank =>
          ((\E i \in DOMAIN d : ~ Characters[d[i]].white) <=> kept # {})
    <2>1. \A i \in kept \union blank : ~ Characters[d[i]].white <=> i \in kept
      BY <1>2
    <2> QED BY <2>1
  <1> QED BY <1>1, <1>3, <1>4 DEF few

\* A request about a key: what may be missing is a set of at most one.
KeyAsked ==
  /\ input.description = {} \/ \E d \in Seq(DOMAIN Characters) : input.description = {d}
  /\ input.is_active \in {{}, {TRUE}, {FALSE}}
  /\ input.row \in {{}, {Existing}}

\* Keys are described legibly, and changed alike from both sides.
LEMMA KeysDescribed == Given_("key") /\ KeyAsked => KeysAreDescribed
  <1> SUFFICES ASSUME KeyAsked PROVE KeysAreDescribed
    OBVIOUS
  <1> DEFINE made == http_create_key(input.description, 7)
             http == http_update_key(input.row, input.is_active, input.description)
             node == node_update_key(input.row, input.is_active, input.description)
             done == update_api_key(input.row, input.is_active, input.description)
             valid == validate_api_key_description(input.description)
             blank(d) == {i \in DOMAIN d : d[i] \in {"space", "newline", "tab", "return"}}
             kept(d) == {i \in DOMAIN d : d[i] \in {"letter", "accent", "zero_width", "bidi"}}
             wide(d) == {i \in DOMAIN d : d[i] \in {"zero_width", "bidi"}}
             length(d) == Len(d) + Cardinality({i \in DOMAIN d : d[i] = "accent"})
                                 + 2 * Cardinality(wide(d))
  <1>1. made.status = 201 <=> valid
    BY DEF http_create_key, HttpErrors, Answer
  <1>2. node_create_key(input.description, 7).row = made.row
    BY DEF node_create_key, http_create_key
  <1>3. /\ http.row = IF valid THEN done.row ELSE input.row
        /\ node.row = http.row
        /\ http.status = 200 <=> valid /\ done.updated
        /\ node.status = "ok" /\ node.updated <=> valid /\ done.updated
    BY DEF http_update_key, node_update_key, HttpErrors, Answer
  <1> HIDE DEF made, http, node, valid
  <1>4. ASSUME NEW d \in input.description
        PROVE  made.status = 201 <=>
                 /\ kept(d) # {} /\ DOMAIN d = kept(d) \union blank(d)
                 /\ length(d) <= MAX_DESCRIPTION_LENGTH
    <2>1. d \in Seq(DOMAIN Characters) /\ input.description = {d}
      BY DEF KeyAsked
    <2>2. made.status = 201 <=> validate_api_key_description({d})
      BY <1>1, <2>1 DEF valid
    <2>3. Bytes(d) = length(d)
      BY <2>1, BytesAre
    <2>4. validate_api_key_description({d}) <=>
            /\ kept(d) # {} /\ DOMAIN d = kept(d) \union blank(d)
            /\ Bytes(d) <= MAX_DESCRIPTION_LENGTH
      BY <2>1, DescriptionIs
    <2> HIDE DEF kept, blank, length
    <2> QED BY <2>2, <2>3, <2>4
  \* What an update leaves behind.
  <1> DEFINE Updated(key) == [key EXCEPT !.is_active = UnwrapOr(input.is_active, @),
                                         !.description = IF input.description = {} THEN @
                                                         ELSE input.description]
             nothing == input.is_active = {} /\ input.description = {}
  <1>5. /\ nothing => ~ done.updated /\ done.row = input.row
        /\ ~ nothing => (done.updated <=> input.row # {}) /\ done.row = {Updated(key) : key \in input.row}
    BY DEF update_api_key
  <1>6. /\ Existing.is_active = TRUE /\ Existing.created_at = 7 /\ Existing.last_used_at = {9}
        /\ DOMAIN Existing = {"is_active", "description", "created_at", "last_used_at"}
    BY DEF Existing, ApiKey
  <1>7. /\ Updated(Existing).is_active = UnwrapOr(input.is_active, TRUE)
        /\ Updated(Existing).description = IF input.description = {} THEN Existing.description
                                           ELSE input.description
        /\ Updated(Existing).created_at = 7 /\ Updated(Existing).last_used_at = {9}
    BY <1>6
  <1>8. input.is_active # {} => UnwrapOr(input.is_active, TRUE) \in input.is_active
    BY DEF UnwrapOr
  <1>9. input.is_active = {} => UnwrapOr(input.is_active, TRUE) = TRUE
    BY DEF UnwrapOr
  <1> HIDE DEF done, Updated
  <1>10. http.status # 200 => http.row = input.row
    <2>1. input.row = {} => {Updated(key) : key \in input.row} = input.row
      OBVIOUS
    <2> QED BY <1>3, <1>5, <2>1
  <1>11. \/ http.row = {} /\ input.row = {}
         \/ http.row = {Existing} /\ input.row = {Existing} /\ (http.status # 200 \/ nothing)
         \/ http.row = {Updated(Existing)} /\ input.row = {Existing} /\ http.status = 200
    <2>1. CASE input.row = {}
      BY <1>3, <1>5, <2>1
    <2>2. CASE input.row = {Existing}
      <3>1. {Updated(key) : key \in input.row} = {Updated(Existing)}
        BY <2>2
      <3> QED BY <1>3, <1>5, <2>2, <3>1
    <2> QED BY <2>1, <2>2 DEF KeyAsked
  <1>12. \A key \in http.row :
           /\ key.is_active \in (IF http.status = 200 /\ input.is_active # {}
                                THEN input.is_active ELSE {TRUE})
           /\ key.description = IF http.status = 200 /\ input.description # {}
                                THEN input.description ELSE Existing.description
           /\ key.created_at = 7 /\ key.last_used_at = {9}
    <2> SUFFICES ASSUME NEW key \in http.row
                 PROVE  /\ key.is_active \in (IF http.status = 200 /\ input.is_active # {}
                                             THEN input.is_active ELSE {TRUE})
                        /\ key.description = IF http.status = 200 /\ input.description # {}
                                             THEN input.description ELSE Existing.description
                        /\ key.created_at = 7 /\ key.last_used_at = {9}
      OBVIOUS
    <2>1. CASE key = Existing /\ (http.status # 200 \/ nothing)
      BY <1>6, <2>1
    <2>2. CASE key = Updated(Existing) /\ http.status = 200
      <3>1. key.is_active \in IF input.is_active # {} THEN input.is_active ELSE {TRUE}
        <4>1. key.is_active = UnwrapOr(input.is_active, TRUE)
          BY <1>7, <2>2
        <4>2. CASE input.is_active # {} BY <1>8, <4>1, <4>2
        <4>3. CASE input.is_active = {} BY <1>9, <4>1, <4>3
        <4> QED BY <4>2, <4>3
      <3> QED BY <1>7, <2>2, <3>1
    <2> QED BY <1>11, <2>1, <2>2
  <1>13. \A key \in http.row :
           /\ node_key_info(key).created_at = 1000 * http_key_info(key, 20).created_at
           /\ node_key_info(key).last_used_at = {1000 * t : t \in http_key_info(key, 20).last_used_at}
    <2> SUFFICES ASSUME NEW key \in http.row
                 PROVE  /\ node_key_info(key).created_at = 1000 * http_key_info(key, 20).created_at
                        /\ node_key_info(key).last_used_at
                             = {1000 * t : t \in http_key_info(key, 20).last_used_at}
      OBVIOUS
    <2>1. key.created_at = 7 /\ key.last_used_at = {9}
      BY <1>12
    <2>2. /\ node_key_info(key).created_at = 7 * 1000
          /\ node_key_info(key).last_used_at = {t * 1000 : t \in {9}}
      BY <2>1 DEF node_key_info
    <2>3. /\ http_key_info(key, 20).created_at = 7
          /\ http_key_info(key, 20).last_used_at = {9}
      BY <2>1 DEF http_key_info, expires_at_datetime, LastDate
    <2> QED BY <2>2, <2>3
  <1>14. {key.created_at : key \in http.row} = {key.created_at : key \in input.row}
    BY <1>6, <1>7, <1>11
  <1>15. http.status = 200 <=> (node.status = "ok" /\ node.updated)
    BY <1>3
  <1>16. \A key \in http.row :
           /\ key.is_active \in (IF http.status = 200 /\ input.is_active # {}
                                THEN input.is_active ELSE {TRUE})
           /\ key.description = IF http.status = 200 /\ input.description # {}
                                THEN input.description ELSE Existing.description
           /\ node_key_info(key).created_at = 1000 * http_key_info(key, 20).created_at
           /\ node_key_info(key).last_used_at = {1000 * t : t \in http_key_info(key, 20).last_used_at}
    BY <1>12, <1>13
  <1>17. http.row = node.row
    BY <1>3
  <1> QED BY <1>2, <1>4, <1>10, <1>14, <1>15, <1>16, <1>17, Zenon DEF KeysAreDescribed, made, http, node

-----------------------------------------------------------------------------
(***************************************************************************)
(* Routes.                                                                 *)
(***************************************************************************)
\* The four common layers go around everything, the last one outermost.
CommonLayered(router) ==
  Layered(Layered(Layered(Layered(router, "CompressionLayer"), "TraceLayer"),
                  "request_id_middleware"), "MetricsMiddleware")

\* Layering is by a fold, from the innermost layer outwards.
LEMMA CommonLayers ==
  ASSUME NEW router
  PROVE  FoldLeft(Layered, router, common) = CommonLayered(router)
  <1> DEFINE S == DOMAIN common
             Step(g) == [s \in SUBSET S |-> IF s = {} THEN router
                                            ELSE Layered(g[s \ {Max(s)}], common[Max(s)])]
             folded == CHOOSE g : g = Step(g)
             On(s, i, r) == IF i \in s THEN Layered(r, common[i]) ELSE r
             all == [s \in SUBSET S |-> On(s, 4, On(s, 3, On(s, 2, On(s, 1, router))))]
  <1>1. FoldLeft(Layered, router, common) = folded[S]
    BY DEF FoldLeft, MapThenFoldSet
  <1>2. S = 1 .. 4 /\ common[1] = "CompressionLayer" /\ common[2] = "TraceLayer"
        /\ common[3] = "request_id_middleware" /\ common[4] = "MetricsMiddleware"
    BY DEF common
  <1>3. \A s \in SUBSET S : s # {} => Max(s) \in s /\ \A j \in s : j <= Max(s)
    <2>1. ASSUME NEW s \in SUBSET S, s # {} PROVE Max(s) \in s /\ \A j \in s : j <= Max(s)
      <3>1. \E i \in s : \A j \in s : i >= j
        BY <1>2, <2>1
      <3> QED BY <3>1 DEF Max
    <2> QED BY <2>1
  <1> HIDE DEF S
  <1>4. ASSUME NEW s \in SUBSET S, s # {}
        PROVE  all[s] = Layered(all[s \ {Max(s)}], common[Max(s)])
    <2> DEFINE m == Max(s)
    <2>1. m \in s /\ \A j \in s : j <= m
      BY <1>3, <1>4
    <2>2. s \subseteq 1 .. 4
      BY <1>2
    <2>3. m = 1 \/ m = 2 \/ m = 3 \/ m = 4
      <3> HIDE DEF m
      <3> QED BY <2>1, <2>2
    <2> DEFINE r == s \ {m}
    <2>4. all[s] = On(s, 4, On(s, 3, On(s, 2, On(s, 1, router))))
      OBVIOUS
    <2>5. all[r] = On(r, 4, On(r, 3, On(r, 2, On(r, 1, router))))
      OBVIOUS
    <2> HIDE DEF all, m
    <2>6. \A i \in 1 .. 4 : i # m => (i \in r <=> i \in s)
      OBVIOUS
    <2>7. \A i \in 1 .. 4 : i > m => i \notin s
      BY <2>1, <2>2
    <2>8. CASE m = 1
      <3>1. 1 \in s /\ 2 \notin s /\ 3 \notin s /\ 4 \notin s /\ 1 \notin r /\ 2 \notin r /\ 3 \notin r /\ 4 \notin r
        BY <2>1, <2>6, <2>7, <2>8
      <3> QED BY <2>4, <2>5, <2>8, <3>1 DEF m
    <2>9. CASE m = 2
      <3>1. 2 \in s /\ 3 \notin s /\ 4 \notin s /\ 2 \notin r /\ 3 \notin r /\ 4 \notin r /\ (1 \in r <=> 1 \in s)
        BY <2>1, <2>6, <2>7, <2>9
      <3> QED BY <2>4, <2>5, <2>9, <3>1 DEF m
    <2>10. CASE m = 3
      <3>1. 3 \in s /\ 4 \notin s /\ 3 \notin r /\ 4 \notin r /\ (1 \in r <=> 1 \in s) /\ (2 \in r <=> 2 \in s)
        BY <2>1, <2>6, <2>7, <2>10
      <3> QED BY <2>4, <2>5, <2>10, <3>1 DEF m
    <2>11. CASE m = 4
      <3>1. 4 \in s /\ 4 \notin r /\ (1 \in r <=> 1 \in s) /\ (2 \in r <=> 2 \in s) /\ (3 \in r <=> 3 \in s)
        BY <2>1, <2>6, <2>7, <2>11
      <3> QED BY <2>4, <2>5, <2>11, <3>1 DEF m
    <2> QED BY <2>3, <2>8, <2>9, <2>10, <2>11
  <1>5. all = Step(all)
    <2>1. all[{}] = router
      OBVIOUS
    <2>2. all = [s \in SUBSET S |-> all[s]]
      OBVIOUS
    <2>3. \A s \in SUBSET S : all[s] = IF s = {} THEN router ELSE Layered(all[s \ {Max(s)}], common[Max(s)])
      <3> HIDE DEF all
      <3> QED BY <1>4, <2>1
    <2> HIDE DEF all
    <2> QED BY <2>2, <2>3
  <1>6. folded = Step(folded)
    <2> HIDE DEF all
    <2> QED BY <1>5
  <1> HIDE DEF folded
  <1>7. /\ folded[{}] = router
        /\ \A s \in SUBSET S : s # {} => folded[s] = Layered(folded[s \ {Max(s)}], common[Max(s)])
    BY <1>6
  <1>8. ASSUME NEW k \in 1 .. 4
        PROVE  folded[1 .. k] = Layered(folded[1 .. k - 1], common[k])
    <2> DEFINE m == Max(1 .. k)
    <2>1. 1 .. k \in SUBSET S /\ 1 .. k # {} /\ k \in 1 .. k
      BY <1>2
    <2>2. m \in 1 .. k /\ \A j \in 1 .. k : j <= m
      BY <1>3, <2>1
    <2>3. folded[1 .. k] = Layered(folded[(1 .. k) \ {m}], common[m])
      BY <1>7, <2>1
    <2> HIDE DEF m
    <2>4. m = k
      BY <2>1, <2>2
    <2>5. (1 .. k) \ {k} = 1 .. k - 1
      OBVIOUS
    <2> QED BY <2>3, <2>4, <2>5
  <1>9. folded[1 .. 0] = router
    <2>1. 1 .. 0 = {} OBVIOUS
    <2> QED BY <1>7, <2>1
  <1>10. /\ folded[1 .. 1] = Layered(router, "CompressionLayer")
         /\ folded[1 .. 2] = Layered(folded[1 .. 1], "TraceLayer")
         /\ folded[1 .. 3] = Layered(folded[1 .. 2], "request_id_middleware")
         /\ folded[1 .. 4] = Layered(folded[1 .. 3], "MetricsMiddleware")
    <2>1. folded[1 .. 1] = Layered(folded[1 .. 1 - 1], common[1]) BY <1>8
    <2>2. folded[1 .. 2] = Layered(folded[1 .. 2 - 1], common[2]) BY <1>8
    <2>3. folded[1 .. 3] = Layered(folded[1 .. 3 - 1], common[3]) BY <1>8
    <2>4. folded[1 .. 4] = Layered(folded[1 .. 4 - 1], common[4]) BY <1>8
    <2> QED BY <1>2, <1>9, <2>1, <2>2, <2>3, <2>4
  <1> QED BY <1>1, <1>2, <1>10 DEF CommonLayered

\* An endpoint, and the same endpoint with something more around it.
IsEndpoint(e) ==
  e = [path |-> e.path, method |-> e.method, handler |-> e.handler, wraps |-> e.wraps]

\* An endpoint in other wrappers.
WithWraps(e, wraps) ==
  [path |-> e.path, method |-> e.method, handler |-> e.handler, wraps |-> wraps]

\* The wrappers of an endpoint with the common ones around them.
InCommon(wraps) ==
  <<"MetricsMiddleware">> \o (<<"request_id_middleware">> \o
    (<<"TraceLayer">> \o (<<"CompressionLayer">> \o wraps)))

\* An endpoint with one field changed.
LEMMA ExceptIs ==
  ASSUME NEW f, IsEndpoint(f), NEW w
  PROVE  /\ [f EXCEPT !.wraps = w] = WithWraps(f, w)
         /\ [f EXCEPT !.path = w] = [path |-> w, method |-> f.method, handler |-> f.handler, wraps |-> f.wraps]
  <1> DEFINE p == f.path  m == f.method  h == f.handler  o == f.wraps
  <1>1. f = [path |-> p, method |-> m, handler |-> h, wraps |-> o]
    BY DEF IsEndpoint
  <1> HIDE DEF p, m, h, o
  <1>2. /\ [[path |-> p, method |-> m, handler |-> h, wraps |-> o] EXCEPT !.wraps = w]
             = [path |-> p, method |-> m, handler |-> h, wraps |-> w]
        /\ [[path |-> p, method |-> m, handler |-> h, wraps |-> o] EXCEPT !.path = w]
             = [path |-> w, method |-> m, handler |-> h, wraps |-> o]
    OBVIOUS
  <1>3. /\ [f EXCEPT !.wraps = w] = [path |-> p, method |-> m, handler |-> h, wraps |-> w]
        /\ [f EXCEPT !.path = w] = [path |-> w, method |-> m, handler |-> h, wraps |-> o]
    BY <1>1, <1>2
  <1> QED BY <1>3 DEF WithWraps, p, m, h, o

\* A layer wraps every endpoint and changes nothing else.
LEMMA LayeredIs ==
  ASSUME NEW router, \A f \in router : IsEndpoint(f), NEW name
  PROVE  /\ \A f \in Layered(router, name) : IsEndpoint(f)
         /\ \A e \in Layered(router, name) : \E f \in router : e = WithWraps(f, <<name>> \o f.wraps)
  <1>1. ASSUME NEW e \in Layered(router, name)
        PROVE  IsEndpoint(e) /\ \E f \in router : e = WithWraps(f, <<name>> \o f.wraps)
    <2>1. PICK f \in router : e = [f EXCEPT !.wraps = <<name>> \o @]
      BY DEF Layered
    <2>2. e = WithWraps(f, <<name>> \o f.wraps)
      <3> DEFINE w == <<name>> \o f.wraps
      <3>1. e = [f EXCEPT !.wraps = w] BY <2>1
      <3> HIDE DEF w
      <3>2. e = WithWraps(f, w) BY <3>1, ExceptIs
      <3> QED BY <3>2 DEF w
    <2>3. IsEndpoint(e)
      BY <2>2 DEF IsEndpoint, WithWraps
    <2> QED BY <2>2, <2>3
  <1> QED BY <1>1

\* An endpoint is one of a router, under a prefix.
IsNested(e, prefix, router) ==
  \E f \in router : e = [path |-> <<prefix>> \o f.path, method |-> f.method,
                        handler |-> f.handler, wraps |-> f.wraps]

\* Nesting puts the prefix in front of every path.
LEMMA NestIs ==
  ASSUME NEW router, \A f \in router : IsEndpoint(f), NEW prefix, NEW e \in nest(prefix, router)
  PROVE  IsEndpoint(e) /\ IsNested(e, prefix, router)
  <1>1. PICK f \in router : e = [f EXCEPT !.path = <<prefix>> \o @]
    BY DEF nest
  <1>2. e = [path |-> <<prefix>> \o f.path, method |-> f.method, handler |-> f.handler, wraps |-> f.wraps]
    <2> DEFINE w == <<prefix>> \o f.path
    <2>1. e = [f EXCEPT !.path = w] BY <1>1
    <2> HIDE DEF w
    <2>2. e = [path |-> w, method |-> f.method, handler |-> f.handler, wraps |-> f.wraps]
      BY <2>1, ExceptIs
    <2> QED BY <2>2 DEF w
  <1> QED BY <1>2 DEF IsEndpoint, IsNested

\* A table is of endpoints that are not wrapped yet.
LEMMA TableIs ==
  ASSUME NEW rows
  PROVE  \A e \in Table(rows) : IsEndpoint(e) /\ \E r \in rows :
           e = [path |-> <<r[1]>>, method |-> r[2], handler |-> r[3], wraps |-> <<>>]
  BY DEF Table, IsEndpoint

\* All that the common layers change of an endpoint is what it is wrapped in.
LEMMA WrapsAre ==
  ASSUME NEW router, \A f \in router : IsEndpoint(f), NEW e \in CommonLayered(router)
  PROVE  \E f \in router : e = WithWraps(f, InCommon(f.wraps))
  <1> DEFINE a == Layered(router, "CompressionLayer")
             b == Layered(a, "TraceLayer")
             c == Layered(b, "request_id_middleware")
  <1>1. (\A f \in a : IsEndpoint(f)) /\ (\A f \in b : IsEndpoint(f)) /\ (\A f \in c : IsEndpoint(f))
    BY LayeredIs
  <1>2. PICK g \in c : e = WithWraps(g, <<"MetricsMiddleware">> \o g.wraps)
    BY <1>1, LayeredIs DEF CommonLayered
  <1>3. PICK h \in b : g = WithWraps(h, <<"request_id_middleware">> \o h.wraps)
    BY <1>1, LayeredIs
  <1>4. PICK i \in a : h = WithWraps(i, <<"TraceLayer">> \o i.wraps)
    BY <1>1, LayeredIs
  <1>5. PICK f \in router : i = WithWraps(f, <<"CompressionLayer">> \o f.wraps)
    BY LayeredIs
  <1> QED BY <1>2, <1>3, <1>4, <1>5 DEF WithWraps, InCommon

\* The handlers that are there for who has a key.
Handlers ==
  {"create_session", "validate_session", "delete_session", "create_api_key", "list_api_keys",
   "update_api_key", "delete_api_key", "trigger_cleanup", "get_config", "patch_config",
   "reload_config", "get_stored", "put_stored", "delete_stored", "restart_server"}

\* The four kinds of route there are.
OpenRoute(e) ==
  /\ e.wraps = <<>> /\ e.method = "GET" /\ e.handler \in {"health_check", "index", "script"}
  /\ \E p \in {"/health", "/admin", "/admin/", "/admin/app.js"} : e.path = <<p>>

MasterRoute(e) ==
  /\ e.wraps = <<"MasterKeyMiddleware">> /\ e.handler \in Handlers
  /\ \E p : e.path = <<"/api/v1/api-keys", p>> \/ e.path = <<"/api/v1/admin", p>>

KeyedRoute(e) ==
  /\ e.wraps = <<"GovernorLayer", "AuthMiddleware">> /\ e.handler \in Handlers
  /\ \E p : e.path = <<"/api/v1/sessions", p>>

SessionRoute(e) ==
  /\ e.wraps = <<"GovernorLayer">> /\ e.method = "GET"
  /\ e.handler \in {"get_session_details", "get_image_binary"}
  /\ \E p : e.path = <<"/api/v1/sessions", p>>

Routed(e) == OpenRoute(e) \/ MasterRoute(e) \/ KeyedRoute(e) \/ SessionRoute(e)

\* Health and console are open.
LEMMA OpenRoutes ==
  ASSUME NEW e \in health_route \union admin_ui_routes
  PROVE  IsEndpoint(e) /\ OpenRoute(e)
  BY TableIs DEF health_route, admin_ui_routes, OpenRoute

\* Two steps of a path.
LEMMA PairIs ==
  ASSUME NEW a, NEW b
  PROVE  <<a>> \o <<b>> = <<a, b>>
  <1> DEFINE x == <<a>>
             y == <<b>>
             S == {a, b}
  <1>1. x \in Seq(S) /\ y \in Seq(S) /\ Len(x) = 1 /\ Len(y) = 1 /\ x[1] = a /\ y[1] = b
    OBVIOUS
  <1>2. <<a, b>> \in Seq(S) /\ Len(<<a, b>>) = 2 /\ <<a, b>>[1] = a /\ <<a, b>>[2] = b
    OBVIOUS
  <1> DEFINE z == <<a, b>>
  <1> HIDE DEF x, y, z, S
  <1>3. x \o y \in Seq(S) /\ Len(x \o y) = 2 /\ (x \o y)[1] = a /\ (x \o y)[2] = b
    <2> DEFINE m == Len(x)
               n == Len(y)
               At(u, v, w, p, q) == /\ u \in Seq(S) /\ Len(u) = p + q
                                    /\ \A i \in 1 .. p : u[i] = v[i]
                                    /\ \A i \in 1 .. q : u[p + i] = w[i]
    <2>1. x \in Seq(S) /\ y \in Seq(S)
      BY <1>1
    <2>2. At(x \o y, x, y, m, n)
      BY <2>1, ConcatAt
    <2>3. m = 1 /\ n = 1
      BY <1>1
    <2> HIDE DEF m, n
    <2>4. x[1] = a /\ y[1] = b BY <1>1
    <2> QED BY <2>2, <2>3, <2>4
  <1>4. \A i \in 1 .. 2 : (x \o y)[i] = z[i]
    BY <1>2, <1>3 DEF z
  <1>5. x \o y = z
    BY <1>2, <1>3, <1>4, SeqEqual DEF z
  <1> QED BY <1>5 DEF x, y, z

\* A row of a table with something around it, nested.
LEMMA NestedRow ==
  ASSUME NEW prefix, NEW rows, NEW name, NEW f \in nest(prefix, Layered(Table(rows), name))
  PROVE  /\ IsEndpoint(f)
         /\ \E r \in rows : f.path = <<prefix, r[1]>> /\ f.method = r[2] /\ f.handler = r[3]
                           /\ f.wraps = <<name>>
  <1> DEFINE table == Table(rows)
             around == Layered(table, name)
  <1>1. /\ \A g \in table : IsEndpoint(g)
        /\ \A g \in table : \E r \in rows :
             g = [path |-> <<r[1]>>, method |-> r[2], handler |-> r[3], wraps |-> <<>>]
    BY TableIs
  <1>2. /\ \A g \in around : IsEndpoint(g)
        /\ \A g \in around : \E h \in table : g = WithWraps(h, <<name>> \o h.wraps)
    <2> HIDE DEF table
    <2> QED BY <1>1, LayeredIs
  <1>3. f \in nest(prefix, around)
    OBVIOUS
  <1> HIDE DEF around
  <1>4. IsEndpoint(f) /\ IsNested(f, prefix, around)
    BY <1>2, <1>3, NestIs
  <1>5. PICK g \in around : f = [path |-> <<prefix>> \o g.path, method |-> g.method,
                                handler |-> g.handler, wraps |-> g.wraps]
    BY <1>4 DEF IsNested
  <1>6. PICK h \in table : g = WithWraps(h, <<name>> \o h.wraps)
    BY <1>2
  <1>7. PICK r \in rows : h = [path |-> <<r[1]>>, method |-> r[2], handler |-> r[3], wraps |-> <<>>]
    BY <1>1
  <1> DEFINE p == r[1]
  <1>8. g.path = <<p>> /\ g.method = r[2] /\ g.handler = r[3] /\ g.wraps = <<name>> \o <<>>
    BY <1>6, <1>7 DEF WithWraps
  <1> HIDE DEF p
  <1>9. <<name>> \o <<>> = <<name>> /\ <<prefix>> \o <<p>> = <<prefix, p>>
    BY PairIs
  <1>10. f.path = <<prefix, p>> /\ f.method = r[2] /\ f.handler = r[3] /\ f.wraps = <<name>>
    BY <1>5, <1>8, <1>9
  <1> QED BY <1>4, <1>10 DEF p

\* What manages keys and the server asks for the master key.
LEMMA MasterRoutes ==
  ASSUME NEW e \in nest("/api/v1/api-keys", api_keys_routes) \union nest("/api/v1/admin", admin_routes)
  PROVE  IsEndpoint(e) /\ MasterRoute(e)
  <1>1. PICK keys : /\ api_keys_routes = Layered(Table(keys), "MasterKeyMiddleware")
                    /\ \A r \in keys : r[3] \in Handlers
    <2> DEFINE keys == {<<"/", "POST", "create_api_key">>, <<"/", "GET", "list_api_keys">>,
                        <<"/:key_hash", "PUT", "update_api_key">>,
                        <<"/:key_hash", "DELETE", "delete_api_key">>}
    <2>1. api_keys_routes = Layered(Table(keys), "MasterKeyMiddleware")
      BY DEF api_keys_routes
    <2>2. \A r \in keys : r[3] \in Handlers
      BY DEF Handlers
    <2> QED BY <2>1, <2>2
  <1>2. PICK admin : /\ admin_routes = Layered(Table(admin), "MasterKeyMiddleware")
                     /\ \A r \in admin : r[3] \in Handlers
    <2> DEFINE admin == {<<"/cleanup", "POST", "trigger_cleanup">>, <<"/config", "GET", "get_config">>,
                         <<"/config", "PATCH", "patch_config">>,
                         <<"/config/reload", "POST", "reload_config">>,
                         <<"/config/stored", "GET", "get_stored">>,
                         <<"/config/stored", "PUT", "put_stored">>,
                         <<"/config/stored/:field", "DELETE", "delete_stored">>,
                         <<"/restart", "POST", "restart_server">>}
    <2>1. admin_routes = Layered(Table(admin), "MasterKeyMiddleware")
      BY DEF admin_routes
    <2>2. \A r \in admin : r[3] \in Handlers
      BY DEF Handlers
    <2> QED BY <2>1, <2>2
  <1>3. CASE e \in nest("/api/v1/api-keys", api_keys_routes)
    <2>1. /\ IsEndpoint(e)
          /\ \E r \in keys : e.path = <<"/api/v1/api-keys", r[1]>> /\ e.method = r[2]
                            /\ e.handler = r[3] /\ e.wraps = <<"MasterKeyMiddleware">>
      BY <1>1, <1>3, NestedRow
    <2> QED BY <1>1, <2>1 DEF MasterRoute
  <1>4. CASE e \in nest("/api/v1/admin", admin_routes)
    <2>1. /\ IsEndpoint(e)
          /\ \E r \in admin : e.path = <<"/api/v1/admin", r[1]>> /\ e.method = r[2]
                             /\ e.handler = r[3] /\ e.wraps = <<"MasterKeyMiddleware">>
      BY <1>2, <1>4, NestedRow
    <2> QED BY <1>2, <2>1 DEF MasterRoute
  <1> QED BY <1>3, <1>4

\* What there is of sessions is limited, and asks for a key but where the
\* session itself is shown.
LEMMA SessionRoutes ==
  ASSUME NEW e \in limited_sessions
  PROVE  IsEndpoint(e) /\ (KeyedRoute(e) \/ SessionRoute(e))
  <1> DEFINE keyed == {<<"/", "POST", "create_session">>, <<"/:id/validate", "POST", "validate_session">>,
                       <<"/:id", "DELETE", "delete_session">>}
             shown == {<<"/:id", "GET", "get_session_details">>,
                       <<"/:id/image.jpeg", "GET", "get_image_binary">>}
             inner == Layered(Table(keyed), "AuthMiddleware")
             outer == Layered(sessions_routes, "GovernorLayer")
  <1>1. sessions_routes = inner \union Table(shown)
    BY DEF sessions_routes
  <1>2. e \in nest("/api/v1/sessions", outer)
    BY DEF limited_sessions
  <1>3. /\ \A r \in keyed : r[3] \in Handlers
        /\ \A r \in shown : r[2] = "GET" /\ r[3] \in {"get_session_details", "get_image_binary"}
    BY DEF Handlers
  <1> HIDE DEF keyed, shown
  <1>4. \A f \in Table(keyed) : IsEndpoint(f) /\ \E r \in keyed :
          f = [path |-> <<r[1]>>, method |-> r[2], handler |-> r[3], wraps |-> <<>>]
    BY TableIs
  <1>5. \A f \in Table(shown) : IsEndpoint(f) /\ \E r \in shown :
          f = [path |-> <<r[1]>>, method |-> r[2], handler |-> r[3], wraps |-> <<>>]
    BY TableIs
  <1>6. /\ \A f \in inner : IsEndpoint(f)
        /\ \A f \in inner : \E g \in Table(keyed) : f = WithWraps(g, <<"AuthMiddleware">> \o g.wraps)
    BY <1>4, LayeredIs
  <1> HIDE DEF inner
  <1>7. \A f \in sessions_routes : IsEndpoint(f)
    BY <1>1, <1>5, <1>6
  <1>8. /\ \A f \in outer : IsEndpoint(f)
        /\ \A f \in outer : \E g \in sessions_routes : f = WithWraps(g, <<"GovernorLayer">> \o g.wraps)
    BY <1>7, LayeredIs
  <1> HIDE DEF outer
  <1>9. IsEndpoint(e) /\ IsNested(e, "/api/v1/sessions", outer)
    BY <1>2, <1>8, NestIs
  <1>10. PICK f \in outer : e = [path |-> <<"/api/v1/sessions">> \o f.path, method |-> f.method,
                                handler |-> f.handler, wraps |-> f.wraps]
    BY <1>9 DEF IsNested
  <1>11. PICK g \in sessions_routes : f = WithWraps(g, <<"GovernorLayer">> \o g.wraps)
    BY <1>8
  <1>12. /\ e.path = <<"/api/v1/sessions">> \o g.path /\ e.method = g.method /\ e.handler = g.handler
         /\ e.wraps = <<"GovernorLayer">> \o g.wraps
    BY <1>10, <1>11 DEF WithWraps
  <1>13. CASE g \in inner
    <2>1. PICK h \in Table(keyed) : g = WithWraps(h, <<"AuthMiddleware">> \o h.wraps)
      BY <1>6, <1>13
    <2>2. PICK r \in keyed : h = [path |-> <<r[1]>>, method |-> r[2], handler |-> r[3], wraps |-> <<>>]
      BY <1>4
    <2> DEFINE p == r[1]
    <2>3. g.path = <<p>> /\ g.handler = r[3] /\ g.wraps = <<"AuthMiddleware">> \o <<>>
      BY <2>1, <2>2 DEF WithWraps
    <2> HIDE DEF p
    <2>4. /\ <<"AuthMiddleware">> \o <<>> = <<"AuthMiddleware">>
          /\ <<"GovernorLayer">> \o <<"AuthMiddleware">> = <<"GovernorLayer", "AuthMiddleware">>
          /\ <<"/api/v1/sessions">> \o <<p>> = <<"/api/v1/sessions", p>>
      BY PairIs
    <2>5. /\ e.wraps = <<"GovernorLayer", "AuthMiddleware">> /\ e.path = <<"/api/v1/sessions", p>>
          /\ e.handler \in Handlers
      BY <1>3, <1>12, <2>3, <2>4
    <2> QED BY <1>9, <2>5 DEF KeyedRoute
  <1>14. CASE g \in Table(shown)
    <2>1. PICK r \in shown : g = [path |-> <<r[1]>>, method |-> r[2], handler |-> r[3], wraps |-> <<>>]
      BY <1>5, <1>14
    <2> DEFINE p == r[1]
    <2>2. g.path = <<p>> /\ g.method = r[2] /\ g.handler = r[3] /\ g.wraps = <<>>
      BY <2>1
    <2> HIDE DEF p
    <2>3. /\ <<"GovernorLayer">> \o <<>> = <<"GovernorLayer">>
          /\ <<"/api/v1/sessions">> \o <<p>> = <<"/api/v1/sessions", p>>
      BY PairIs
    <2>4. /\ e.wraps = <<"GovernorLayer">> /\ e.path = <<"/api/v1/sessions", p>>
          /\ e.method = "GET" /\ e.handler \in {"get_session_details", "get_image_binary"}
      BY <1>3, <1>12, <2>2, <2>3
    <2> QED BY <1>9, <2>4 DEF SessionRoute
  <1> QED BY <1>1, <1>13, <1>14

\* Every endpoint of the server is one of the four, with the common layers
\* around it.
LEMMA AppRoutes ==
  ASSUME NEW ui, NEW e \in build_app(ui)
  PROVE  \E f \in base_router(ui) \union limited_sessions :
           IsEndpoint(f) /\ Routed(f) /\ e = WithWraps(f, InCommon(f.wraps))
  <1> DEFINE base == base_router(ui) \union limited_sessions
  <1>1. \A f \in base : IsEndpoint(f) /\ Routed(f)
    <2>1. ASSUME NEW f \in base PROVE IsEndpoint(f) /\ Routed(f)
      <3>1. CASE f \in limited_sessions
        BY <3>1, SessionRoutes DEF Routed
      <3>2. CASE f \in health_route \union admin_ui_routes
        BY <3>2, OpenRoutes DEF Routed
      <3>3. CASE f \in nest("/api/v1/api-keys", api_keys_routes) \union nest("/api/v1/admin", admin_routes)
        BY <3>3, MasterRoutes DEF Routed
      <3> QED BY <3>1, <3>2, <3>3 DEF base_router
    <2> QED BY <2>1
  <1>2. build_app(ui) = CommonLayered(base)
    BY CommonLayers DEF build_app
  <1> HIDE DEF base
  <1>3. \E f \in base : e = WithWraps(f, InCommon(f.wraps))
    BY <1>1, <1>2, WrapsAre
  <1> QED BY <1>1, <1>3 DEF base

\* A sequence with one more in front.
Ahead(u, a, v) == Len(u) = Len(v) + 1 /\ u[1] = a /\ \A i \in 1 .. Len(v) : u[i + 1] = v[i]

Fronted(a, v, S) == <<a>> \o v \in Seq(S) /\ Ahead(<<a>> \o v, a, v)

\* Putting one element in front of a sequence.
LEMMA InFront ==
  ASSUME NEW S, NEW a \in S, NEW v \in Seq(S)
  PROVE  Fronted(a, v, S)
  <1> DEFINE x == <<a>>
             At(u, s, t) == /\ u \in Seq(S) /\ Len(u) = Len(s) + Len(t)
                            /\ \A i \in 1 .. Len(s) : u[i] = s[i]
                            /\ \A i \in 1 .. Len(t) : u[Len(s) + i] = t[i]
  <1>1. x \in Seq(S) /\ Len(x) = 1 /\ x[1] = a
    OBVIOUS
  <1> HIDE DEF x
  <1>2. At(x \o v, x, v)
    BY <1>1, ConcatAt
  <1>3. Len(v) \in Nat
    OBVIOUS
  <1> DEFINE u == x \o v
             m == Len(v)
             n == Len(x)
  <1>4. /\ u \in Seq(S) /\ Len(u) = n + m /\ \A i \in 1 .. n : u[i] = x[i]
        /\ \A i \in 1 .. m : u[n + i] = v[i]
    BY <1>2
  <1>5. n = 1 /\ m \in Nat /\ x[1] = a
    BY <1>1, <1>3
  <1> HIDE DEF u, m, n
  <1>6. u \in Seq(S) /\ Len(u) = m + 1 /\ u[1] = a /\ \A i \in 1 .. m : u[i + 1] = v[i]
    BY <1>4, <1>5
  <1> QED BY <1>6 DEF Ahead, Fronted, u, m, x

\* All that is put around a handler.
Wrappers ==
  {"MetricsMiddleware", "request_id_middleware", "TraceLayer", "CompressionLayer",
   "GovernorLayer", "AuthMiddleware", "MasterKeyMiddleware"}

\* Where the wrappers of an endpoint are when the common ones are around them.
LEMMA InCommonAt ==
  ASSUME NEW w \in Seq(Wrappers)
  PROVE  LET u == InCommon(w) IN
         /\ DOMAIN u = 1 .. Len(w) + 4
         /\ u[1] = "MetricsMiddleware" /\ u[2] = "request_id_middleware"
         /\ u[3] = "TraceLayer" /\ u[4] = "CompressionLayer"
         /\ \A i \in 1 .. Len(w) : u[i + 4] = w[i]
  <1> DEFINE a == <<"CompressionLayer">> \o w
             b == <<"TraceLayer">> \o a
             c == <<"request_id_middleware">> \o b
             u == <<"MetricsMiddleware">> \o c
  <1>1. a \in Seq(Wrappers) /\ Ahead(a, "CompressionLayer", w)
    <2>1. "CompressionLayer" \in Wrappers BY DEF Wrappers
    <2>2. Fronted("CompressionLayer", w, Wrappers) BY <2>1, InFront
    <2> QED BY <2>2 DEF Fronted
  <1> HIDE DEF a
  <1>2. b \in Seq(Wrappers) /\ Ahead(b, "TraceLayer", a)
    <2>1. "TraceLayer" \in Wrappers BY DEF Wrappers
    <2>2. Fronted("TraceLayer", a, Wrappers) BY <1>1, <2>1, InFront
    <2> QED BY <2>2 DEF Fronted
  <1> HIDE DEF b
  <1>3. c \in Seq(Wrappers) /\ Ahead(c, "request_id_middleware", b)
    <2>1. "request_id_middleware" \in Wrappers BY DEF Wrappers
    <2>2. Fronted("request_id_middleware", b, Wrappers) BY <1>2, <2>1, InFront
    <2> QED BY <2>2 DEF Fronted
  <1> HIDE DEF c
  <1>4. u \in Seq(Wrappers) /\ Ahead(u, "MetricsMiddleware", c)
    <2>1. "MetricsMiddleware" \in Wrappers BY DEF Wrappers
    <2>2. Fronted("MetricsMiddleware", c, Wrappers) BY <1>3, <2>1, InFront
    <2> QED BY <2>2 DEF Fronted
  <1>5. u = InCommon(w)
    BY DEF InCommon, a, b, c
  <1> HIDE DEF u
  <1>6. Len(w) \in Nat /\ DOMAIN u = 1 .. Len(u)
    BY <1>4
  <1> DEFINE n == Len(w)
  <1>7. /\ Len(a) = n + 1 /\ a[1] = "CompressionLayer" /\ \A i \in 1 .. n : a[i + 1] = w[i]
        /\ Len(b) = n + 2 /\ b[1] = "TraceLayer" /\ \A i \in 1 .. n + 1 : b[i + 1] = a[i]
        /\ Len(c) = n + 3 /\ c[1] = "request_id_middleware" /\ \A i \in 1 .. n + 2 : c[i + 1] = b[i]
        /\ Len(u) = n + 4 /\ u[1] = "MetricsMiddleware" /\ \A i \in 1 .. n + 3 : u[i + 1] = c[i]
    BY <1>1, <1>2, <1>3, <1>4, <1>6 DEF Ahead
  <1>8. n \in Nat
    BY <1>6
  <1> HIDE DEF n
  <1>9. u[2] = "request_id_middleware" /\ u[3] = "TraceLayer" /\ u[4] = "CompressionLayer"
    <2>1. u[1 + 1] = c[1] /\ u[2 + 1] = c[2] /\ u[3 + 1] = c[3] /\ c[1 + 1] = b[1] /\ c[2 + 1] = b[2]
          /\ b[1 + 1] = a[1]
      BY <1>7, <1>8
    <2> QED BY <1>7, <2>1
  <1>10. \A i \in 1 .. n : u[i + 4] = w[i]
    <2> SUFFICES ASSUME NEW i \in 1 .. n PROVE u[i + 4] = w[i]
      OBVIOUS
    <2>1. a[i + 1] = w[i] /\ b[(i + 1) + 1] = a[i + 1] /\ c[(i + 2) + 1] = b[i + 2] /\ u[(i + 3) + 1] = c[i + 3]
      BY <1>7, <1>8
    <2> QED BY <1>8, <2>1
  <1> QED BY <1>5, <1>6, <1>7, <1>9, <1>10 DEF n

\* What a request gets of an endpoint with the common layers around it.
Outcome(by, handled, limited, request) ==
  [by |-> by, handled |-> handled, durations |-> 1, id |-> answer_id(request),
   charged |-> (limited /\ by # "too_many_requests")]

\* A wrapper lets a request through; there is a limiter among the first
\* wrappers; a wrapper is the first to stop the request; it then answers.
Lets(w, i, request, reverse_proxy, spent) == Wrapped(w[i], request, reverse_proxy, spent) = "pass"

Limits(w, k) == \E i \in 1 .. k : w[i] = "GovernorLayer"

StopsAt(w, k, request, reverse_proxy, spent) ==
  /\ k \in 1 .. Len(w) /\ ~ Lets(w, k, request, reverse_proxy, spent)
  /\ \A i \in 1 .. k - 1 : Lets(w, i, request, reverse_proxy, spent)

AnsweredAt(f, w, k, request, reverse_proxy, spent) ==
  Served(WithWraps(f, InCommon(w)), request, reverse_proxy, spent)
    = Outcome(Wrapped(w[k], request, reverse_proxy, spent), FALSE, Limits(w, k), request)

\* Whether there is a limiter is one of two cases.
LEMMA LimitedOrNot ==
  ASSUME NEW by, NEW handled, NEW limited, NEW request
  PROVE  /\ limited => Outcome(by, handled, limited, request) = Outcome(by, handled, TRUE, request)
         /\ ~ limited => Outcome(by, handled, limited, request) = Outcome(by, handled, FALSE, request)
  BY DEF Outcome

\* A request every wrapper lets through is handled.
LEMMA ServedThrough ==
  ASSUME NEW f, NEW w \in Seq(Wrappers), NEW request, NEW reverse_proxy, NEW spent,
         \A i \in 1 .. Len(w) : Lets(w, i, request, reverse_proxy, spent)
  PROVE  Served(WithWraps(f, InCommon(w)), request, reverse_proxy, spent)
           = Outcome(f.handler, TRUE, Limits(w, Len(w)), request)
  <1> DEFINE u == InCommon(w)
             e == WithWraps(f, u)
             Does(i) == Wrapped(u[i], request, reverse_proxy, spent)
             stops == {i \in DOMAIN u : Does(i) # "pass"}
             met == ToSet(u)
             n == Len(w)
  <1>1. /\ DOMAIN u = 1 .. n + 4
        /\ u[1] = "MetricsMiddleware" /\ u[2] = "request_id_middleware"
        /\ u[3] = "TraceLayer" /\ u[4] = "CompressionLayer"
        /\ \A i \in 1 .. n : u[i + 4] = w[i]
    BY InCommonAt
  <1>2. n \in Nat
    OBVIOUS
  <1>3. e.wraps = u /\ e.handler = f.handler
    BY DEF WithWraps
  <1> HIDE DEF u, n
  <1>4. stops = {}
    <2> SUFFICES ASSUME NEW i \in 1 .. n + 4 PROVE Does(i) = "pass"
      BY <1>1
    <2>1. CASE i \in 1 .. 4
      <3>1. i = 1 \/ i = 2 \/ i = 3 \/ i = 4 BY <2>1
      <3> QED BY <1>1, <3>1 DEF Wrapped
    <2>2. CASE i \notin 1 .. 4
      <3> DEFINE j == i - 4
      <3>1. j \in 1 .. n /\ j + 4 = i BY <1>2, <2>2
      <3> HIDE DEF j
      <3>2. u[i] = w[j] BY <1>1, <3>1
      <3>3. Lets(w, j, request, reverse_proxy, spent) BY <3>1 DEF n
      <3> QED BY <3>2, <3>3 DEF Lets
    <2> QED BY <2>1, <2>2
  <1>5. /\ "MetricsMiddleware" \in met /\ "request_id_middleware" \in met
        /\ "GovernorLayer" \in met <=> Limits(w, n)
    <2>1. met = {u[i] : i \in 1 .. n + 4}
      BY <1>1 DEF ToSet
    <2>2. 1 \in 1 .. n + 4 /\ 2 \in 1 .. n + 4
      BY <1>2
    <2> HIDE DEF met
    <2>3. ASSUME "GovernorLayer" \in met PROVE Limits(w, n)
      <3>1. PICK i \in 1 .. n + 4 : u[i] = "GovernorLayer" BY <2>1, <2>3
      <3>2. i # 1 /\ i # 2 /\ i # 3 /\ i # 4 BY <1>1, <3>1
      <3> DEFINE j == i - 4
      <3>3. j \in 1 .. n /\ j + 4 = i BY <1>2, <3>2
      <3> HIDE DEF j
      <3>4. w[j] = "GovernorLayer" BY <1>1, <3>1, <3>3
      <3> QED BY <3>3, <3>4 DEF Limits
    <2>4. ASSUME Limits(w, n) PROVE "GovernorLayer" \in met
      <3>1. PICK i \in 1 .. n : w[i] = "GovernorLayer" BY <2>4 DEF Limits
      <3>2. u[i + 4] = "GovernorLayer" /\ i + 4 \in 1 .. n + 4 BY <1>1, <1>2, <3>1
      <3> QED BY <2>1, <3>2
    <2>5. "MetricsMiddleware" \in met /\ "request_id_middleware" \in met
      BY <1>1, <2>1, <2>2
    <2> QED BY <2>3, <2>4, <2>5
  <1> HIDE DEF e
  <1>6. Served(e, request, reverse_proxy, spent)
          = [by |-> f.handler, handled |-> TRUE,
             durations |-> IF "MetricsMiddleware" \in met THEN 1 ELSE 0,
             id |-> IF "request_id_middleware" \in met THEN answer_id(request) ELSE "none",
             charged |-> ("GovernorLayer" \in met /\ f.handler # "too_many_requests")]
    BY <1>3, <1>4 DEF Served
  <1> HIDE DEF met
  <1> QED BY <1>5, <1>6 DEF Outcome, e, u, n

\* A request is answered by the first wrapper that stops it.
LEMMA ServedBy ==
  ASSUME NEW f, NEW w \in Seq(Wrappers), NEW request, NEW reverse_proxy, NEW spent,
         NEW k, StopsAt(w, k, request, reverse_proxy, spent)
  PROVE  AnsweredAt(f, w, k, request, reverse_proxy, spent)
  <1> DEFINE u == InCommon(w)
             e == WithWraps(f, u)
             Does(i) == Wrapped(u[i], request, reverse_proxy, spent)
             stops == {i \in DOMAIN u : Does(i) # "pass"}
             stop == CHOOSE i \in stops : \A j \in stops : i <= j
             met == ToSet(SubSeq(u, 1, stop))
             n == Len(w)
  <1>1. /\ DOMAIN u = 1 .. n + 4
        /\ u[1] = "MetricsMiddleware" /\ u[2] = "request_id_middleware"
        /\ u[3] = "TraceLayer" /\ u[4] = "CompressionLayer"
        /\ \A i \in 1 .. n : u[i + 4] = w[i]
    BY InCommonAt
  <1>2. /\ n \in Nat /\ k \in 1 .. n /\ ~ Lets(w, k, request, reverse_proxy, spent)
        /\ \A i \in 1 .. k - 1 : Lets(w, i, request, reverse_proxy, spent)
    BY DEF StopsAt
  <1>3. e.wraps = u /\ e.handler = f.handler
    BY DEF WithWraps
  <1> HIDE DEF u, n
  <1>4. \A i \in 1 .. k + 3 : Does(i) = "pass"
    <2> SUFFICES ASSUME NEW i \in 1 .. k + 3 PROVE Does(i) = "pass"
      OBVIOUS
    <2>1. CASE i \in 1 .. 4
      <3>1. i = 1 \/ i = 2 \/ i = 3 \/ i = 4 BY <2>1
      <3> QED BY <1>1, <3>1 DEF Wrapped
    <2>2. CASE i \notin 1 .. 4
      <3> DEFINE j == i - 4
      <3>1. j \in 1 .. n /\ j \in 1 .. k - 1 /\ j + 4 = i BY <1>2, <2>2
      <3> HIDE DEF j
      <3>2. u[i] = w[j] BY <1>1, <3>1
      <3>3. Lets(w, j, request, reverse_proxy, spent) BY <1>2, <3>1
      <3> QED BY <3>2, <3>3 DEF Lets
    <2> QED BY <2>1, <2>2
  <1>5. u[k + 4] = w[k] /\ k + 4 \in 1 .. n + 4
    BY <1>1, <1>2
  <1>6. Does(k + 4) # "pass"
    BY <1>2, <1>5 DEF Lets
  <1>7. k + 4 \in stops /\ \A j \in stops : k + 4 <= j
    <2>1. k + 4 \in stops
      BY <1>1, <1>5, <1>6
    <2>2. ASSUME NEW j \in stops PROVE k + 4 <= j
      <3>1. j \in 1 .. n + 4 /\ Does(j) # "pass" BY <1>1
      <3>2. j \notin 1 .. k + 3 BY <1>4, <3>1
      <3> QED BY <1>2, <3>1, <3>2
    <2> QED BY <2>1, <2>2
  <1>8. stops \subseteq 1 .. n + 4
    BY <1>1
  <1>9. stop = k + 4
    <2> HIDE DEF stops
    <2>1. stop \in stops /\ \A j \in stops : stop <= j
      BY <1>7
    <2> HIDE DEF stop
    <2> QED BY <1>2, <1>7, <1>8, <2>1
  <1>10. met = {u[i] : i \in 1 .. k + 4}
    <2>1. SubSeq(u, 1, k + 4) = [i \in 1 .. k + 4 |-> u[i]]
      BY <1>2
    <2> HIDE DEF stop
    <2> QED BY <1>9, <2>1 DEF ToSet
  <1>11. /\ "MetricsMiddleware" \in met /\ "request_id_middleware" \in met
         /\ "GovernorLayer" \in met <=> Limits(w, k)
    <2>2. 1 \in 1 .. k + 4 /\ 2 \in 1 .. k + 4
      BY <1>2
    <2> HIDE DEF met
    <2>3. ASSUME "GovernorLayer" \in met PROVE Limits(w, k)
      <3>1. PICK i \in 1 .. k + 4 : u[i] = "GovernorLayer" BY <1>10, <2>3
      <3>2. i # 1 /\ i # 2 /\ i # 3 /\ i # 4 BY <1>1, <3>1
      <3> DEFINE j == i - 4
      <3>3. j \in 1 .. n /\ j \in 1 .. k /\ j + 4 = i BY <1>2, <3>2
      <3> HIDE DEF j
      <3>4. w[j] = "GovernorLayer" BY <1>1, <3>1, <3>3
      <3> QED BY <3>3, <3>4 DEF Limits
    <2>4. ASSUME Limits(w, k) PROVE "GovernorLayer" \in met
      <3>1. PICK i \in 1 .. k : w[i] = "GovernorLayer" BY <2>4 DEF Limits
      <3>2. u[i + 4] = "GovernorLayer" /\ i + 4 \in 1 .. k + 4 BY <1>1, <1>2, <3>1
      <3> QED BY <1>10, <3>2
    <2>5. "MetricsMiddleware" \in met /\ "request_id_middleware" \in met
      BY <1>1, <1>10, <2>2
    <2> QED BY <2>3, <2>4, <2>5
  <1> DEFINE by == Does(stop)
  <1>12. by = Wrapped(w[k], request, reverse_proxy, spent)
    <2> HIDE DEF stop
    <2> QED BY <1>5, <1>9
  <1>13. stops # {}
    BY <1>7
  <1> HIDE DEF e
  <1>14. Served(e, request, reverse_proxy, spent)
          = [by |-> by, handled |-> FALSE,
             durations |-> IF "MetricsMiddleware" \in met THEN 1 ELSE 0,
             id |-> IF "request_id_middleware" \in met THEN answer_id(request) ELSE "none",
             charged |-> ("GovernorLayer" \in met /\ by # "too_many_requests")]
    BY <1>3, <1>13 DEF Served
  <1> HIDE DEF met, by
  <1> QED BY <1>11, <1>12, <1>14 DEF Outcome, AnsweredAt, e, u, n

\* What each kind of route does with a request.
ServedLike(f, request, reverse_proxy, spent, answer) ==
  LET g == Wrapped("GovernorLayer", request, reverse_proxy, spent)
      a == authenticate(request.header)
      m == authenticate_master(request.header)
      Through(limited) == Outcome(f.handler, TRUE, limited, request)
  IN  /\ OpenRoute(f) => answer = Through(FALSE)
      /\ MasterRoute(f) => answer = IF m = "pass" THEN Through(FALSE) ELSE Outcome(m, FALSE, FALSE, request)
      /\ SessionRoute(f) => answer = IF g = "pass" THEN Through(TRUE) ELSE Outcome(g, FALSE, TRUE, request)
      /\ KeyedRoute(f) => answer = IF g # "pass" THEN Outcome(g, FALSE, TRUE, request)
                                   ELSE IF a = "pass" THEN Through(TRUE)
                                   ELSE Outcome(a, FALSE, TRUE, request)

\* What the wrappers of a route do is what its kind does.
LEMMA RoutesAreServed ==
  ASSUME NEW f, Routed(f), NEW request, NEW reverse_proxy, NEW spent
  PROVE  ServedLike(f, request, reverse_proxy, spent,
                    Served(WithWraps(f, InCommon(f.wraps)), request, reverse_proxy, spent))
  <1> DEFINE w == f.wraps
             answer == Served(WithWraps(f, InCommon(w)), request, reverse_proxy, spent)
             g == Wrapped("GovernorLayer", request, reverse_proxy, spent)
             a == authenticate(request.header)
             m == authenticate_master(request.header)
             L(i) == Lets(w, i, request, reverse_proxy, spent)
             n == Len(w)
             W(k) == Wrapped(w[k], request, reverse_proxy, spent)
  <1>1. w \in Seq(Wrappers) /\ n \in Nat
    <2>1. w = <<>> \/ w = <<"MasterKeyMiddleware">> \/ w = <<"GovernorLayer">>
          \/ w = <<"GovernorLayer", "AuthMiddleware">>
      BY DEF Routed, OpenRoute, MasterRoute, KeyedRoute, SessionRoute
    <2> HIDE DEF w
    <2>2. /\ <<>> \in Seq(Wrappers) /\ <<"MasterKeyMiddleware">> \in Seq(Wrappers)
          /\ <<"GovernorLayer">> \in Seq(Wrappers) /\ <<"GovernorLayer", "AuthMiddleware">> \in Seq(Wrappers)
      BY DEF Wrappers
    <2>3. w \in Seq(Wrappers)
      BY <2>1, <2>2
    <2> QED BY <2>3
  <1>2. (\A i \in 1 .. n : L(i)) => answer = Outcome(f.handler, TRUE, Limits(w, n), request)
    <2> SUFFICES ASSUME \A i \in 1 .. Len(w) : Lets(w, i, request, reverse_proxy, spent)
                 PROVE  answer = Outcome(f.handler, TRUE, Limits(w, n), request)
      OBVIOUS
    <2> HIDE DEF w
    <2> QED BY <1>1, ServedThrough
  <1>3. ASSUME NEW k \in 1 .. n, ~ L(k), \A i \in 1 .. k - 1 : L(i)
        PROVE  answer = Outcome(W(k), FALSE, Limits(w, k), request)
    <2>1. StopsAt(w, k, request, reverse_proxy, spent)
      BY <1>3 DEF StopsAt
    <2> HIDE DEF w
    <2>2. AnsweredAt(f, w, k, request, reverse_proxy, spent)
      BY <1>1, <2>1, ServedBy
    <2> QED BY <2>2 DEF AnsweredAt
  <1>4. /\ \A k : L(k) <=> W(k) = "pass"
        /\ \A k : Limits(w, k) <=> (\E i \in 1 .. k : w[i] = "GovernorLayer")
    BY DEF Lets, Limits
  <1>5. Wrapped("AuthMiddleware", request, reverse_proxy, spent) = a
        /\ Wrapped("MasterKeyMiddleware", request, reverse_proxy, spent) = m
    BY DEF Wrapped
  <1> HIDE DEF answer, L, g, a, m
  <1>6. CASE OpenRoute(f)
    <2>1. w = <<>> /\ n = 0 BY <1>6 DEF OpenRoute
    <2>2. ~ Limits(w, n) BY <1>4, <2>1
    <2>3. answer = Outcome(f.handler, TRUE, FALSE, request)
      <3>1. \A i \in 1 .. n : L(i) BY <2>1
      <3> HIDE DEF n
      <3> QED BY <1>2, <2>2, <3>1, LimitedOrNot
    <2>4. ~ MasterRoute(f) /\ ~ SessionRoute(f) /\ ~ KeyedRoute(f)
      BY <2>1 DEF MasterRoute, SessionRoute, KeyedRoute
    <2> QED BY <2>3, <2>4 DEF ServedLike, answer
  <1>7. CASE MasterRoute(f)
    <2>1. w = <<"MasterKeyMiddleware">> /\ n = 1 /\ w[1] = "MasterKeyMiddleware" BY <1>7 DEF MasterRoute
    <2>2. ~ Limits(w, 1)
      <3> HIDE DEF w
      <3> QED BY <1>4, <2>1
    <2>3. W(1) = m
      <3> HIDE DEF w
      <3> QED BY <1>5, <2>1
    <2>4. answer = IF m = "pass" THEN Outcome(f.handler, TRUE, FALSE, request)
                   ELSE Outcome(m, FALSE, FALSE, request)
      <3>1. n = 1 BY <2>1
      <3>2. L(1) <=> m = "pass" BY <1>4, <2>3
      <3> HIDE DEF n, w, W
      <3>3. CASE L(1)
        <4>1. answer = Outcome(f.handler, TRUE, Limits(w, n), request) BY <1>2, <3>1, <3>3
        <4> QED BY <2>2, <3>1, <3>2, <3>3, <4>1, LimitedOrNot
      <3>4. CASE ~ L(1)
        <4>1. answer = Outcome(W(1), FALSE, Limits(w, 1), request) BY <1>3, <3>1, <3>4
        <4> QED BY <2>2, <2>3, <3>2, <3>4, <4>1, LimitedOrNot
      <3> QED BY <3>3, <3>4
    <2>5. ~ OpenRoute(f) /\ ~ SessionRoute(f) /\ ~ KeyedRoute(f)
      BY <2>1 DEF OpenRoute, SessionRoute, KeyedRoute
    <2> QED BY <2>4, <2>5 DEF ServedLike, answer, m
  <1>8. CASE SessionRoute(f)
    <2>1. w = <<"GovernorLayer">> /\ n = 1 /\ w[1] = "GovernorLayer" BY <1>8 DEF SessionRoute
    <2>2. Limits(w, 1)
      <3> HIDE DEF w
      <3> QED BY <1>4, <2>1
    <2>3. W(1) = g
      <3> HIDE DEF w
      <3> QED BY <2>1 DEF g
    <2>4. answer = IF g = "pass" THEN Outcome(f.handler, TRUE, TRUE, request)
                   ELSE Outcome(g, FALSE, TRUE, request)
      <3>1. n = 1 BY <2>1
      <3>2. L(1) <=> g = "pass" BY <1>4, <2>3
      <3> HIDE DEF n, w, W
      <3>3. CASE L(1)
        <4>1. answer = Outcome(f.handler, TRUE, Limits(w, n), request) BY <1>2, <3>1, <3>3
        <4> QED BY <2>2, <3>1, <3>2, <3>3, <4>1, LimitedOrNot
      <3>4. CASE ~ L(1)
        <4>1. answer = Outcome(W(1), FALSE, Limits(w, 1), request) BY <1>3, <3>1, <3>4
        <4> QED BY <2>2, <2>3, <3>2, <3>4, <4>1, LimitedOrNot
      <3> QED BY <3>3, <3>4
    <2>5. ~ OpenRoute(f) /\ ~ MasterRoute(f) /\ ~ KeyedRoute(f)
      BY <2>1 DEF OpenRoute, MasterRoute, KeyedRoute
    <2> QED BY <2>4, <2>5 DEF ServedLike, answer, g
  <1>9. CASE KeyedRoute(f)
    <2>1. /\ w = <<"GovernorLayer", "AuthMiddleware">> /\ n = 2
          /\ w[1] = "GovernorLayer" /\ w[2] = "AuthMiddleware"
      BY <1>9 DEF KeyedRoute
    <2>2. Limits(w, 1) /\ Limits(w, 2)
      <3> HIDE DEF w
      <3> QED BY <1>4, <2>1
    <2>3. W(1) = g /\ W(2) = a
      <3> HIDE DEF w
      <3> QED BY <1>5, <2>1 DEF g
    <2>4. answer = IF g # "pass" THEN Outcome(g, FALSE, TRUE, request)
                   ELSE IF a = "pass" THEN Outcome(f.handler, TRUE, TRUE, request)
                   ELSE Outcome(a, FALSE, TRUE, request)
      <3>1. n = 2 BY <2>1
      <3>2. (L(1) <=> g = "pass") /\ (L(2) <=> a = "pass") BY <1>4, <2>3
      <3> HIDE DEF n, w, W
      <3>3. CASE L(1) /\ L(2)
        <4>1. \A i \in 1 .. n : L(i) BY <3>1, <3>3
        <4>2. answer = Outcome(f.handler, TRUE, Limits(w, n), request) BY <1>2, <4>1
        <4> QED BY <2>2, <3>1, <3>2, <3>3, <4>2, LimitedOrNot
      <3>4. CASE ~ L(1)
        <4>1. answer = Outcome(W(1), FALSE, Limits(w, 1), request) BY <1>3, <3>1, <3>4
        <4> QED BY <2>2, <2>3, <3>2, <3>4, <4>1, LimitedOrNot
      <3>5. CASE L(1) /\ ~ L(2)
        <4>1. \A i \in 1 .. 2 - 1 : L(i) BY <3>5
        <4>2. answer = Outcome(W(2), FALSE, Limits(w, 2), request) BY <1>3, <3>1, <3>5, <4>1
        <4> QED BY <2>2, <2>3, <3>2, <3>5, <4>2, LimitedOrNot
      <3> QED BY <3>3, <3>4, <3>5
    <2>5. ~ OpenRoute(f) /\ ~ MasterRoute(f) /\ ~ SessionRoute(f)
      BY <2>1 DEF OpenRoute, MasterRoute, SessionRoute
    <2> QED BY <2>4, <2>5 DEF ServedLike, answer, g, a
  <1> QED BY <1>6, <1>7, <1>8, <1>9 DEF Routed

\* Every endpoint of the server, and what it does with a request.
LEMMA EndpointsServe ==
  ASSUME NEW ui, NEW e \in build_app(ui)
  PROVE  \E f : /\ Routed(f) /\ e.path = f.path /\ e.method = f.method /\ e.handler = f.handler
                /\ \A request, reverse_proxy, spent :
                     ServedLike(f, request, reverse_proxy, spent,
                                Served(e, request, reverse_proxy, spent))
  <1>1. PICK f \in base_router(ui) \union limited_sessions :
               IsEndpoint(f) /\ Routed(f) /\ e = WithWraps(f, InCommon(f.wraps))
    BY AppRoutes
  <1>2. e.path = f.path /\ e.method = f.method /\ e.handler = f.handler
    <2> DEFINE u == InCommon(f.wraps)
    <2>1. e = WithWraps(f, u) BY <1>1
    <2> HIDE DEF u
    <2> QED BY <2>1 DEF WithWraps
  <1>3. ASSUME NEW request, NEW reverse_proxy, NEW spent
        PROVE  ServedLike(f, request, reverse_proxy, spent, Served(e, request, reverse_proxy, spent))
    <2>1. ServedLike(f, request, reverse_proxy, spent,
                     Served(WithWraps(f, InCommon(f.wraps)), request, reverse_proxy, spent))
      BY <1>1, RoutesAreServed
    <2> QED BY <1>1, <2>1
  <1> QED BY <1>1, <1>2, <1>3

\* The routes of sessions are those under their prefix.
LEMMA RoutesBegin ==
  ASSUME NEW f, Routed(f)
  PROVE  /\ Head(f.path) = "/api/v1/sessions" <=> (SessionRoute(f) \/ KeyedRoute(f))
         /\ f.handler # "too_many_requests"
  <1>1. ASSUME NEW p PROVE Head(<<p>>) = p /\ \A q : Head(<<p, q>>) = p
    OBVIOUS
  <1> DEFINE h == Head(f.path)
  <1>2. CASE OpenRoute(f)
    <2>1. h \in {"/health", "/admin", "/admin/", "/admin/app.js"}
      BY <1>1, <1>2 DEF OpenRoute
    <2> HIDE DEF h
    <2>2. h # "/api/v1/sessions"
      BY <2>1
    <2>3. ~ SessionRoute(f) /\ ~ KeyedRoute(f)
      BY <1>2 DEF OpenRoute, SessionRoute, KeyedRoute
    <2>4. f.handler # "too_many_requests"
      BY <1>2 DEF OpenRoute
    <2> QED BY <2>2, <2>3, <2>4 DEF h
  <1>3. CASE MasterRoute(f)
    <2>1. h \in {"/api/v1/api-keys", "/api/v1/admin"}
      BY <1>1, <1>3 DEF MasterRoute
    <2> HIDE DEF h
    <2>2. h # "/api/v1/sessions"
      BY <2>1
    <2>3. ~ SessionRoute(f) /\ ~ KeyedRoute(f)
      BY <1>3 DEF MasterRoute, SessionRoute, KeyedRoute
    <2>4. f.handler # "too_many_requests"
      BY <1>3 DEF MasterRoute, Handlers
    <2> QED BY <2>2, <2>3, <2>4 DEF h
  <1>4. CASE SessionRoute(f) \/ KeyedRoute(f)
    <2>1. h = "/api/v1/sessions"
      BY <1>1, <1>4 DEF SessionRoute, KeyedRoute
    <2>2. f.handler # "too_many_requests"
      BY <1>4 DEF SessionRoute, KeyedRoute, Handlers
    <2> QED BY <1>4, <2>1, <2>2
  <1> QED BY <1>2, <1>3, <1>4 DEF Routed

\* A request at a router, with the credentials and ids there are, from
\* anywhere, before a limiter in any state: but one that has nothing left for
\* any of the addresses has nothing left for the one it is asked for.
RoutedAsked ==
  /\ input.admin_ui \in BOOLEAN /\ input.reverse_proxy \in BOOLEAN
  /\ input.request = [peer |-> input.request.peer, forwarded |-> input.request.forwarded,
                      id |-> input.request.id, header |-> input.request.header]
  /\ input.request.id \in {"absent", "opaque", "empty", "own"}
  /\ input.request.header \in
       {"absent", "opaque", "Basic", "master", "active", "inactive", "unknown"}
  /\ input.spent = Addresses => limiter_key(input.request, input.reverse_proxy) \in Addresses

\* An endpoint a request may be asked of is of one of the four kinds.
LEMMA AskedAtApp ==
  ASSUME RoutedAsked, NEW e \in AppAsked
  PROVE  \E f : /\ Routed(f) /\ e.path = f.path /\ e.method = f.method /\ e.handler = f.handler
                /\ \A request, reverse_proxy, spent :
                     ServedLike(f, request, reverse_proxy, spent,
                                Served(e, request, reverse_proxy, spent))
  <1> DEFINE ui == input.admin_ui
  <1>1. ui \in BOOLEAN BY DEF RoutedAsked
  <1> HIDE DEF ui
  <1>2. e \in build_app(ui) BY <1>1 DEF AppAsked, Apps, ui
  <1> QED BY <1>2, EndpointsServe

\* Every key opens what is its own.
LEMMA KeysOpen ==
  ASSUME RoutedAsked
  PROVE  KeysOpenWhatIsTheirs
  <1> SUFFICES ASSUME NEW e \in AppAsked, AnswerOf(e).handled
               PROVE  \/ input.request.header = "master"
                      \/ input.request.header = "active" /\ ForSessions(e)
                      \/ /\ e.method = "GET"
                         /\ e.handler \in {"health_check", "get_session_details",
                                           "get_image_binary", "index", "script"}
    BY DEF KeysOpenWhatIsTheirs
  <1>1. PICK f : /\ Routed(f) /\ e.path = f.path /\ e.method = f.method /\ e.handler = f.handler
                 /\ \A request, reverse_proxy, spent :
                      ServedLike(f, request, reverse_proxy, spent,
                                 Served(e, request, reverse_proxy, spent))
    BY AskedAtApp
  <1> DEFINE r == input.request
             answer == AnswerOf(e)
             g == Wrapped("GovernorLayer", r, input.reverse_proxy, input.spent)
             a == authenticate(r.header)
             m == authenticate_master(r.header)
  <1>2. ServedLike(f, r, input.reverse_proxy, input.spent, answer)
    BY <1>1 DEF AnswerOf
  <1>3. ASSUME NEW by, NEW limited PROVE Outcome(by, FALSE, limited, r).handled = FALSE
    BY DEF Outcome
  <1>4. ForSessions(e) <=> (SessionRoute(f) \/ KeyedRoute(f))
    BY <1>1, RoutesBegin DEF ForSessions
  <1>5. answer.handled OBVIOUS
  <1>6. r.header \in {"absent", "opaque", "Basic", "master", "active", "inactive", "unknown"}
    BY DEF RoutedAsked
  <1>7. (m = "pass" => r.header = "master") /\ (a = "pass" => r.header \in {"master", "active"})
    BY <1>6 DEF authenticate_master, authenticate
  <1> HIDE DEF r, answer, g, a, m
  <1>8. CASE OpenRoute(f)
    BY <1>1, <1>8 DEF OpenRoute
  <1>9. CASE MasterRoute(f)
    <2>1. answer = IF m = "pass" THEN Outcome(f.handler, TRUE, FALSE, r) ELSE Outcome(m, FALSE, FALSE, r)
      BY <1>2, <1>9 DEF ServedLike, m
    <2>2. m = "pass"
      BY <1>3, <1>5, <2>1
    <2> QED BY <1>7, <2>2 DEF r
  <1>10. CASE SessionRoute(f)
    BY <1>1, <1>10 DEF SessionRoute
  <1>11. CASE KeyedRoute(f)
    <2>1. answer = IF g # "pass" THEN Outcome(g, FALSE, TRUE, r)
                   ELSE IF a = "pass" THEN Outcome(f.handler, TRUE, TRUE, r)
                   ELSE Outcome(a, FALSE, TRUE, r)
      BY <1>2, <1>11 DEF ServedLike, a, g
    <2>2. a = "pass"
      BY <1>3, <1>5, <2>1
    <2> QED BY <1>4, <1>7, <1>11, <2>2 DEF r
  <1> QED BY <1>1, <1>8, <1>9, <1>10, <1>11 DEF Routed

\* One address answers for another where the limiter looks at the same.
LEMMA ServedAlike ==
  ASSUME NEW f, Routed(f), NEW r, NEW s, NEW reverse_proxy, NEW spent,
         r.header = s.header, r.id = s.id,
         limiter_key(r, reverse_proxy) = limiter_key(s, reverse_proxy),
         NEW x, NEW y, ServedLike(f, r, reverse_proxy, spent, x), ServedLike(f, s, reverse_proxy, spent, y)
  PROVE  x = y
  <1>1. Wrapped("GovernorLayer", r, reverse_proxy, spent) = Wrapped("GovernorLayer", s, reverse_proxy, spent)
    BY DEF Wrapped
  <1>2. \A by, handled, limited : Outcome(by, handled, limited, r) = Outcome(by, handled, limited, s)
    BY DEF Outcome, answer_id
  <1> DEFINE g == Wrapped("GovernorLayer", s, reverse_proxy, spent)
             a == authenticate(s.header)
             m == authenticate_master(s.header)
  <1>3. authenticate(r.header) = a /\ authenticate_master(r.header) = m
    OBVIOUS
  <1>4. Wrapped("GovernorLayer", r, reverse_proxy, spent) = g
    BY <1>1
  <1> HIDE DEF g, a, m
  <1>5. CASE OpenRoute(f)
    <2>1. x = Outcome(f.handler, TRUE, FALSE, r) /\ y = Outcome(f.handler, TRUE, FALSE, s)
      BY <1>5 DEF ServedLike
    <2> QED BY <1>2, <2>1
  <1>6. CASE MasterRoute(f)
    <2>1. /\ x = IF m = "pass" THEN Outcome(f.handler, TRUE, FALSE, r) ELSE Outcome(m, FALSE, FALSE, r)
          /\ y = IF m = "pass" THEN Outcome(f.handler, TRUE, FALSE, s) ELSE Outcome(m, FALSE, FALSE, s)
      BY <1>3, <1>6 DEF ServedLike, m
    <2> QED BY <1>2, <2>1
  <1>7. CASE SessionRoute(f)
    <2>1. /\ x = IF g = "pass" THEN Outcome(f.handler, TRUE, TRUE, r) ELSE Outcome(g, FALSE, TRUE, r)
          /\ y = IF g = "pass" THEN Outcome(f.handler, TRUE, TRUE, s) ELSE Outcome(g, FALSE, TRUE, s)
      BY <1>4, <1>7 DEF ServedLike, g
    <2> QED BY <1>2, <2>1
  <1>8. CASE KeyedRoute(f)
    <2>1. /\ x = IF g # "pass" THEN Outcome(g, FALSE, TRUE, r)
                 ELSE IF a = "pass" THEN Outcome(f.handler, TRUE, TRUE, r)
                 ELSE Outcome(a, FALSE, TRUE, r)
          /\ y = IF g # "pass" THEN Outcome(g, FALSE, TRUE, s)
                 ELSE IF a = "pass" THEN Outcome(f.handler, TRUE, TRUE, s)
                 ELSE Outcome(a, FALSE, TRUE, s)
      BY <1>3, <1>4, <1>8 DEF ServedLike, g, a
    <2> QED BY <1>2, <2>1
  <1> QED BY <1>5, <1>6, <1>7, <1>8 DEF Routed

\* Who is charged for a request, and who is refused.
LEMMA ChargedAndRefused ==
  ASSUME NEW f, Routed(f), NEW r, NEW reverse_proxy, NEW spent, NEW answer,
         ServedLike(f, r, reverse_proxy, spent, answer)
  PROVE  LET refused == answer.by = "too_many_requests"
             limited == SessionRoute(f) \/ KeyedRoute(f)
         IN  /\ IF limited THEN answer.charged <=> ~ refused ELSE ~ answer.charged /\ ~ refused
             /\ limiter_key(r, reverse_proxy) \in spent => (refused <=> limited)
             /\ answer.durations = 1 /\ answer.id = answer_id(r)
  <1> DEFINE g == Wrapped("GovernorLayer", r, reverse_proxy, spent)
             a == authenticate(r.header)
             m == authenticate_master(r.header)
             key == limiter_key(r, reverse_proxy)
  <1>1. /\ m # "too_many_requests" /\ a # "too_many_requests" /\ f.handler # "too_many_requests"
        /\ g = (IF key \in spent THEN "too_many_requests" ELSE "pass")
    BY RoutesBegin DEF authenticate, authenticate_master, Wrapped
  <1> DEFINE Tells(by, limited) ==
               /\ answer.by = by /\ (answer.charged <=> limited /\ by # "too_many_requests")
               /\ answer.durations = 1 /\ answer.id = answer_id(r)
  <1>2. ASSUME NEW by, NEW handled, NEW limited, answer = Outcome(by, handled, limited, r)
        PROVE  Tells(by, limited)
    BY <1>2 DEF Outcome
  <1> HIDE DEF g, a, m, key, Tells
  <1>3. CASE OpenRoute(f)
    <2>1. answer = Outcome(f.handler, TRUE, FALSE, r)
      BY <1>3 DEF ServedLike
    <2>2. ~ SessionRoute(f) /\ ~ KeyedRoute(f)
      BY <1>3 DEF OpenRoute, SessionRoute, KeyedRoute
    <2>3. Tells(f.handler, FALSE)
      BY <1>2, <2>1
    <2> QED BY <1>1, <2>2, <2>3 DEF key, Tells
  <1>4. CASE MasterRoute(f)
    <2>1. answer = IF m = "pass" THEN Outcome(f.handler, TRUE, FALSE, r) ELSE Outcome(m, FALSE, FALSE, r)
      BY <1>4 DEF ServedLike, m
    <2>2. ~ SessionRoute(f) /\ ~ KeyedRoute(f)
      BY <1>4 DEF MasterRoute, SessionRoute, KeyedRoute
    <2>3. Tells(f.handler, FALSE) \/ Tells(m, FALSE)
      BY <1>2, <2>1
    <2> QED BY <1>1, <2>2, <2>3 DEF key, Tells
  <1>5. CASE SessionRoute(f)
    <2>1. answer = IF g = "pass" THEN Outcome(f.handler, TRUE, TRUE, r) ELSE Outcome(g, FALSE, TRUE, r)
      BY <1>5 DEF ServedLike, g
    <2>2. IF g = "pass" THEN Tells(f.handler, TRUE) ELSE Tells(g, TRUE)
      BY <1>2, <2>1
    <2> QED BY <1>1, <1>5, <2>2 DEF key, Tells
  <1>6. CASE KeyedRoute(f)
    <2>1. answer = IF g # "pass" THEN Outcome(g, FALSE, TRUE, r)
                   ELSE IF a = "pass" THEN Outcome(f.handler, TRUE, TRUE, r)
                   ELSE Outcome(a, FALSE, TRUE, r)
      BY <1>6 DEF ServedLike, g, a
    <2>2. IF g # "pass" THEN Tells(g, TRUE) ELSE Tells(f.handler, TRUE) \/ Tells(a, TRUE)
      BY <1>2, <2>1
    <2> QED BY <1>1, <1>6, <2>2 DEF key, Tells
  <1> QED BY <1>3, <1>4, <1>5, <1>6 DEF Routed

\* What there is of sessions is limited, and nothing else.
LEMMA SessionsLimited ==
  ASSUME RoutedAsked
  PROVE  SessionsAreLimited
  <1> DEFINE who == input.request
             behind == input.reverse_proxy
             spent == input.spent
             Moved(peer, forwarded) == [who EXCEPT !.peer = peer, !.forwarded = forwarded]
             From(e, peer, forwarded) == Served(e, Moved(peer, forwarded), behind, spent)
  <1>1. ASSUME NEW peer, NEW forwarded
        PROVE  Moved(peer, forwarded) = [peer |-> peer, forwarded |-> forwarded, id |-> who.id,
                                         header |-> who.header]
    <2> DEFINE p == who.peer  q == who.forwarded  i == who.id  h == who.header
    <2>1. who = [peer |-> p, forwarded |-> q, id |-> i, header |-> h]
      BY DEF RoutedAsked
    <2> HIDE DEF p, q, i, h
    <2> DEFINE one == [who EXCEPT !.peer = peer]
               two == [one EXCEPT !.forwarded = forwarded]
    <2>2. one = [peer |-> peer, forwarded |-> q, id |-> i, header |-> h]
      BY <2>1
    <2> HIDE DEF one
    <2>3. two = [peer |-> peer, forwarded |-> forwarded, id |-> i, header |-> h]
      BY <2>2
    <2>4. Moved(peer, forwarded) = two
      BY DEF one
    <2> HIDE DEF two
    <2> QED BY <2>3, <2>4 DEF i, h
  <1>2. ASSUME NEW peer, NEW forwarded
        PROVE  LET s == Moved(peer, forwarded) IN
               s.peer = peer /\ s.forwarded = forwarded /\ s.id = who.id /\ s.header = who.header
    <2> DEFINE s == Moved(peer, forwarded)
    <2>1. s = [peer |-> peer, forwarded |-> forwarded, id |-> who.id, header |-> who.header]
      BY <1>1
    <2> HIDE DEF s
    <2> QED BY <2>1 DEF s
  <1> SUFFICES ASSUME NEW e \in AppAsked
               PROVE  LET answer == AnswerOf(e)
                          refused == answer.by = "too_many_requests"
                      IN  /\ IF ForSessions(e) THEN answer.charged <=> ~ refused
                             ELSE ~ answer.charged /\ ~ refused
                          /\ spent = Addresses => (refused <=> ForSessions(e))
                          /\ ~ behind => \A other \in Addresses : From(e, who.peer, other) = answer
                          /\ (behind /\ who.forwarded # "none") =>
                               \A other \in Addresses : From(e, other, who.forwarded) = answer
    BY DEF SessionsAreLimited
  <1>3. PICK f : /\ Routed(f) /\ e.path = f.path /\ e.method = f.method /\ e.handler = f.handler
                 /\ \A request, reverse_proxy, spent_ :
                      ServedLike(f, request, reverse_proxy, spent_,
                                 Served(e, request, reverse_proxy, spent_))
    BY AskedAtApp
  <1> DEFINE answer == AnswerOf(e)
             refused == answer.by = "too_many_requests"
  <1>4. ServedLike(f, who, behind, spent, answer)
    BY <1>3 DEF AnswerOf
  <1>5. ForSessions(e) <=> (SessionRoute(f) \/ KeyedRoute(f))
    BY <1>3, RoutesBegin DEF ForSessions
  <1>6. spent = Addresses => limiter_key(who, behind) \in spent
    BY DEF RoutedAsked
  <1>7. LET limited == SessionRoute(f) \/ KeyedRoute(f)
        IN  /\ IF limited THEN answer.charged <=> ~ refused ELSE ~ answer.charged /\ ~ refused
            /\ limiter_key(who, behind) \in spent => (refused <=> limited)
    <2> HIDE DEF answer, who, behind, spent
    <2> QED BY <1>3, <1>4, ChargedAndRefused
  <1>8. ASSUME NEW peer, NEW forwarded,
               limiter_key(Moved(peer, forwarded), behind) = limiter_key(who, behind)
        PROVE  From(e, peer, forwarded) = answer
    <2> DEFINE s == Moved(peer, forwarded)
               y == From(e, peer, forwarded)
    <2>1. s.header = who.header /\ s.id = who.id
      BY <1>2
    <2>2. ServedLike(f, s, behind, spent, y)
      BY <1>3
    <2>3. limiter_key(who, behind) = limiter_key(s, behind)
      BY <1>8
    <2> HIDE DEF s, y, answer, who, behind, spent
    <2> QED BY <1>3, <1>4, <2>1, <2>2, <2>3, ServedAlike DEF y, s
  <1>9. ASSUME ~ behind, NEW other PROVE From(e, who.peer, other) = answer
    <2> DEFINE s == Moved(who.peer, other)
    <2>1. s.peer = who.peer BY <1>2
    <2> HIDE DEF s
    <2>2. limiter_key(s, behind) = limiter_key(who, behind)
      BY <1>9, <2>1 DEF limiter_key
    <2> QED BY <1>8, <2>2 DEF s
  <1>10. ASSUME behind, who.forwarded # "none", NEW other PROVE From(e, other, who.forwarded) = answer
    <2> DEFINE s == Moved(other, who.forwarded)
    <2>1. s.forwarded = who.forwarded BY <1>2
    <2> HIDE DEF s
    <2>2. limiter_key(s, behind) = limiter_key(who, behind)
      BY <1>10, <2>1 DEF limiter_key
    <2> QED BY <1>8, <2>2 DEF s
  <1> HIDE DEF From, answer, who, behind, spent
  <1> QED BY <1>5, <1>6, <1>7, <1>9, <1>10 DEF answer

\* Every answer is measured once and carries an id.
LEMMA AnswersTraced ==
  ASSUME RoutedAsked
  PROVE  AnswersAreTraced
  <1> SUFFICES ASSUME NEW e \in AppAsked
               PROVE  /\ AnswerOf(e).durations = 1
                      /\ AnswerOf(e).id = IF input.request.id = "own" THEN "own" ELSE "new"
    BY DEF AnswersAreTraced
  <1>1. PICK f : /\ Routed(f) /\ e.path = f.path /\ e.method = f.method /\ e.handler = f.handler
                 /\ \A request, reverse_proxy, spent :
                      ServedLike(f, request, reverse_proxy, spent,
                                 Served(e, request, reverse_proxy, spent))
    BY AskedAtApp
  <1> DEFINE r == input.request
             behind == input.reverse_proxy
             spent_ == input.spent
             answer == AnswerOf(e)
  <1>2. ServedLike(f, r, behind, spent_, answer)
    BY <1>1 DEF AnswerOf
  <1>3. answer.durations = 1 /\ answer.id = answer_id(r)
    <2> HIDE DEF answer, r, behind, spent_
    <2> QED BY <1>1, <1>2, ChargedAndRefused
  <1>4. r.id \in {"absent", "opaque", "empty", "own"}
    BY DEF RoutedAsked
  <1>5. answer_id(r) = IF r.id = "own" THEN "own" ELSE "new"
    BY <1>4 DEF answer_id
  <1> HIDE DEF answer, r
  <1> QED BY <1>3, <1>5 DEF answer, r

\* No two endpoints of a router for the same request.
OneEach(router) ==
  \A e, f \in router : e.path = f.path /\ e.method = f.method => e = f

\* The paths of a router have one step; begin in one of several ways; it is
\* of endpoints.
OneStep(router) == \A e \in router : \E p : e.path = <<p>>

Beginning(router, heads) == \A e \in router : Head(e.path) \in heads

Endpoints(router) == \A e \in router : IsEndpoint(e)

\* A table has one handler for a request.
LEMMA TableOnce ==
  ASSUME NEW rows, \A r, s \in rows : r[1] = s[1] /\ r[2] = s[2] => r[3] = s[3]
  PROVE  OneEach(Table(rows)) /\ OneStep(Table(rows)) /\ Endpoints(Table(rows))
  <1>1. ASSUME NEW e \in Table(rows), NEW f \in Table(rows), e.path = f.path, e.method = f.method
        PROVE  e = f
    <2>1. PICK r \in rows : e = [path |-> <<r[1]>>, method |-> r[2], handler |-> r[3], wraps |-> <<>>]
      BY TableIs
    <2>2. PICK s \in rows : f = [path |-> <<s[1]>>, method |-> s[2], handler |-> s[3], wraps |-> <<>>]
      BY TableIs
    <2> DEFINE p == r[1]  q == s[1]
    <2>3. e.path = <<p>> /\ f.path = <<q>> /\ r[2] = s[2]
      BY <1>1, <2>1, <2>2
    <2>4. \A x, y : <<x>> = <<y>> => x = y
      <3> SUFFICES ASSUME NEW x, NEW y, <<x>> = <<y>> PROVE x = y
        OBVIOUS
      <3>1. <<x>>[1] = x /\ <<y>>[1] = y
        OBVIOUS
      <3> QED BY <3>1
    <2>5. r[1] = s[1]
      <3> HIDE DEF p, q
      <3>1. p = q BY <1>1, <2>3, <2>4
      <3> QED BY <3>1 DEF p, q
    <2>6. r[3] = s[3]
      BY <2>3, <2>5
    <2> QED BY <2>1, <2>2, <2>3, <2>5, <2>6
  <1>2. OneStep(Table(rows)) /\ Endpoints(Table(rows))
    BY TableIs DEF OneStep, Endpoints
  <1> QED BY <1>1, <1>2 DEF OneEach

\* Layers keep it so.
LEMMA LayeredOnce ==
  ASSUME NEW router, Endpoints(router), OneEach(router), NEW name
  PROVE  /\ OneEach(Layered(router, name)) /\ Endpoints(Layered(router, name))
         /\ OneStep(router) => OneStep(Layered(router, name))
         /\ \A heads : Beginning(router, heads) => Beginning(Layered(router, name), heads)
  <1> DEFINE around == Layered(router, name)
  <1>1. /\ \A f \in around : IsEndpoint(f)
        /\ \A e \in around : \E f \in router : e = WithWraps(f, <<name>> \o f.wraps)
    BY LayeredIs DEF Endpoints
  <1>2. ASSUME NEW e \in around
        PROVE  \E f \in router : /\ e = WithWraps(f, <<name>> \o f.wraps)
                                 /\ e.path = f.path /\ e.method = f.method
    <2>1. PICK f \in router : e = WithWraps(f, <<name>> \o f.wraps)
      BY <1>1
    <2> DEFINE w == <<name>> \o f.wraps
    <2>2. e = WithWraps(f, w) BY <2>1
    <2> HIDE DEF w
    <2>3. e.path = f.path /\ e.method = f.method
      BY <2>2 DEF WithWraps
    <2> QED BY <2>1, <2>3
  <1> HIDE DEF around
  <1>3. OneEach(around)
    BY <1>2 DEF OneEach
  <1>4. OneStep(router) => OneStep(around)
    BY <1>2 DEF OneStep
  <1>5. \A heads : Beginning(router, heads) => Beginning(around, heads)
    BY <1>2 DEF Beginning
  <1> QED BY <1>1, <1>3, <1>4, <1>5 DEF around, Endpoints

\* So does a prefix.
LEMMA NestedOnce ==
  ASSUME NEW router, Endpoints(router), OneEach(router), OneStep(router), NEW prefix
  PROVE  /\ OneEach(nest(prefix, router)) /\ Endpoints(nest(prefix, router))
         /\ Beginning(nest(prefix, router), {prefix})
  <1>1. ASSUME NEW e \in nest(prefix, router)
        PROVE  /\ IsEndpoint(e)
               /\ \E f, p :
                    /\ f \in router
                    /\ e = [path |-> <<prefix, p>>, method |-> f.method, handler |-> f.handler,
                            wraps |-> f.wraps]
                    /\ f.path = <<p>>
    <2>1. IsEndpoint(e) /\ IsNested(e, prefix, router)
      BY NestIs DEF Endpoints
    <2>2. PICK f \in router : e = [path |-> <<prefix>> \o f.path, method |-> f.method,
                                  handler |-> f.handler, wraps |-> f.wraps]
      BY <2>1 DEF IsNested
    <2>3. PICK p : f.path = <<p>>
      BY DEF OneStep
    <2>4. <<prefix>> \o <<p>> = <<prefix, p>>
      BY PairIs
    <2>5. e = [path |-> <<prefix, p>>, method |-> f.method, handler |-> f.handler, wraps |-> f.wraps]
      BY <2>2, <2>3, <2>4
    <2> QED BY <2>1, <2>3, <2>5
  <1>2. \A x, y, z : <<x, y>> = <<x, z>> => y = z
    <2> SUFFICES ASSUME NEW x, NEW y, NEW z, <<x, y>> = <<x, z>> PROVE y = z
      OBVIOUS
    <2>1. <<x, y>>[2] = y /\ <<x, z>>[2] = z
      OBVIOUS
    <2> QED BY <2>1
  <1>3. ASSUME NEW e \in nest(prefix, router), NEW f \in nest(prefix, router),
               e.path = f.path, e.method = f.method
        PROVE  e = f
    <2>1. PICK g, p :
            /\ g \in router
            /\ e = [path |-> <<prefix, p>>, method |-> g.method, handler |-> g.handler, wraps |-> g.wraps]
            /\ g.path = <<p>>
      BY <1>1
    <2>2. PICK h, q :
            /\ h \in router
            /\ f = [path |-> <<prefix, q>>, method |-> h.method, handler |-> h.handler, wraps |-> h.wraps]
            /\ h.path = <<q>>
      BY <1>1
    <2>3. p = q
      <3>1. <<prefix, p>> = <<prefix, q>> BY <1>3, <2>1, <2>2
      <3> QED BY <1>2, <3>1
    <2>4. g.path = h.path /\ g.method = h.method
      <3>1. e.method = g.method /\ f.method = h.method BY <2>1, <2>2
      <3> QED BY <1>3, <2>1, <2>2, <2>3, <3>1
    <2>5. g = h
      BY <2>1, <2>2, <2>4 DEF OneEach
    <2> QED BY <2>1, <2>2, <2>3, <2>5
  <1>4. Beginning(nest(prefix, router), {prefix})
    <2>1. ASSUME NEW e \in nest(prefix, router) PROVE Head(e.path) = prefix
      <3>1. PICK g, p :
              e = [path |-> <<prefix, p>>, method |-> g.method, handler |-> g.handler, wraps |-> g.wraps]
        BY <1>1
      <3> DEFINE path == <<prefix, p>>
      <3>2. Head(path) = prefix
        OBVIOUS
      <3>3. e.path = path
        BY <3>1
      <3> HIDE DEF path
      <3> QED BY <3>2, <3>3
    <2> QED BY <2>1 DEF Beginning
  <1> QED BY <1>1, <1>3, <1>4 DEF OneEach, Endpoints

\* Two routers with different beginnings can be put together.
LEMMA UnionOnce ==
  ASSUME NEW A, NEW B, NEW S, NEW T, OneEach(A), OneEach(B), Beginning(A, S), Beginning(B, T),
         S \intersect T = {}
  PROVE  OneEach(A \union B) /\ Beginning(A \union B, S \union T)
  <1>1. \A e \in A, f \in B : e.path # f.path
    BY DEF Beginning
  <1> QED BY <1>1 DEF OneEach, Beginning

\* The tables behind the master key.
LEMMA MasterTables ==
  /\ OneEach(api_keys_routes) /\ Endpoints(api_keys_routes) /\ OneStep(api_keys_routes)
  /\ OneEach(admin_routes) /\ Endpoints(admin_routes) /\ OneStep(admin_routes)
  <1>1. OneEach(api_keys_routes) /\ Endpoints(api_keys_routes) /\ OneStep(api_keys_routes)
    <2> DEFINE rows == {<<"/", "POST", "create_api_key">>, <<"/", "GET", "list_api_keys">>,
                        <<"/:key_hash", "PUT", "update_api_key">>,
                        <<"/:key_hash", "DELETE", "delete_api_key">>}
    <2>1. \A r, s \in rows : r[1] = s[1] /\ r[2] = s[2] => r[3] = s[3]
      OBVIOUS
    <2>2. api_keys_routes = Layered(Table(rows), "MasterKeyMiddleware")
      BY DEF api_keys_routes
    <2> HIDE DEF rows
    <2>3. OneEach(Table(rows)) /\ OneStep(Table(rows)) /\ Endpoints(Table(rows))
      BY <2>1, TableOnce
    <2> QED BY <2>2, <2>3, LayeredOnce
  <1>2. OneEach(admin_routes) /\ Endpoints(admin_routes) /\ OneStep(admin_routes)
    <2> DEFINE rows == {<<"/cleanup", "POST", "trigger_cleanup">>, <<"/config", "GET", "get_config">>,
                        <<"/config", "PATCH", "patch_config">>,
                        <<"/config/reload", "POST", "reload_config">>,
                        <<"/config/stored", "GET", "get_stored">>,
                        <<"/config/stored", "PUT", "put_stored">>,
                        <<"/config/stored/:field", "DELETE", "delete_stored">>,
                        <<"/restart", "POST", "restart_server">>}
    <2>1. \A r, s \in rows : r[1] = s[1] /\ r[2] = s[2] => r[3] = s[3]
      OBVIOUS
    <2>2. admin_routes = Layered(Table(rows), "MasterKeyMiddleware")
      BY DEF admin_routes
    <2> HIDE DEF rows
    <2>3. OneEach(Table(rows)) /\ OneStep(Table(rows)) /\ Endpoints(Table(rows))
      BY <2>1, TableOnce
    <2> QED BY <2>2, <2>3, LayeredOnce
  <1> QED BY <1>1, <1>2

\* The table of sessions.
LEMMA SessionTable ==
  /\ OneEach(limited_sessions) /\ Endpoints(limited_sessions)
  /\ Beginning(limited_sessions, {"/api/v1/sessions"})
  <1> DEFINE keyed == {<<"/", "POST", "create_session">>, <<"/:id/validate", "POST", "validate_session">>,
                       <<"/:id", "DELETE", "delete_session">>}
             shown == {<<"/:id", "GET", "get_session_details">>,
                       <<"/:id/image.jpeg", "GET", "get_image_binary">>}
             inner == Layered(Table(keyed), "AuthMiddleware")
  <1>1. sessions_routes = inner \union Table(shown)
    BY DEF sessions_routes
  <1>2. /\ \A r, s \in keyed : r[1] = s[1] /\ r[2] = s[2] => r[3] = s[3]
        /\ \A r, s \in shown : r[1] = s[1] /\ r[2] = s[2] => r[3] = s[3]
    OBVIOUS
  <1>3. (\A r \in keyed : r[2] # "GET") /\ (\A r \in shown : r[2] = "GET")
    OBVIOUS
  <1> HIDE DEF keyed, shown
  <1>4. /\ OneEach(Table(keyed)) /\ OneStep(Table(keyed)) /\ Endpoints(Table(keyed))
        /\ OneEach(Table(shown)) /\ OneStep(Table(shown)) /\ Endpoints(Table(shown))
    BY <1>2, TableOnce
  <1>5. OneEach(inner) /\ OneStep(inner) /\ Endpoints(inner)
    BY <1>4, LayeredOnce
  <1>6. \A e \in Table(shown) : e.method = "GET"
    BY <1>3, TableIs
  <1>7. \A e \in inner : e.method # "GET"
    <2>1. \A e \in Table(keyed) : e.method # "GET"
      BY <1>3, TableIs
    <2>2. \A e \in inner : \E f \in Table(keyed) : e = WithWraps(f, <<"AuthMiddleware">> \o f.wraps)
      BY <1>4, LayeredIs DEF Endpoints
    <2>3. \A f, w : WithWraps(f, w).method = f.method
      BY DEF WithWraps
    <2> HIDE DEF inner
    <2> QED BY <2>1, <2>2, <2>3
  <1> HIDE DEF inner
  <1>8. OneEach(sessions_routes)
    BY <1>1, <1>4, <1>5, <1>6, <1>7 DEF OneEach
  <1>9. OneStep(sessions_routes) /\ Endpoints(sessions_routes)
    BY <1>1, <1>4, <1>5 DEF OneStep, Endpoints
  <1> DEFINE outer == Layered(sessions_routes, "GovernorLayer")
  <1>10. OneEach(outer) /\ OneStep(outer) /\ Endpoints(outer)
    BY <1>8, <1>9, LayeredOnce
  <1>11. limited_sessions = nest("/api/v1/sessions", outer)
    BY DEF limited_sessions
  <1> HIDE DEF outer
  <1> QED BY <1>10, <1>11, NestedOnce

\* The server has one handler for a request.
LEMMA OneEachRequest ==
  ASSUME NEW ui \in BOOLEAN
  PROVE  OneEach(build_app(ui))
  <1> DEFINE keys == nest("/api/v1/api-keys", api_keys_routes)
             admin == nest("/api/v1/admin", admin_routes)
             console == IF ui THEN admin_ui_routes ELSE {}
             K == {"/api/v1/api-keys"}
             A == {"/api/v1/admin"}
             S == {"/api/v1/sessions"}
             H == {"/health"}
             C == {"/admin", "/admin/", "/admin/app.js"}
  <1>1. OneEach(keys) /\ Endpoints(keys) /\ Beginning(keys, K)
    BY MasterTables, NestedOnce
  <1>2. OneEach(admin) /\ Endpoints(admin) /\ Beginning(admin, A)
    BY MasterTables, NestedOnce
  <1>3. OneEach(limited_sessions) /\ Endpoints(limited_sessions) /\ Beginning(limited_sessions, S)
    BY SessionTable
  <1>4. ASSUME NEW rows, NEW heads, \A r \in rows : r[1] \in heads
        PROVE  Beginning(Table(rows), heads)
    <2>1. \A x : Head(<<x>>) = x
      OBVIOUS
    <2> SUFFICES ASSUME NEW e \in Table(rows) PROVE Head(e.path) \in heads
      BY DEF Beginning
    <2>2. PICK r \in rows : e = [path |-> <<r[1]>>, method |-> r[2], handler |-> r[3], wraps |-> <<>>]
      BY TableIs
    <2> DEFINE p == r[1]
    <2>3. e.path = <<p>> /\ p \in heads
      BY <1>4, <2>2
    <2> HIDE DEF p
    <2> QED BY <2>1, <2>3
  <1>5. OneEach(health_route) /\ Endpoints(health_route) /\ Beginning(health_route, H)
    <2> DEFINE rows == {<<"/health", "GET", "health_check">>}
    <2>1. /\ \A r, s \in rows : r[1] = s[1] /\ r[2] = s[2] => r[3] = s[3]
          /\ \A r \in rows : r[1] \in H
      OBVIOUS
    <2>2. health_route = Table(rows)
      BY DEF health_route
    <2> HIDE DEF rows, H
    <2> QED BY <1>4, <2>1, <2>2, TableOnce
  <1>6. OneEach(console) /\ Endpoints(console) /\ Beginning(console, C)
    <2> DEFINE rows == {<<"/admin", "GET", "index">>, <<"/admin/", "GET", "index">>,
                        <<"/admin/app.js", "GET", "script">>}
    <2>1. /\ \A r, s \in rows : r[1] = s[1] /\ r[2] = s[2] => r[3] = s[3]
          /\ \A r \in rows : r[1] \in C
      OBVIOUS
    <2>2. admin_ui_routes = Table(rows)
      BY DEF admin_ui_routes
    <2> HIDE DEF rows, C
    <2>3. OneEach(admin_ui_routes) /\ Endpoints(admin_ui_routes) /\ Beginning(admin_ui_routes, C)
      BY <1>4, <2>1, <2>2, TableOnce
    <2>4. OneEach({}) /\ Endpoints({}) /\ Beginning({}, C)
      BY DEF OneEach, Endpoints, Beginning
    <2>5. console = admin_ui_routes \/ console = {}
      OBVIOUS
    <2> HIDE DEF console
    <2> QED BY <2>3, <2>4, <2>5
  <1> DEFINE one == health_route \union keys
             two == one \union admin
             three == two \union console
             base == three \union limited_sessions
  <1>7. /\ H \intersect K = {} /\ (H \union K) \intersect A = {}
        /\ ((H \union K) \union A) \intersect C = {}
        /\ (((H \union K) \union A) \union C) \intersect S = {}
    OBVIOUS
  <1> HIDE DEF keys, admin, console, H, K, A, S, C
  <1>8. OneEach(one) /\ Beginning(one, H \union K)
    BY <1>1, <1>5, <1>7, UnionOnce
  <1> HIDE DEF one
  <1>9. OneEach(two) /\ Beginning(two, (H \union K) \union A)
    BY <1>2, <1>7, <1>8, UnionOnce
  <1> HIDE DEF two
  <1>10. OneEach(three) /\ Beginning(three, ((H \union K) \union A) \union C)
    BY <1>6, <1>7, <1>9, UnionOnce
  <1> HIDE DEF three
  <1>11. OneEach(base)
    BY <1>3, <1>7, <1>10, UnionOnce
  <1>12. Endpoints(base)
    BY <1>1, <1>2, <1>3, <1>5, <1>6 DEF Endpoints, base, three, two, one
  <1> DEFINE a == Layered(base, "CompressionLayer")
             b == Layered(a, "TraceLayer")
             c == Layered(b, "request_id_middleware")
  <1>13. build_app(ui) = Layered(c, "MetricsMiddleware")
    <2>1. base_router(ui) \union limited_sessions = base
      BY DEF base_router, base, three, two, one, keys, admin, console
    <2> HIDE DEF base
    <2> QED BY <2>1, CommonLayers DEF build_app, CommonLayered
  <1> HIDE DEF base
  <1>14. OneEach(a) /\ Endpoints(a)
    BY <1>11, <1>12, LayeredOnce
  <1> HIDE DEF a
  <1>15. OneEach(b) /\ Endpoints(b)
    BY <1>14, LayeredOnce
  <1> HIDE DEF b
  <1>16. OneEach(c) /\ Endpoints(c)
    BY <1>15, LayeredOnce
  <1> HIDE DEF c
  <1> QED BY <1>13, <1>16, LayeredOnce

\* The router is built and adopted as one.
LEMMA RouterSound ==
  ASSUME RoutedAsked
  PROVE  RouterIsSound
  <1>1. ASSUME NEW e \in AppAsked
        PROVE  {f \in AppAsked : f.path = e.path /\ f.method = e.method} = {e}
    <2> DEFINE ui == input.admin_ui
    <2>1. ui \in BOOLEAN BY DEF RoutedAsked
    <2> HIDE DEF ui
    <2>2. AppAsked = build_app(ui) BY <2>1 DEF AppAsked, Apps, ui
    <2>3. OneEach(AppAsked) BY <2>1, <2>2, OneEachRequest
    <2> QED BY <2>3 DEF OneEach
  <1>2. LiveFields = SessionConfig \union {"cleanup_interval_seconds", "log_level"}
    BY AdoptedAreLive, LiveAreAdopted DEF AdoptedFields, SessionConfig
  <1>3. CapturedAtBuild \subseteq BootFields
    <2>1. CapturedAtBuild \subseteq Fields
      BY TableAt DEF CapturedAtBuild
    <2>2. CapturedAtBuild \intersect AdoptedFields = {}
      BY DEF CapturedAtBuild, AdoptedFields
    <2> QED BY <2>1, <2>2, LiveAreAdopted
  <1> QED BY <1>1, <1>2, <1>3 DEF RouterIsSound

\* Who may be served is served, and nobody else.
LEMMA RequestsAdmitted ==
  ASSUME Given_("routed") => RoutedAsked
  PROVE  RequestsAreAdmitted
  <1>1. CASE ~ Given_("routed")
    BY <1>1 DEF RequestsAreAdmitted, KeysOpenWhatIsTheirs, SessionsAreLimited, AnswersAreTraced,
                RouterIsSound
  <1>2. CASE Given_("routed")
    <2>1. RoutedAsked
      BY <1>2
    <2> QED BY <2>1, KeysOpen, SessionsLimited, AnswersTraced, RouterSound DEF RequestsAreAdmitted
  <1> QED BY <1>1, <1>2

-----------------------------------------------------------------------------
(***************************************************************************)
(* Instances of the bindings.                                              *)
(***************************************************************************)
\* ... and one of naturals up to a bound has a largest.
LEMMA GreatestExists ==
  ASSUME NEW n \in Nat, NEW S \in SUBSET (1 .. n), S # {}
  PROVE  Max(S) \in S /\ \A j \in S : j <= Max(S)
  <1> DEFINE below == {n - i : i \in S}
             least == Min(below)
  <1>1. below \in SUBSET Nat /\ below # {}
    <2>1. \A i \in S : n - i \in Nat
      OBVIOUS
    <2>2. PICK i : i \in S
      OBVIOUS
    <2>3. n - i \in below
      BY <2>2
    <2> QED BY <2>1, <2>3
  <1>2. least \in below /\ \A j \in below : least <= j
    <2> HIDE DEF below
    <2> QED BY <1>1, LeastExists
  <1> HIDE DEF least
  <1>3. PICK x \in S : least = n - x
    BY <1>2
  <1>4. \A j \in S : x >= j
    <2> SUFFICES ASSUME NEW j \in S PROVE x >= j
      OBVIOUS
    <2>1. n - x <= n - j BY <1>2, <1>3
    <2> QED BY <2>1
  <1>5. \E i \in S : \A j \in S : i >= j
    BY <1>4
  <1>6. Max(S) \in S /\ \A j \in S : Max(S) >= j
    BY <1>5 DEF Max
  <1> QED BY <1>6

\* What a setting becomes, and the call that is the last to make it.
Becomes(f, to) == IF f = "database_url" THEN database(to) ELSE to

\* The calls among some that make a setting.
Setters(calls, s, f) == {i \in s : calls[i].field = f}

\* What a builder holds after its calls, which are folded in their order.
LEMMA BuilderAt ==
  ASSUME NEW n \in Nat, NEW calls, DOMAIN calls = 1 .. n
  PROVE  /\ DOMAIN Builder(calls) = {calls[i].field : i \in 1 .. n}
         /\ \A f \in DOMAIN Builder(calls) :
              Builder(calls)[f] = Becomes(f, calls[Max(Setters(calls, 1 .. n, f))].to)
  <1> DEFINE S == DOMAIN calls
             none == [f \in {} |-> ""]
             Step(g) == [s \in SUBSET S |-> IF s = {} THEN none
                                            ELSE Called(g[s \ {Max(s)}], calls[Max(s)])]
             folded == CHOOSE g : g = Step(g)
             Set(s) == {calls[i].field : i \in s}
             After(s) == [f \in Set(s) |-> Becomes(f, calls[Max(Setters(calls, s, f))].to)]
             all == [s \in SUBSET S |-> After(s)]
  <1>1. Builder(calls) = folded[S]
    BY DEF Builder, FoldLeft, MapThenFoldSet
  <1>2. S = 1 .. n
    OBVIOUS
  <1> HIDE DEF S
  <1>3. \A s \in SUBSET S : s # {} => Max(s) \in s /\ \A j \in s : j <= Max(s)
    BY <1>2, GreatestExists
  <1>4. ASSUME NEW s \in SUBSET S, s # {}
        PROVE  After(s) = Called(After(s \ {Max(s)}), calls[Max(s)])
    <2> DEFINE m == Max(s)
               rest == s \ {m}
               g == calls[m].field
               before == After(rest)
    <2>1. m \in s /\ \A j \in s : j <= m
      BY <1>3, <1>4
    <2>2. s \subseteq Int
      BY <1>2
    <2> HIDE DEF m
    <2>3. Set(s) = Set(rest) \union {g}
      BY <2>1
    <2>4. Max(Setters(calls, s, g)) = m
      <3> DEFINE own == Setters(calls, s, g)
      <3>1. m \in own /\ own \in SUBSET (1 .. n) /\ \A j \in own : j <= m
        BY <1>2, <2>1 DEF Setters
      <3> HIDE DEF own
      <3> DEFINE p == Max(own)
      <3>2. p \in own /\ \A j \in own : j <= p
        BY <3>1, GreatestExists
      <3>3. own \subseteq Int
        BY <3>1
      <3> HIDE DEF p
      <3>4. p <= m /\ m <= p /\ p \in Int /\ m \in Int
        BY <3>1, <3>2, <3>3
      <3>5. p = m
        BY <3>4
      <3> QED BY <3>5 DEF own, p
    <2>5. \A f : f # g => Setters(calls, s, f) = Setters(calls, rest, f)
      BY DEF Setters
    <2>6. DOMAIN before = Set(rest) /\ \A f \in Set(rest) :
            before[f] = Becomes(f, calls[Max(Setters(calls, rest, f))].to)
      OBVIOUS
    <2> DEFINE call == calls[m]
               after == After(s)
    <2>7. after = [f \in Set(s) |-> after[f]]
      OBVIOUS
    <2>8. \A f \in Set(s) : after[f] = Becomes(f, calls[Max(Setters(calls, s, f))].to)
      OBVIOUS
    <2> HIDE DEF before, after, Set, rest
    <2>9. \A f \in Set(s) : after[f] = IF f # g THEN before[f] ELSE Becomes(g, call.to)
      BY <2>3, <2>4, <2>5, <2>6, <2>8
    <2>10. after = [f \in Set(s) |-> IF f # g THEN before[f] ELSE Becomes(g, call.to)]
      BY <2>7, <2>9
    <2>11. Called(before, call) = [f \in Set(s) |-> IF f # g THEN before[f] ELSE Becomes(g, call.to)]
      BY <2>3, <2>6 DEF Called, Becomes
    <2>12. after = Called(before, call)
      BY <2>10, <2>11
    <2> QED BY <2>12 DEF after, before, rest, m
  <1>5. After({}) = none
    OBVIOUS
  <1>6. all = [s \in SUBSET S |-> all[s]] /\ \A s \in SUBSET S : all[s] = After(s)
    OBVIOUS
  <1> HIDE DEF all, After, none
  <1>7. all = Step(all)
    <2>1. \A s \in SUBSET S : all[s] = IF s = {} THEN none
                                       ELSE Called(all[s \ {Max(s)}], calls[Max(s)])
      BY <1>4, <1>5, <1>6
    <2> QED BY <1>6, <2>1
  <1>8. folded = Step(folded)
    BY <1>7
  <1> HIDE DEF folded
  <1>9. /\ folded[{}] = none
        /\ \A s \in SUBSET S : s # {} => folded[s] = Called(folded[s \ {Max(s)}], calls[Max(s)])
    BY <1>8
  <1>10. ASSUME NEW k \in 1 .. n
         PROVE  Max(1 .. k) = k /\ (1 .. k) \ {k} = 1 .. k - 1 /\ 1 .. k \in SUBSET S
                /\ 1 .. k - 1 \in SUBSET S /\ 1 .. k # {}
    <2> DEFINE s == 1 .. k
    <2>1. s \in SUBSET (1 .. n) /\ k \in s /\ \A j \in s : j <= k
      OBVIOUS
    <2>2. s \subseteq Int
      OBVIOUS
    <2> HIDE DEF s
    <2> DEFINE p == Max(s)
    <2>3. p \in s /\ \A j \in s : j <= p
      BY <2>1, GreatestExists
    <2> HIDE DEF p
    <2>4. p <= k /\ k <= p /\ p \in Int /\ k \in Int
      BY <2>1, <2>2, <2>3
    <2>5. p = k
      BY <2>4
    <2> QED BY <1>2, <2>5 DEF s, p
  <1>11. ASSUME NEW k \in 0 .. n, folded[1 .. k] # all[1 .. k]
         PROVE  FALSE
    <2> DEFINE wrong == {i \in 0 .. n : folded[1 .. i] # all[1 .. i]}
               least == Min(wrong)
    <2>1. wrong \in SUBSET Nat /\ wrong # {}
      BY <1>11
    <2>2. least \in wrong /\ \A j \in wrong : least <= j
      <3> HIDE DEF wrong
      <3> QED BY <2>1, LeastExists
    <2> HIDE DEF least
    <2>3. least # 0
      <3>1. 1 .. 0 = {} /\ {} \in SUBSET S OBVIOUS
      <3>2. folded[1 .. 0] = all[1 .. 0] BY <1>5, <1>6, <1>9, <3>1
      <3> QED BY <2>2, <3>2
    <2>4. least \in 1 .. n /\ least - 1 \in 0 .. n /\ ~ (least <= least - 1)
      BY <2>2, <2>3
    <2>5. folded[1 .. least - 1] = all[1 .. least - 1]
      BY <2>2, <2>4
    <2>6. /\ folded[1 .. least] = Called(folded[1 .. least - 1], calls[least])
          /\ all[1 .. least] = Called(all[1 .. least - 1], calls[least])
      <3> DEFINE top == 1 .. least
                 rest == 1 .. least - 1
      <3>1. Max(top) = least /\ top \ {least} = rest /\ top \in SUBSET S /\ rest \in SUBSET S /\ top # {}
        BY <1>10, <2>4
      <3> HIDE DEF top, rest
      <3>2. folded[top] = Called(folded[rest], calls[least])
        BY <1>9, <3>1
      <3>3. After(top) = Called(After(rest), calls[least])
        BY <1>4, <3>1
      <3> QED BY <1>6, <3>1, <3>2, <3>3 DEF top, rest
    <2> QED BY <2>2, <2>5, <2>6
  <1>12. folded[1 .. n] = After(1 .. n)
    <2>1. n \in 0 .. n OBVIOUS
    <2> QED BY <1>2, <1>6, <1>11, <2>1
  <1> QED BY <1>1, <1>2, <1>12 DEF After

\* Calls of a builder's methods: a URL is the scheme it may begin with and a
\* path.
BuilderAsked ==
  /\ \E n \in Nat : DOMAIN input.calls = 1 .. n
  /\ \A i \in DOMAIN input.calls :
       LET call == input.calls[i] IN
       /\ call.field \in {"database_url", "api_key_salt", "solution_hash_secret",
                          "image_encryption_secret", "max_validation_attempts", "run_migrations"}
       /\ call.field = "database_url" =>
            /\ call.to \in Seq({Scheme} \union STRING)
            /\ \A j \in DOMAIN call.to : call.to[j] = Scheme => j = 1
       /\ call.field = "run_migrations" => call.to \in BOOLEAN

\* What was last asked for is what the configuration holds.
KeepsLast(config, f, i) ==
  /\ i \in DOMAIN input.calls /\ input.calls[i].field = f /\ Latest(f) = {input.calls[i].to}
  /\ f \in DOMAIN config /\ config[f] = Becomes(f, input.calls[i].to)

\* A setting nobody made is not there; another is the last that was made.
LEMMA LatestIs ==
  ASSUME BuilderAsked, NEW f
  PROVE  LET config == Builder(input.calls) IN
         \/ Latest(f) = {} /\ f \notin DOMAIN config
         \/ \E i : KeepsLast(config, f, i)
  <1> DEFINE calls == input.calls
             config == Builder(calls)
  <1>1. PICK n \in Nat : DOMAIN calls = 1 .. n
    BY DEF BuilderAsked
  <1> DEFINE of == Setters(calls, 1 .. n, f)
             last == Max(of)
  <1>2. /\ DOMAIN config = {calls[i].field : i \in 1 .. n}
        /\ \A g \in DOMAIN config : config[g] = Becomes(g, calls[Max(Setters(calls, 1 .. n, g))].to)
    <2> HIDE DEF calls
    <2> QED BY <1>1, BuilderAt
  <1>3. of \in SUBSET (1 .. n) /\ of \subseteq Int
    BY DEF Setters
  <1>4. Latest(f) = {calls[i].to : i \in {j \in of : \A k \in of : k <= j}}
    BY <1>1 DEF Latest, Setters
  <1>5. f \in DOMAIN config <=> of # {}
    BY <1>2 DEF Setters
  <1>6. CASE of = {}
    <2> HIDE DEF of
    <2>1. Latest(f) = {} BY <1>4, <1>6
    <2> QED BY <1>5, <1>6, <2>1
  <1>7. CASE of # {}
    <2>1. config[f] = Becomes(f, calls[last].to)
      BY <1>2, <1>5, <1>7
    <2>2. last \in of /\ \A j \in of : j <= last
      <3> HIDE DEF of
      <3> QED BY <1>3, <1>7, GreatestExists
    <2>3. calls[last].field = f /\ last \in DOMAIN calls
      <3> HIDE DEF last
      <3> QED BY <1>1, <2>2 DEF Setters
    <2> HIDE DEF of, last
    <2>4. {j \in of : \A k \in of : k <= j} = {last}
      <3>1. ASSUME NEW j \in of, \A k \in of : k <= j PROVE j = last
        <4>1. last <= j /\ j <= last /\ last \in Int /\ j \in Int
          BY <1>3, <2>2, <3>1
        <4> QED BY <4>1
      <3> QED BY <2>2, <3>1
    <2>5. Latest(f) = {calls[last].to}
      BY <1>4, <2>4
    <2> QED BY <1>5, <1>7, <2>1, <2>3, <2>5 DEF KeepsLast
  <1> QED BY <1>6, <1>7

\* A database has one scheme, whether it was given with one or not.
LEMMA DatabaseIs ==
  ASSUME NEW url \in Seq({Scheme} \union STRING), \A j \in DOMAIN url : url[j] = Scheme => j = 1
  PROVE  {i \in DOMAIN database(url) : database(url)[i] = Scheme} = {1}
  <1> DEFINE P == {Scheme} \union STRING
             longer == <<Scheme>> \o url
             n == Len(url)
  <1>1. url \in Seq(P) /\ n \in Nat /\ DOMAIN url = 1 .. n /\ Scheme \in P
    OBVIOUS
  <1>2. CASE url # <<>> /\ Head(url) = Scheme
    <2>1. 1 \in DOMAIN url /\ url[1] = Scheme
      BY <1>1, <1>2
    <2> QED BY <1>2, <2>1 DEF database
  <1>3. CASE ~(url # <<>> /\ Head(url) = Scheme)
    <2>1. database(url) = longer
      BY <1>3 DEF database
    <2>2. Fronted(Scheme, url, P)
      <3> HIDE DEF P
      <3> QED BY <1>1, InFront
    <2> HIDE DEF P
    <2>3. longer \in Seq(P) /\ Len(longer) = n + 1 /\ longer[1] = Scheme
          /\ \A i \in 1 .. n : longer[i + 1] = url[i]
      BY <2>2 DEF Fronted, Ahead
    <2>4. \A i \in 1 .. n : url[i] # Scheme
      <3> SUFFICES ASSUME NEW i \in 1 .. n, url[i] = Scheme PROVE FALSE
        OBVIOUS
      <3>1. i = 1 BY <1>1
      <3>2. url # <<>> /\ Head(url) = Scheme BY <1>1, <3>1
      <3> QED BY <1>3, <3>2
    <2> HIDE DEF longer
    <2>5. DOMAIN longer = 1 .. n + 1
      BY <2>3
    <2> HIDE DEF n
    <2>6. ASSUME NEW i \in 1 .. n + 1, longer[i] = Scheme PROVE i = 1
      <3> SUFFICES ASSUME i # 1 PROVE FALSE
        OBVIOUS
      <3> DEFINE j == i - 1
      <3>1. j \in 1 .. n /\ j + 1 = i BY <1>1
      <3> HIDE DEF j
      <3> QED BY <2>3, <2>4, <2>6, <3>1
    <2>7. 1 \in 1 .. n + 1 BY <1>1
    <2> QED BY <2>1, <2>3, <2>5, <2>6, <2>7
  <1> QED BY <1>2, <1>3

\* Comparing two versions: nothing differs, or the first piece that does decides.
Before(a, b, k) == \A j \in 1 .. k - 1 : Piece(a, j) = Piece(b, j)

Compared(c, a, b) ==
  \/ c = 0 /\ \A j : Piece(a, j) = Piece(b, j)
  \/ \E k \in Nat \ {0} :
       /\ Before(a, b, k) /\ Piece(a, k) # Piece(b, k)
       /\ c = IF Piece(a, k) > Piece(b, k) THEN 1 ELSE -1

\* Whatever is written as a version.
IsVersion(v) == v \in Seq(Nat \union {NaN})

\* A piece of a version is a number.
LEMMA PiecesAre ==
  ASSUME NEW v, IsVersion(v), NEW i
  PROVE  Piece(v, i) \in Nat
  <1>1. CASE i \in DOMAIN v /\ v[i] # NaN
    <2>1. v[i] \in Nat \union {NaN}
      BY <1>1 DEF IsVersion
    <2> QED BY <1>1, <2>1 DEF Piece
  <1> QED BY <1>1 DEF Piece

\* What compareVersions finds.
LEMMA ComparedIs ==
  ASSUME NEW a, NEW b, IsVersion(a), IsVersion(b)
  PROVE  Compared(compareVersions(a, b), a, b)
  <1> DEFINE differ == {i \in DOMAIN a \union DOMAIN b : Piece(a, i) # Piece(b, i)}
             first == CHOOSE i \in differ : \A j \in differ : i <= j
             c == compareVersions(a, b)
  <1>1. \A j : Piece(a, j) # Piece(b, j) => j \in differ
    BY DEF Piece
  <1>2. differ \in SUBSET (Nat \ {0})
    <2>1. DOMAIN a \subseteq Nat \ {0} /\ DOMAIN b \subseteq Nat \ {0}
      BY DEF IsVersion
    <2> QED BY <2>1
  <1>3. c = CASE differ = {} -> 0
              [] Piece(a, first) > Piece(b, first) -> 1
              [] OTHER -> -1
    BY DEF compareVersions
  <1>4. \A i \in differ : Piece(a, i) # Piece(b, i)
    OBVIOUS
  <1>5. CASE differ = {}
    <2> DEFINE x == Piece(a, first) > Piece(b, first)
    <2> HIDE DEF x, differ
    <2>1. c = 0
      <3>1. c = CASE differ = {} -> 0 [] x -> 1 [] OTHER -> -1 BY <1>3 DEF x
      <3>2. ~ x
        <4>1. Piece(a, first) = Piece(b, first) BY <1>1, <1>5
        <4>2. Piece(a, first) \in Nat BY PiecesAre
        <4> DEFINE p == Piece(a, first)
                   q == Piece(b, first)
        <4>3. p = q /\ p \in Nat BY <4>1, <4>2
        <4> HIDE DEF p, q
        <4>4. ~ (p > q) BY <4>3
        <4> QED BY <4>4 DEF p, q, x
      <3> QED BY <1>5, <3>1, <3>2
    <2> QED BY <1>1, <1>5, <2>1 DEF Compared
  <1>6. CASE differ # {}
    <2> HIDE DEF differ
    <2>1. first \in differ /\ \A j \in differ : first <= j
      <3> DEFINE least == Min(differ)
      <3>1. least \in differ /\ \A j \in differ : least <= j
        <4>1. differ \in SUBSET Nat BY <1>2
        <4> QED BY <1>6, <4>1, LeastExists
      <3> HIDE DEF least
      <3> QED BY <3>1
    <2> HIDE DEF first
    <2>2. first \in Nat \ {0} /\ Piece(a, first) # Piece(b, first)
      BY <1>2, <1>4, <2>1
    <2>3. Before(a, b, first)
      <3> SUFFICES ASSUME NEW j \in 1 .. first - 1 PROVE Piece(a, j) = Piece(b, j)
        BY DEF Before
      <3>1. ~ (first <= j) BY <2>2
      <3> QED BY <1>1, <2>1, <3>1
    <2>4. c = IF Piece(a, first) > Piece(b, first) THEN 1 ELSE -1
      <3> DEFINE x == Piece(a, first) > Piece(b, first)
      <3> HIDE DEF x
      <3>1. c = CASE differ = {} -> 0 [] x -> 1 [] OTHER -> -1 BY <1>3 DEF x
      <3>2. c = IF x THEN 1 ELSE -1 BY <1>6, <3>1
      <3> QED BY <3>2 DEF x
    <2> QED BY <2>2, <2>3, <2>4 DEF Compared
  <1> QED BY <1>5, <1>6

\* One version is no later than another.
NoLater(a, b) == \A k \in Nat \ {0} : Before(a, b, k) => Piece(a, k) <= Piece(b, k)

\* ... and what that says of the two versions.
LEMMA NoLaterIs ==
  ASSUME NEW a, NEW b, IsVersion(a), IsVersion(b)
  PROVE  compareVersions(a, b) \in -1 .. 1 /\ (compareVersions(a, b) <= 0 <=> NoLater(a, b))
  <1> DEFINE c == compareVersions(a, b)
  <1>1. Compared(c, a, b)
    BY ComparedIs
  <1>2. \A i : Piece(a, i) \in Nat /\ Piece(b, i) \in Nat
    BY PiecesAre
  <1> HIDE DEF c
  <1>3. CASE c = 0 /\ \A j : Piece(a, j) = Piece(b, j)
    BY <1>2, <1>3 DEF NoLater, c
  <1>4. CASE \E k \in Nat \ {0} : /\ Before(a, b, k) /\ Piece(a, k) # Piece(b, k)
                                  /\ c = IF Piece(a, k) > Piece(b, k) THEN 1 ELSE -1
    <2>1. PICK k \in Nat \ {0} : /\ Before(a, b, k) /\ Piece(a, k) # Piece(b, k)
                                 /\ c = IF Piece(a, k) > Piece(b, k) THEN 1 ELSE -1
      BY <1>4
    <2>2. Piece(a, k) \in Nat /\ Piece(b, k) \in Nat
      BY <1>2
    <2>3. CASE Piece(a, k) > Piece(b, k)
      <3>1. c = 1 BY <2>1, <2>3
      <3>2. ~ NoLater(a, b) BY <2>1, <2>2, <2>3 DEF NoLater
      <3> QED BY <3>1, <3>2 DEF c
    <2>4. CASE ~(Piece(a, k) > Piece(b, k))
      <3>1. c = -1 BY <2>1, <2>4
      <3>2. ASSUME NEW m \in Nat \ {0}, Before(a, b, m) PROVE Piece(a, m) <= Piece(b, m)
        <4>1. ~ (k < m)
          <5> SUFFICES ASSUME k < m PROVE FALSE OBVIOUS
          <5>1. k \in 1 .. m - 1 OBVIOUS
          <5> QED BY <2>1, <3>2, <5>1 DEF Before
        <4>2. CASE m = k BY <1>2, <2>1, <2>2, <2>4, <4>2
        <4>3. CASE m < k
          <5>1. m \in 1 .. k - 1 BY <4>3
          <5>2. Piece(a, m) = Piece(b, m) BY <2>1, <5>1 DEF Before
          <5> QED BY <1>2, <5>2
        <4> QED BY <4>1, <4>2, <4>3
      <3>3. NoLater(a, b) BY <3>2 DEF NoLater
      <3> QED BY <3>1, <3>3 DEF c
    <2> QED BY <2>3, <2>4
  <1> QED BY <1>1, <1>3, <1>4 DEF Compared

\* The other way round it finds the opposite.
LEMMA ComparedBothWays ==
  ASSUME NEW a, NEW b, IsVersion(a), IsVersion(b)
  PROVE  compareVersions(b, a) = -compareVersions(a, b)
  <1> DEFINE c == compareVersions(a, b)
             d == compareVersions(b, a)
  <1>1. c \in -1 .. 1 /\ d \in -1 .. 1 /\ (c <= 0 <=> NoLater(a, b)) /\ (d <= 0 <=> NoLater(b, a))
    BY NoLaterIs
  <1>2. Compared(c, a, b) /\ Compared(d, b, a)
    BY ComparedIs
  <1>3. \A i : Piece(a, i) \in Nat /\ Piece(b, i) \in Nat
    BY PiecesAre
  <1> HIDE DEF c, d
  <1>4. CASE \A j : Piece(a, j) = Piece(b, j)
    <2>1. c = 0 /\ d = 0
      BY <1>2, <1>4 DEF Compared
    <2>2. \A n \in Int : n <= 0 /\ n >= 0 => -n = 0
      OBVIOUS
    <2>3. c \in Int /\ c <= 0 /\ c >= 0 BY <1>1, <2>1
    <2>4. d = -c BY <2>1, <2>2, <2>3
    <2> QED BY <2>4 DEF c, d
  <1>5. CASE \E j : Piece(a, j) # Piece(b, j)
    <2>1. c # 0 /\ d # 0
      <3>1. c = 1 \/ c = -1 BY <1>2, <1>5 DEF Compared
      <3>2. d = 1 \/ d = -1 BY <1>2, <1>5 DEF Compared
      <3> QED BY <3>1, <3>2
    <2>2. ~ (NoLater(a, b) /\ NoLater(b, a))
      <3> SUFFICES ASSUME NoLater(a, b), NoLater(b, a) PROVE FALSE
        OBVIOUS
      <3>1. PICK k \in Nat \ {0} : Before(a, b, k) /\ Piece(a, k) # Piece(b, k)
        BY <1>2, <1>5 DEF Compared
      <3>2. Before(b, a, k)
        BY <3>1 DEF Before
      <3>3. Piece(a, k) <= Piece(b, k) /\ Piece(b, k) <= Piece(a, k)
        BY <3>1, <3>2 DEF NoLater
      <3> QED BY <1>3, <3>1, <3>3
    <2>3. NoLater(a, b) \/ NoLater(b, a)
      <3>1. PICK k \in Nat \ {0} : /\ Before(a, b, k) /\ Piece(a, k) # Piece(b, k)
                                   /\ c = IF Piece(a, k) > Piece(b, k) THEN 1 ELSE -1
        BY <1>2, <1>5 DEF Compared
      <3>2. Piece(a, k) \in Nat /\ Piece(b, k) \in Nat
        BY <1>3
      <3>3. CASE ~(Piece(a, k) > Piece(b, k))
        <4>1. c = -1 BY <3>1, <3>3
        <4> QED BY <1>1, <4>1
      <3>4. CASE Piece(a, k) > Piece(b, k)
        <4>1. ~ NoLater(b, a) => d = 1
          BY <1>1, <2>1
        <4>2. ASSUME d = 1 PROVE FALSE
          <5>1. PICK m \in Nat \ {0} : /\ Before(b, a, m) /\ Piece(b, m) # Piece(a, m)
                                       /\ d = IF Piece(b, m) > Piece(a, m) THEN 1 ELSE -1
            BY <1>2, <1>5 DEF Compared
          <5>2. Piece(b, m) > Piece(a, m)
            <6> DEFINE x == Piece(b, m) > Piece(a, m)
            <6> HIDE DEF x
            <6>1. d = IF x THEN 1 ELSE -1 BY <5>1 DEF x
            <6>2. x BY <4>2, <6>1
            <6> QED BY <6>2 DEF x
          <5>3. Piece(b, m) \in Nat /\ Piece(a, m) \in Nat BY <1>3
          <5>4. ~ (k < m)
            <6> SUFFICES ASSUME k < m PROVE FALSE OBVIOUS
            <6>1. k \in 1 .. m - 1 OBVIOUS
            <6> QED BY <3>1, <5>1, <6>1 DEF Before
          <5>5. ~ (m < k)
            <6> SUFFICES ASSUME m < k PROVE FALSE OBVIOUS
            <6>1. m \in 1 .. k - 1 OBVIOUS
            <6> QED BY <3>1, <5>1, <6>1 DEF Before
          <5>6. m = k BY <5>4, <5>5
          <5> QED BY <3>2, <3>4, <5>2, <5>6
        <4> QED BY <4>1, <4>2
      <3> QED BY <3>3, <3>4
    <2>4. (c = 1 /\ d = -1) \/ (c = -1 /\ d = 1)
      BY <1>1, <2>1, <2>2, <2>3
    <2>5. d = -c BY <2>4
    <2> QED BY <2>5 DEF c, d
  <1> QED BY <1>4, <1>5

\* Being no later is passed on.
LEMMA NoLaterThrough ==
  ASSUME NEW a, NEW b, NEW v, IsVersion(a), IsVersion(b), IsVersion(v), NoLater(a, b), NoLater(b, v)
  PROVE  NoLater(a, v)
  <1> SUFFICES ASSUME NEW k \in Nat \ {0}, Before(a, v, k) PROVE Piece(a, k) <= Piece(v, k)
    BY DEF NoLater
  <1>1. \A i : Piece(a, i) \in Nat /\ Piece(b, i) \in Nat /\ Piece(v, i) \in Nat
    BY PiecesAre
  <1> DEFINE odd == {j \in 1 .. k - 1 : Piece(a, j) # Piece(b, j)}
             least == Min(odd)
  <1>2. CASE odd = {}
    <2>1. Before(a, b, k)
      BY <1>2 DEF Before
    <2>2. Before(b, v, k)
      BY <2>1 DEF Before
    <2>3. Piece(a, k) <= Piece(b, k) /\ Piece(b, k) <= Piece(v, k)
      BY <2>1, <2>2 DEF NoLater
    <2> QED BY <1>1, <2>3
  <1>3. CASE odd # {}
    <2>1. least \in odd /\ \A j \in odd : least <= j
      <3>1. odd \in SUBSET Nat OBVIOUS
      <3> HIDE DEF odd
      <3> QED BY <1>3, <3>1, LeastExists
    <2> HIDE DEF least
    <2>2. least \in 1 .. k - 1 /\ Piece(a, least) # Piece(b, least)
      BY <2>1
    <2>3. Before(a, b, least)
      <3> SUFFICES ASSUME NEW j \in 1 .. least - 1 PROVE Piece(a, j) = Piece(b, j)
        BY DEF Before
      <3>1. ~ (least <= j) /\ j \in 1 .. k - 1 BY <2>2
      <3> QED BY <2>1, <3>1
    <2>4. \A j \in 1 .. least : Piece(a, j) = Piece(v, j)
      <3>1. \A j \in 1 .. least : j \in 1 .. k - 1 BY <2>2
      <3> QED BY <3>1 DEF Before
    <2>5. Before(b, v, least)
      <3>1. \A j \in 1 .. least - 1 : j \in 1 .. least BY <2>2
      <3> QED BY <2>3, <2>4, <3>1 DEF Before
    <2>6. Piece(a, least) <= Piece(b, least) /\ Piece(b, least) <= Piece(v, least)
      BY <2>2, <2>3, <2>5 DEF NoLater
    <2>7. Piece(a, least) = Piece(v, least)
      BY <2>2, <2>4
    <2> QED BY <1>1, <2>2, <2>6, <2>7
  <1> QED BY <1>2, <1>3

\* The releases between the limits are those of the first major version.
LEMMA CompatibleIs ==
  ASSUME NEW v \in Seq(Nat)
  PROVE  isCompatibleCoreVersion(v) <=> v # NotInstalled /\ Head(v) = 1
  <1> DEFINE lo == compareVersions(v, MIN_CORE_VERSION)
             hi == compareVersions(v, MAX_CORE_VERSION)
  <1>1. IsVersion(v) /\ IsVersion(MIN_CORE_VERSION) /\ IsVersion(MAX_CORE_VERSION)
    <2>1. IsVersion(v)
      <3>1. \A i \in 1 .. Len(v) : v[i] \in Nat \union {NaN} OBVIOUS
      <3> QED BY <3>1 DEF IsVersion
    <2>2. IsVersion(MIN_CORE_VERSION) /\ IsVersion(MAX_CORE_VERSION)
      BY DEF IsVersion, MIN_CORE_VERSION, MAX_CORE_VERSION
    <2> QED BY <2>1, <2>2
  <1>2. /\ Piece(MIN_CORE_VERSION, 1) = 1 /\ Piece(MAX_CORE_VERSION, 1) = 2
        /\ \A k \in Nat \ {0} : k # 1 => Piece(MIN_CORE_VERSION, k) = 0 /\ Piece(MAX_CORE_VERSION, k) = 0
    BY DEF Piece, MIN_CORE_VERSION, MAX_CORE_VERSION, NaN
  <1>3. \A i : Piece(v, i) \in Nat
    BY <1>1, PiecesAre
  <1>4. CASE v = NotInstalled
    BY <1>4 DEF isCompatibleCoreVersion
  <1>5. CASE v # NotInstalled
    <2>1. Head(v) = Piece(v, 1)
      <3>1. 1 \in DOMAIN v /\ Head(v) = v[1] /\ v[1] \in Nat
        BY <1>5 DEF NotInstalled
      <3> QED BY <3>1 DEF Piece, NaN
    <2> DEFINE p == Piece(v, 1)
    <2>2. p \in Nat /\ Piece(v, 1) = p
      BY <1>3
    <2> HIDE DEF p
    <2>3. Compared(lo, v, MIN_CORE_VERSION) /\ Compared(hi, v, MAX_CORE_VERSION)
      BY <1>1, ComparedIs
    <2>4. lo >= 0 <=> p >= 1
      <3> HIDE DEF lo
      <3>1. CASE lo = 0 /\ \A j : Piece(v, j) = Piece(MIN_CORE_VERSION, j)
        BY <1>2, <2>2, <3>1
      <3>2. CASE ~(lo = 0 /\ \A j : Piece(v, j) = Piece(MIN_CORE_VERSION, j))
        <4>1. PICK k \in Nat \ {0} :
                /\ Before(v, MIN_CORE_VERSION, k) /\ Piece(v, k) # Piece(MIN_CORE_VERSION, k)
                /\ lo = IF Piece(v, k) > Piece(MIN_CORE_VERSION, k) THEN 1 ELSE -1
          BY <2>3, <3>2 DEF Compared
        <4> DEFINE q == Piece(v, k)
                   r == Piece(MIN_CORE_VERSION, k)
        <4>2. q \in Nat BY <1>3
        <4>3. q # r /\ lo = IF q > r THEN 1 ELSE -1
          BY <4>1
        <4>4. CASE k = 1
          <5>1. q = p /\ r = 1 BY <1>2, <2>2, <4>4
          <5> HIDE DEF q, r
          <5> QED BY <4>2, <4>3, <5>1
        <4>5. CASE k # 1
          <5>1. r = 0 BY <1>2, <4>5
          <5>2. p = 1
            <6>1. 1 \in 1 .. k - 1 BY <4>5
            <6>2. Piece(v, 1) = Piece(MIN_CORE_VERSION, 1) BY <4>1, <6>1 DEF Before
            <6> QED BY <1>2, <2>2, <6>2
          <5> HIDE DEF q, r
          <5> QED BY <4>2, <4>3, <5>1, <5>2
        <4> QED BY <4>4, <4>5
      <3> QED BY <3>1, <3>2
    <2>5. hi < 0 <=> p < 2
      <3> HIDE DEF hi
      <3>1. CASE hi = 0 /\ \A j : Piece(v, j) = Piece(MAX_CORE_VERSION, j)
        BY <1>2, <2>2, <3>1
      <3>2. CASE ~(hi = 0 /\ \A j : Piece(v, j) = Piece(MAX_CORE_VERSION, j))
        <4>1. PICK k \in Nat \ {0} :
                /\ Before(v, MAX_CORE_VERSION, k) /\ Piece(v, k) # Piece(MAX_CORE_VERSION, k)
                /\ hi = IF Piece(v, k) > Piece(MAX_CORE_VERSION, k) THEN 1 ELSE -1
          BY <2>3, <3>2 DEF Compared
        <4> DEFINE q == Piece(v, k)
                   r == Piece(MAX_CORE_VERSION, k)
        <4>2. q \in Nat BY <1>3
        <4>3. q # r /\ hi = IF q > r THEN 1 ELSE -1
          BY <4>1
        <4>4. CASE k = 1
          <5>1. q = p /\ r = 2 BY <1>2, <2>2, <4>4
          <5> HIDE DEF q, r
          <5> QED BY <2>2, <4>2, <4>3, <5>1
        <4>5. CASE k # 1
          <5>1. r = 0 BY <1>2, <4>5
          <5>2. p = 2
            <6>1. 1 \in 1 .. k - 1 BY <4>5
            <6>2. Piece(v, 1) = Piece(MAX_CORE_VERSION, 1) BY <4>1, <6>1 DEF Before
            <6> QED BY <1>2, <2>2, <6>2
          <5> HIDE DEF q, r
          <5> QED BY <4>2, <4>3, <5>1, <5>2
        <4> QED BY <4>4, <4>5
      <3> QED BY <3>1, <3>2
    <2>6. isCompatibleCoreVersion(v) <=> lo >= 0 /\ hi < 0
      BY <1>5 DEF isCompatibleCoreVersion
    <2> HIDE DEF lo, hi
    <2>7. Head(v) = 1 <=> p >= 1 /\ p < 2
      BY <2>1, <2>2
    <2> QED BY <1>5, <2>4, <2>5, <2>6, <2>7
  <1> QED BY <1>4, <1>5

\* Whether an instance is made does not depend on its configuration.
LEMMA CreatedAlike ==
  ASSUME NEW config, NEW other, NEW v, NEW loads \in BOOLEAN
  PROVE  /\ create(config, FALSE, v, loads).error = create(other, FALSE, v, loads).error
         /\ create(config, FALSE, v, loads).error = "none" => isCompatibleCoreVersion(v) /\ loads
  BY DEF create, Refused, core_create

\* Versions are ordered, and the ways to an instance agree.
LEMMA VersionsOrdered ==
  Given_("versions") /\ IsVersion(input.a) /\ IsVersion(input.b) /\ input.loads \in BOOLEAN
    => VersionsAreOrdered
  <1> SUFFICES ASSUME IsVersion(input.a), IsVersion(input.b), input.loads \in BOOLEAN
               PROVE  VersionsAreOrdered
    OBVIOUS
  <1> DEFINE a == input.a
             b == input.b
             c == compareVersions(a, b)
             config == [database_url |-> <<Scheme, "p">>, api_key_salt |-> "s"]
             made == create(config, FALSE, a, input.loads)
  <1>1. compareVersions(b, a) = -c
    BY ComparedBothWays
  <1>2. ASSUME NEW v \in Versions, c <= 0, compareVersions(b, v) <= 0
        PROVE  compareVersions(a, v) <= 0
    <2>1. IsVersion(v)
      <3> DEFINE P == Nat \union {NaN}
      <3>1. CASE v \in {NotInstalled, <<1>>, <<1, 1>>, <<0, NaN, 3>>, <<1, 0, NaN, 1>>}
        <4>1. 1 \in P /\ 0 \in P /\ 3 \in P /\ NaN \in P
          OBVIOUS
        <4> HIDE DEF P
        <4>2. /\ <<>> \in Seq(P) /\ <<1>> \in Seq(P) /\ <<1, 1>> \in Seq(P)
              /\ <<0, NaN, 3>> \in Seq(P) /\ <<1, 0, NaN, 1>> \in Seq(P)
          BY <4>1
        <4>3. v \in Seq(P)
          BY <3>1, <4>2 DEF NotInstalled
        <4> QED BY <4>3 DEF IsVersion, P
      <3>2. CASE v \in {<<x, y, z>> : x \in 0 .. 3, y \in 0 .. 2, z \in 0 .. 1}
        <4>1. PICK x \in 0 .. 3, y \in 0 .. 2, z \in 0 .. 1 : v = <<x, y, z>>
          BY <3>2
        <4>2. x \in P /\ y \in P /\ z \in P
          OBVIOUS
        <4> HIDE DEF P
        <4>3. <<x, y, z>> \in Seq(P)
          BY <4>2
        <4> QED BY <4>1, <4>3 DEF IsVersion, P
      <3> QED BY <3>1, <3>2 DEF Versions
    <2> HIDE DEF a, b
    <2>2. NoLater(a, b) /\ NoLater(b, v)
      BY <1>2, <2>1, NoLaterIs DEF a, b
    <2>3. NoLater(a, v)
      BY <2>1, <2>2, NoLaterThrough DEF a, b
    <2> QED BY <2>1, <2>3, NoLaterIs DEF a
  <1>3. ASSUME NaN \notin ToSet(a)
        PROVE  isCompatibleCoreVersion(a) <=> a # NotInstalled /\ Head(a) = 1
    <2>1. a \in Seq(Nat)
      <3>1. a \in Seq(Nat \union {NaN}) /\ \A i \in DOMAIN a : a[i] # NaN
        BY <1>3 DEF IsVersion, ToSet
      <3>2. \A i \in 1 .. Len(a) : a[i] \in Nat
        BY <3>1
      <3> QED BY <3>1, <3>2
    <2> HIDE DEF a
    <2> QED BY <2>1, CompatibleIs
  <1>4. quickStart(<<"p">>, {"s"}, a, input.loads) = made
    <2>1. <<Scheme>> \o <<"p">> = <<Scheme, "p">>
      <3> DEFINE p == "p"
      <3> HIDE DEF p
      <3>1. <<Scheme>> \o <<p>> = <<Scheme, p>> BY PairIs
      <3> QED BY <3>1 DEF p
    <2>2. (IF {"s"} = {} THEN "new" ELSE CHOOSE s \in {"s"} : TRUE) = "s"
      OBVIOUS
    <2> QED BY <2>1, <2>2 DEF quickStart
  <1>5. inMemory("s", a, input.loads).error = made.error
    BY CreatedAlike DEF inMemory
  <1>6. made.error = "none" => isCompatibleCoreVersion(a) /\ input.loads
    BY CreatedAlike
  <1> HIDE DEF made, c, a, b
  <1> QED BY <1>1, <1>2, <1>3, <1>4, <1>5, <1>6 DEF VersionsAreOrdered, made, c, a, b, config

\* What is refused says why.
LEMMA RefusedIs ==
  ASSUME NEW e
  PROVE  Refused(e).error = e
  BY DEF Refused

\* The defaults of the configuration are those of the binding.
LEMMA DefaultsFallBack ==
  \A f \in {"default_session_ttl_seconds", "max_session_ttl_seconds",
            "max_validation_attempts", "captcha_compression"} :
    f \in DOMAIN CaptchaConfigDefault /\ CaptchaConfigDefault[f] = NodeFallbacks[f]
  <1> DEFINE path == <<Scheme, "./captcha.db">>
  <1>1. CaptchaConfigDefault =
          [database_url |-> path, api_key_salt |-> "",
           default_session_ttl_seconds |-> 300, max_session_ttl_seconds |-> 3600,
           max_validation_attempts |-> 3, run_migrations |-> TRUE, captcha_compression |-> 40]
    BY Zenon DEF CaptchaConfigDefault
  <1> HIDE DEF path
  <1> DEFINE C == CaptchaConfigDefault
             F == NodeFallbacks
  <1>2. /\ DOMAIN C = {"database_url", "api_key_salt", "default_session_ttl_seconds",
                       "max_session_ttl_seconds", "max_validation_attempts", "run_migrations",
                       "captcha_compression"}
        /\ C.default_session_ttl_seconds = 300 /\ C.max_session_ttl_seconds = 3600
        /\ C.max_validation_attempts = 3 /\ C.captcha_compression = 40
    BY <1>1
  <1>3. /\ F.default_session_ttl_seconds = 300 /\ F.max_session_ttl_seconds = 3600
        /\ F.max_validation_attempts = 3 /\ F.captcha_compression = 40
    BY DEF NodeFallbacks
  <1> HIDE DEF C, F
  <1>4. \A f \in {"default_session_ttl_seconds", "max_session_ttl_seconds",
                  "max_validation_attempts", "captcha_compression"} : f \in DOMAIN C /\ C[f] = F[f]
    BY <1>2, <1>3
  <1> QED BY <1>4 DEF C, F

\* A built instance is the one that was asked for.
LEMMA BuiltAsAskedFor ==
  Given_("builder") /\ BuilderAsked => BuiltAsAsked
  <1> SUFFICES ASSUME BuilderAsked PROVE BuiltAsAsked
    OBVIOUS
  <1> DEFINE B == Builder(input.calls)
             api == build(B, FALSE, MIN_CORE_VERSION, TRUE)
             salt == Latest("api_key_salt")
             attempts == Latest("max_validation_attempts")
             url == Latest("database_url")
             solution == Latest("solution_hash_secret")
             image == Latest("image_encryption_secret")
             migrate == Latest("run_migrations")
             Key(field) == IF Latest(field) # {} THEN Latest(field) ELSE salt
             default == core_create(CaptchaConfigDefault)
             K(f) == input.calls[CHOOSE i : KeepsLast(B, f, i)].to
  <1>1. ASSUME NEW f
        PROVE  \/ Latest(f) = {} /\ f \notin DOMAIN B
               \/ /\ Latest(f) = {K(f)} /\ f \in DOMAIN B /\ B[f] = Becomes(f, K(f))
                  /\ \E i \in DOMAIN input.calls : input.calls[i].field = f /\ input.calls[i].to = K(f)
    <2>1. CASE Latest(f) = {} /\ f \notin DOMAIN B
      BY <2>1
    <2>2. CASE \E i : KeepsLast(B, f, i)
      <3> DEFINE k == CHOOSE i : KeepsLast(B, f, i)
      <3>1. KeepsLast(B, f, k)
        BY <2>2
      <3> HIDE DEF k, B
      <3>2. /\ Latest(f) = {input.calls[k].to} /\ f \in DOMAIN B /\ B[f] = Becomes(f, input.calls[k].to)
            /\ k \in DOMAIN input.calls /\ input.calls[k].field = f
        BY <3>1 DEF KeepsLast
      <3> QED BY <3>2 DEF k
    <2> QED BY <2>1, <2>2, LatestIs
  <1> HIDE DEF K
  <1>2. \A f, to : f # "database_url" => Becomes(f, to) = to
    BY DEF Becomes
  <1>3. isCompatibleCoreVersion(MIN_CORE_VERSION)
    <2>1. MIN_CORE_VERSION \in Seq(Nat) /\ MIN_CORE_VERSION # NotInstalled /\ Head(MIN_CORE_VERSION) = 1
      BY DEF MIN_CORE_VERSION, NotInstalled
    <2> QED BY <2>1, CompatibleIs
  <1> HIDE DEF B
  <1>4. /\ (salt = {} /\ "api_key_salt" \notin DOMAIN B)
             \/ (salt = {K("api_key_salt")} /\ "api_key_salt" \in DOMAIN B
                   /\ B["api_key_salt"] = K("api_key_salt"))
        /\ (solution = {} /\ "solution_hash_secret" \notin DOMAIN B)
             \/ (solution = {K("solution_hash_secret")} /\ "solution_hash_secret" \in DOMAIN B
                   /\ B["solution_hash_secret"] = K("solution_hash_secret"))
        /\ (image = {} /\ "image_encryption_secret" \notin DOMAIN B)
             \/ (image = {K("image_encryption_secret")} /\ "image_encryption_secret" \in DOMAIN B
                   /\ B["image_encryption_secret"] = K("image_encryption_secret"))
        /\ (attempts = {} /\ "max_validation_attempts" \notin DOMAIN B)
             \/ (attempts = {K("max_validation_attempts")} /\ "max_validation_attempts" \in DOMAIN B
                   /\ B["max_validation_attempts"] = K("max_validation_attempts"))
        /\ (migrate = {} /\ "run_migrations" \notin DOMAIN B)
             \/ (migrate = {K("run_migrations")} /\ "run_migrations" \in DOMAIN B
                   /\ B["run_migrations"] = K("run_migrations")
                   /\ K("run_migrations") \in BOOLEAN)
    <2>1. ASSUME NEW f, f # "database_url"
          PROVE  \/ Latest(f) = {} /\ f \notin DOMAIN B
                 \/ Latest(f) = {K(f)} /\ f \in DOMAIN B /\ B[f] = K(f)
      BY <1>1, <1>2, <2>1
    <2>2. migrate # {} => K("run_migrations") \in BOOLEAN
      BY <1>1 DEF BuilderAsked
    <2> QED BY <2>1, <2>2
  <1>5. \/ url = {} /\ "database_url" \notin DOMAIN B
        \/ /\ url # {} /\ "database_url" \in DOMAIN B /\ B["database_url"] = database(K("database_url"))
           /\ {i \in DOMAIN database(K("database_url")) : database(K("database_url"))[i] = Scheme} = {1}
    <2>1. CASE url = {} /\ "database_url" \notin DOMAIN B
      BY <2>1
    <2>2. CASE ~(url = {} /\ "database_url" \notin DOMAIN B)
      <3>1. url # {} /\ "database_url" \in DOMAIN B /\ B["database_url"] = database(K("database_url"))
        BY <1>1, <2>2 DEF Becomes
      <3>2. PICK i \in DOMAIN input.calls :
              input.calls[i].field = "database_url" /\ input.calls[i].to = K("database_url")
        BY <1>1, <2>2
      <3> DEFINE u == K("database_url")
      <3>3. u \in Seq({Scheme} \union STRING) /\ \A j \in DOMAIN u : u[j] = Scheme => j = 1
        BY <3>2 DEF BuilderAsked
      <3> HIDE DEF u
      <3>4. {j \in DOMAIN database(u) : database(u)[j] = Scheme} = {1}
        BY <3>3, DatabaseIs
      <3> QED BY <3>1, <3>4 DEF u
    <2> QED BY <2>1, <2>2
  <1>6. \A f \in {"default_session_ttl_seconds", "max_session_ttl_seconds", "captcha_compression"} :
          f \notin DOMAIN B
    <2> SUFFICES ASSUME NEW f \in {"default_session_ttl_seconds", "max_session_ttl_seconds",
                                   "captcha_compression"}, f \in DOMAIN B
                 PROVE  FALSE
      OBVIOUS
    <2>1. PICK i \in DOMAIN input.calls : input.calls[i].field = f
      BY <1>1
    <2> QED BY <2>1 DEF BuilderAsked
  <1>7. CASE url = {} \/ salt \in {{}, {""}}
    <2>1. "database_url" \notin DOMAIN B \/ Optional(B, "api_key_salt", "") = ""
      <3>1. CASE url = {} BY <1>5, <3>1
      <3>2. CASE salt = {} BY <1>4, <3>2 DEF Optional
      <3>3. CASE salt = {""}
        <4>1. "api_key_salt" \in DOMAIN B /\ B["api_key_salt"] = ""
          BY <1>4, <3>3
        <4> QED BY <4>1 DEF Optional
      <3> QED BY <1>7, <3>1, <3>2, <3>3
    <2>2. api = Refused("ConfigurationError")
      BY <2>1 DEF build
    <2>3. api.error = "ConfigurationError"
      <3> HIDE DEF api
      <3> QED BY <2>2, RefusedIs
    <2> HIDE DEF api, salt, url
    <2> QED BY <1>7, <2>3 DEF BuiltAsAsked, api, B, salt, url
  <1>8. CASE ~(url = {} \/ salt \in {{}, {""}})
    <2> DEFINE s == K("api_key_salt")
               u == K("database_url")
    <2>1. /\ "database_url" \in DOMAIN B /\ B["database_url"] = database(u)
          /\ {i \in DOMAIN database(u) : database(u)[i] = Scheme} = {1}
      BY <1>5, <1>8
    <2>2. salt = {s} /\ "api_key_salt" \in DOMAIN B /\ B["api_key_salt"] = s /\ s # ""
      BY <1>4, <1>8
    <2>3. api = core_create(B)
      <3>1. Optional(B, "api_key_salt", "") # ""
        BY <2>2 DEF Optional
      <3> QED BY <1>3, <2>1, <3>1 DEF build, create
    <2>4. /\ api.error = "none" /\ api.database = database(u) /\ api.salt = s
          /\ api.solution_key = Optional(B, "solution_hash_secret", s)
          /\ api.image_key = Optional(B, "image_encryption_secret", s)
          /\ api.migrated = Optional(B, "run_migrations", TRUE)
          /\ api.settings = node_settings(B)
      <3> HIDE DEF api, s, u
      <3> QED BY <2>1, <2>2, <2>3 DEF core_create
    <2> HIDE DEF api
    <2>5. {api.salt} = salt
      BY <2>2, <2>4
    <2>6. {api.solution_key} = Key("solution_hash_secret")
      BY <1>4, <2>2, <2>4 DEF Optional
    <2>7. {api.image_key} = Key("image_encryption_secret")
      BY <1>4, <2>2, <2>4 DEF Optional
    <2>8. Cardinality({i \in DOMAIN api.database : api.database[i] = Scheme}) = 1
      <3>1. {i \in DOMAIN api.database : api.database[i] = Scheme} = {1}
        BY <2>1, <2>4
      <3> QED BY <3>1, FS_Singleton
    <2>9. api.migrated = (FALSE \notin migrate)
      BY <1>4, <2>4 DEF Optional
    <2>10. api.settings = [default.settings EXCEPT !.max_validation_attempts =
                             IF attempts = {} THEN @ ELSE CHOOSE n \in attempts : TRUE]
      <3> DEFINE N == {"default_session_ttl_seconds", "max_session_ttl_seconds",
                       "max_validation_attempts", "captcha_compression"}
                 D == default.settings
                 m == IF attempts = {} THEN D.max_validation_attempts ELSE CHOOSE n \in attempts : TRUE
      <3>1. DOMAIN NodeFallbacks = N
        BY DEF NodeFallbacks
      <3>2. D = [f \in N |-> NodeFallbacks[f]]
        <4>1. D = node_settings(CaptchaConfigDefault)
          BY DEF core_create
        <4>2. \A f \in N : f \in DOMAIN CaptchaConfigDefault /\ CaptchaConfigDefault[f] = NodeFallbacks[f]
          BY DefaultsFallBack
        <4> HIDE DEF D, N
        <4> QED BY <3>1, <4>1, <4>2 DEF node_settings
      <3> HIDE DEF D
      <3>3. api.settings = [f \in N |-> IF f \in DOMAIN B THEN B[f] ELSE NodeFallbacks[f]]
        BY <2>4, <3>1 DEF node_settings
      <3>4. [D EXCEPT !.max_validation_attempts = m]
              = [f \in N |-> IF f = "max_validation_attempts" THEN m ELSE NodeFallbacks[f]]
        <4> HIDE DEF m
        <4> QED BY <3>2
      <3>5. \A f \in N : (IF f \in DOMAIN B THEN B[f] ELSE NodeFallbacks[f])
                           = IF f = "max_validation_attempts" THEN m ELSE NodeFallbacks[f]
        <4>1. ASSUME NEW f \in N, f # "max_validation_attempts" PROVE f \notin DOMAIN B
          BY <1>6, <4>1
        <4>2. CASE attempts = {}
          <5>1. m = NodeFallbacks["max_validation_attempts"]
            BY <3>2, <4>2
          <5>2. "max_validation_attempts" \notin DOMAIN B
            BY <1>4, <4>2
          <5> HIDE DEF m
          <5> QED BY <4>1, <5>1, <5>2
        <4>3. CASE attempts # {}
          <5> DEFINE a == K("max_validation_attempts")
          <5>1. attempts = {a} /\ "max_validation_attempts" \in DOMAIN B
                /\ B["max_validation_attempts"] = a
            BY <1>4, <4>3
          <5> HIDE DEF a
          <5>2. m = a
            BY <4>3, <5>1
          <5> HIDE DEF m
          <5> QED BY <4>1, <5>1, <5>2
        <4> QED BY <4>2, <4>3
      <3>6. api.settings = [D EXCEPT !.max_validation_attempts = m]
        <4> HIDE DEF m, N
        <4> QED BY <3>3, <3>4, <3>5
      <3> QED BY <3>6 DEF D
    <2> HIDE DEF salt, url, attempts, migrate, default, Key
    <2> QED BY <1>8, <2>4, <2>5, <2>6, <2>7, <2>8, <2>9, <2>10
        DEF BuiltAsAsked, api, B, salt, url, attempts, migrate, default, Key
  <1> QED BY <1>7, <1>8

\* What can be asked from outside: a picture of any parameters, lifetimes and
\* limits of any length, any error, any description and change of a key, a
\* request of any route, any calls of a builder, anything taken for a version.
AnythingAsked ==
  /\ Given_("request") => DOMAIN input.request \subseteq DOMAIN Bounds /\ input.compression \in Int
  /\ Given_("lifetime") =>
       {input.now, input.max_ttl, input.default_ttl, input.expires_in} \subseteq Nat
  /\ Given_("error") => input.kind \in DOMAIN HttpErrors
  /\ Given_("key") => KeyAsked
  /\ Given_("routed") => RoutedAsked
  /\ Given_("builder") => BuilderAsked
  /\ Given_("versions") => IsVersion(input.a) /\ IsVersion(input.b) /\ input.loads \in BOOLEAN

\* Requests are judged by what they ask for.
LEMMA RequestsJudged ==
  ASSUME AnythingAsked
  PROVE  RequestsAreJudged
  <1>1. PictureIsTheOneAsked
    <2>1. CASE Given_("request")
      <3>1. DOMAIN input.request \subseteq DOMAIN Bounds
        BY <2>1 DEF AnythingAsked
      <3>2. "expires_in" \notin DOMAIN input.request
        BY <3>1, BoundsAre
      <3> QED BY <2>1, <3>2, AskedFor
    <2>2. CASE ~ Given_("request")
      BY <2>2 DEF PictureIsTheOneAsked
    <2> QED BY <2>1, <2>2
  <1>2. LifetimeIsGranted
    <2>1. CASE Given_("lifetime")
      BY <2>1, LifetimeGranted DEF AnythingAsked
    <2>2. CASE ~ Given_("lifetime")
      BY <2>2 DEF LifetimeIsGranted
    <2> QED BY <2>1, <2>2
  <1>3. CopiesExpire
    <2>1. CASE Given_("lifetime")
      <3>1. {input.now, input.max_ttl, input.expires_in} \subseteq Nat
        BY <2>1 DEF AnythingAsked
      <3> QED BY <2>1, <3>1, CopiesDoExpire
    <2>2. CASE ~ Given_("lifetime")
      BY <2>2 DEF CopiesExpire
    <2> QED BY <2>1, <2>2
  <1>4. NodeJudgesLikeServer
    <2>1. CASE Given_("request")
      BY <2>1, NodeJudgesAlike DEF AnythingAsked
    <2>2. CASE ~ Given_("request")
      BY <2>2 DEF NodeJudgesLikeServer
    <2> QED BY <2>1, <2>2
  <1>5. InternalsStayInside
    <2>1. CASE Given_("error")
      BY <2>1, InternalsInside DEF AnythingAsked
    <2>2. CASE ~ Given_("error")
      BY <2>2 DEF InternalsStayInside
    <2> QED BY <2>1, <2>2
  <1>6. KeysAreDescribed
    <2>1. CASE Given_("key")
      BY <2>1, KeysDescribed DEF AnythingAsked
    <2>2. CASE ~ Given_("key")
      BY <2>2 DEF KeysAreDescribed
    <2> QED BY <2>1, <2>2
  <1> QED BY <1>1, <1>2, <1>3, <1>4, <1>5, <1>6 DEF RequestsAreJudged

\* An instance of the bindings is as it was asked for.
LEMMA InstancesAsked ==
  ASSUME AnythingAsked
  PROVE  InstancesAreAsAsked
  <1>1. BuiltAsAsked
    <2>1. CASE Given_("builder")
      BY <2>1, BuiltAsAskedFor DEF AnythingAsked
    <2>2. CASE ~ Given_("builder")
      BY <2>2 DEF BuiltAsAsked
    <2> QED BY <2>1, <2>2
  <1>2. VersionsAreOrdered
    <2>1. CASE Given_("versions")
      BY <2>1, VersionsOrdered DEF AnythingAsked
    <2>2. CASE ~ Given_("versions")
      BY <2>2 DEF VersionsAreOrdered
    <2> QED BY <2>1, <2>2
  <1> QED BY <1>1, <1>2 DEF InstancesAreAsAsked

\* Whatever is asked, the server and the bindings grant what may be granted to
\* who may have it: a request within the bounds of validation.rs is drawn as it
\* was asked for and lasts as long as it was granted, every route of build_app
\* asks for the credential that is its own and is limited if it is of
\* sessions, and CaptchaApiBuilder makes the instance its last calls ask for.
THEOREM AllRequestsAreAnswered ==
  AnythingAsked => RequestsAreAnswered
  <1> SUFFICES ASSUME AnythingAsked PROVE RequestsAreAnswered
    OBVIOUS
  <1>1. RequestsAreJudged
    BY RequestsJudged
  <1>2. RequestsAreAdmitted
    <2>1. Given_("routed") => RoutedAsked
      BY DEF AnythingAsked
    <2> QED BY <2>1, RequestsAdmitted
  <1>3. InstancesAreAsAsked
    BY InstancesAsked
  <1> QED BY <1>1, <1>2, <1>3 DEF RequestsAreAnswered

-----------------------------------------------------------------------------
(***************************************************************************)
(* Command line.                                                           *)
(***************************************************************************)
\* The pid file's name is taken as it is given.
LEMMA PidFileIs ==
  ASSUME NEW stack
  PROVE  Resolved(stack)["pid_file"] =
           IF "pid_file" \in DOMAIN Given(stack) THEN Given(stack)["pid_file"]
           ELSE PARAMS["pid_file"].default
  <1>1. /\ "pid_file" \in Fields /\ PARAMS["pid_file"].kind = "Str"
        /\ PARAMS["pid_file"].default # Required
    <2>1. ServerParams["pid_file"].kind = "Str" /\ ServerParams["pid_file"].default # Required
      BY DEF ServerParams, Param, Required
    <2> QED BY <2>1, TableAt
  <1>2. "pid_file" \notin Derived
    BY DEF Derived
  <1>3. \A s : Parse("pid_file", s) = s
    BY <1>1 DEF Parse
  <1>4. Resolved(stack)["pid_file"] = FieldFrom(Given(stack), "pid_file")
    BY <1>1 DEF Resolved, from_env_provider
  <1> QED BY <1>1, <1>2, <1>3, <1>4 DEF FieldFrom

\* Who names the pid file, and what it is then, layer by layer.
LEMMA PidFileNamed ==
  ASSUME NEW stack, stack["admin"] = NoLayer, stack["carried"] = NoLayer
  PROVE  /\ source_of(stack, "pid_file") =
              IF "pid_file" \in DOMAIN stack["cli"] THEN "cli"
              ELSE IF "pid_file" \in DOMAIN stack["env"] THEN "env"
              ELSE IF "pid_file" \in DOMAIN stack["stored"] THEN "stored"
              ELSE IF "pid_file" \in DOMAIN stack["env-file"] THEN "env-file"
              ELSE IF "pid_file" \in DOMAIN stack["file"] THEN "file" ELSE "default"
         /\ Resolved(stack)["pid_file"] =
              IF "pid_file" \in DOMAIN stack["cli"] THEN stack["cli"]["pid_file"]
              ELSE IF "pid_file" \in DOMAIN stack["env"] THEN stack["env"]["pid_file"]
              ELSE IF "pid_file" \in DOMAIN stack["stored"] THEN stack["stored"]["pid_file"]
              ELSE IF "pid_file" \in DOMAIN stack["env-file"] THEN stack["env-file"]["pid_file"]
              ELSE IF "pid_file" \in DOMAIN stack["file"] THEN stack["file"]["pid_file"]
              ELSE PARAMS["pid_file"].default
  <1>1. DOMAIN NoLayer = {}
    BY DEF NoLayer
  <1>2. source_of(stack, "pid_file") =
          IF "pid_file" \in DOMAIN stack["cli"] THEN "cli"
          ELSE IF "pid_file" \in DOMAIN stack["env"] THEN "env"
          ELSE IF "pid_file" \in DOMAIN stack["stored"] THEN "stored"
          ELSE IF "pid_file" \in DOMAIN stack["env-file"] THEN "env-file"
          ELSE IF "pid_file" \in DOMAIN stack["file"] THEN "file" ELSE "default"
    BY <1>1, SourceIs
  <1>3. /\ "pid_file" \in DOMAIN Given(stack) <=> source_of(stack, "pid_file") # "default"
        /\ "pid_file" \in DOMAIN Given(stack) =>
             Given(stack)["pid_file"] = stack[source_of(stack, "pid_file")]["pid_file"]
    BY SourceIsWhatAnswers
  <1> QED BY <1>2, <1>3, PidFileIs

\* Two stacks that may differ in what is stored.
SameButStored(stack, other) == \A l \in LayerNames \ {"stored"} : stack[l] = other[l]

\* Reload's walk over the layers of a server that loads its files: the layers
\* are the server's, but for the stored one.
LEMMA ReloadWalks ==
  ASSUME NEW values, NEW given, NEW env, NEW files, NEW secrets, NEW stack,
         given = values \/ given = Put(values, "ignore-stored-config", <<"true">>),
         LayersLoad(FilesOf(given, ValueLayer(given, secrets)), files),
         SameButStored(stack,
                       load_layers(FilesOf(given, ValueLayer(given, secrets)), env, files))
  PROVE  /\ stack["admin"] = NoLayer /\ stack["carried"] = NoLayer
         /\ reload_pid_file(values, env, files) =
              IF "pid_file" \in DOMAIN stack["cli"] THEN stack["cli"]["pid_file"]
              ELSE IF "pid_file" \in DOMAIN stack["env"] THEN stack["env"]["pid_file"]
              ELSE IF "pid_file" \in DOMAIN stack["env-file"] THEN stack["env-file"]["pid_file"]
              ELSE IF "pid_file" \in DOMAIN stack["file"] THEN stack["file"]["pid_file"]
              ELSE PARAMS["pid_file"].default
  <1> DEFINE layer == ValueLayer(given, secrets)
             cli == FilesOf(given, layer)
             bare == FilesOf(values, NoLayer)
             layers == load_layers(bare, env, files)
  <1>1. /\ \A o \in {"pid_file", "config", "env-file", "no-env-file"} :
             o \in DOMAIN given <=> o \in DOMAIN values
        /\ "pid_file" \in DOMAIN values => given["pid_file"] = values["pid_file"]
    BY DEF Put
  <1>2. cli.env_file = bare.env_file /\ cli.config_file = bare.config_file /\ cli.values = layer
    BY <1>1 DEF FilesOf
  <1>3. LayersLoad(bare, files)
    BY <1>2 DEF LayersLoad, EnvFileLoads, ConfigFileLoads
  <1> HIDE DEF cli, bare
  <1>4. /\ stack["cli"] = layer /\ stack["env"] = env
        /\ stack["env-file"] = layers["env-file"] /\ stack["file"] = layers["file"]
        /\ stack["admin"] = NoLayer /\ stack["carried"] = NoLayer
    <2>1. \A l \in LayerNames \ {"stored"} : stack[l] = load_layers(cli, env, files)[l]
      BY DEF cli, SameButStored
    <2> QED BY <2>1, <1>2, LayerNamesAre DEF load_layers
  <1>5. /\ "pid_file" \in DOMAIN layer <=> "pid_file" \in DOMAIN values
        /\ "pid_file" \in DOMAIN values => layer["pid_file"] = values["pid_file"][1]
    <2>1. ServerParams["pid_file"].kind = "Str"
      BY DEF ServerParams, Param
    <2>2. "pid_file" \in Fields /\ PARAMS["pid_file"].kind = "Str"
      BY <2>1, TableAt
    <2> QED BY <2>2, <1>1 DEF ValueLayer
  <1>6. reload_pid_file(values, env, files) =
          IF "pid_file" \in DOMAIN values THEN values["pid_file"][1]
          ELSE IF "pid_file" \in DOMAIN env THEN env["pid_file"]
          ELSE IF "pid_file" \in DOMAIN layers["env-file"] THEN layers["env-file"]["pid_file"]
          ELSE IF "pid_file" \in DOMAIN layers["file"] THEN layers["file"]["pid_file"]
          ELSE PARAMS["pid_file"].default
    BY <1>3 DEF reload_pid_file, bare
  <1> HIDE DEF layers, layer
  <1> QED BY <1>4, <1>5, <1>6

\* ReloadFindsServer: captchapi reload comes to the pid file of its server,
\* unless the store put that elsewhere.
LEMMA ReloadFinds ==
  ASSUME Given_("reload") => "pid" \notin input.options
  PROVE  ReloadFindsServer
  <1> DEFINE values == [o \in input.options |-> <<"path">>]
             secrets == [f \in {"api_key_salt", "master_api_key"} |-> "0123456789abcdef"]
             env == IF input.exported THEN Over([f \in {"pid_file"} |-> "env-var.pid"], secrets)
                    ELSE secrets
             told == IF input.named THEN Put(values, "pid_file", <<"named.pid">>) ELSE values
             given == IF input.ignored THEN Put(told, "ignore-stored-config", <<"true">>) ELSE told
             stack == BootStack(given, env, input.disk, <<>>, input.stored)
             storeless == [stack EXCEPT !["stored"] = NoLayer]
             run == [error |-> FALSE, action |-> "Run", values |-> given]
             verb == [error |-> FALSE, action |-> "Reload", values |-> told]
             pids == {Resolved(stack)["pid_file"]}
  <1> SUFFICES ASSUME Given_("reload"), handle(run, env, input.disk, <<>>, {}) = "serve"
               PROVE  handle(verb, env, input.disk, <<>>, pids) = "signalled"
                        <=> (source_of(stack, "pid_file") = "stored" =>
                               Resolved(storeless)["pid_file"] = Resolved(stack)["pid_file"])
    BY DEF ReloadFindsServer
  <1> HIDE DEF env
  <1>1. "pid" \notin DOMAIN told
    BY DEF Put
  <1>2. given = told \/ given = Put(told, "ignore-stored-config", <<"true">>)
    OBVIOUS
  <1> HIDE DEF told, given
  <1> DEFINE cli == FilesOf(given, ValueLayer(given, <<>>))
             layers == load_layers(cli, env, input.disk)
  <1>3. /\ run.error = FALSE /\ run.action = "Run" /\ run.values = given
        /\ verb.error = FALSE /\ verb.action = "Reload" /\ verb.values = told
    OBVIOUS
  <1> HIDE DEF run, verb
  <1>4. LayersLoad(cli, input.disk)
    BY <1>3 DEF handle, resolve, Failed
  <1> HIDE DEF cli
  <1>5. layers = [l \in LayerNames |-> layers[l]]
    BY DEF load_layers
  <1>6. layers["stored"] = NoLayer /\ layers["admin"] = NoLayer /\ layers["carried"] = NoLayer
    BY LayerNamesAre DEF load_layers
  <1>7. stack = layers \/ stack = Stack(layers, NoLayer, input.stored, NoLayer)
    BY DEF BootStack, cli
  <1> HIDE DEF layers, stack
  <1>8. /\ \A l \in LayerNames \ {"stored"} : stack[l] = layers[l]
        /\ \A l \in LayerNames \ {"stored"} : storeless[l] = layers[l]
        /\ storeless["stored"] = NoLayer
    <2>1. stack = [l \in LayerNames |-> stack[l]]
      BY <1>5, <1>7 DEF Stack
    <2>2. \A l \in LayerNames \ {"stored"} : stack[l] = layers[l]
      BY <1>5, <1>6, <1>7 DEF Stack
    <2> QED BY <2>1, <2>2, LayerNamesAre
  <1> HIDE DEF storeless
  <1> DEFINE found == reload_pid_file(told, env, input.disk)
  <1>9. /\ stack["admin"] = NoLayer /\ stack["carried"] = NoLayer
        /\ found =
             IF "pid_file" \in DOMAIN stack["cli"] THEN stack["cli"]["pid_file"]
             ELSE IF "pid_file" \in DOMAIN stack["env"] THEN stack["env"]["pid_file"]
             ELSE IF "pid_file" \in DOMAIN stack["env-file"] THEN stack["env-file"]["pid_file"]
             ELSE IF "pid_file" \in DOMAIN stack["file"] THEN stack["file"]["pid_file"]
             ELSE PARAMS["pid_file"].default
    <2>1. SameButStored(stack,
                        load_layers(FilesOf(given, ValueLayer(given, <<>>)), env, input.disk))
      BY <1>8 DEF SameButStored, layers, cli
    <2>2. LayersLoad(FilesOf(given, ValueLayer(given, <<>>)), input.disk)
      BY <1>4 DEF cli
    <2> QED BY <1>2, <2>1, <2>2, ReloadWalks
  <1>10. handle(verb, env, input.disk, <<>>, pids) = "signalled" <=> found \in pids
    <2> HIDE DEF pids
    <2> QED BY <1>1, <1>3 DEF handle
  <1> HIDE DEF found
  <1>11. /\ storeless["admin"] = NoLayer /\ storeless["carried"] = NoLayer
         /\ \A l \in {"cli", "env", "env-file", "file"} : storeless[l] = stack[l]
    BY <1>6, <1>8, LayerNamesAre
  <1>12. DOMAIN NoLayer = {}
    BY DEF NoLayer
  <1>13. Resolved(storeless)["pid_file"] = found
    BY <1>8, <1>9, <1>11, <1>12, PidFileNamed
  <1>14. source_of(stack, "pid_file") # "stored" => Resolved(stack)["pid_file"] = found
    BY <1>9, PidFileNamed
  <1> QED BY <1>10, <1>13, <1>14

\* The flags that are not parameters.
BareFlags == {"no-env-file", "ignore-stored-config"}

\* An option that may stand on its own.
StandsAlone(f) == f \in BareFlags \/ (f \in Fields /\ PARAMS[f].kind = "Bool")

\* How an option is read, whichever of the folds of cli.rs it is read in.
Read(state, f) ==
  IF f \in BareFlags THEN ReadFlag(state, f)
  ELSE IF StandsAlone(f) THEN ReadBool(state, f) ELSE ReadValue(state, f)

\* The fold of the community modules, over Read.
Folds(g, base, seq, n) ==
  g = [s \in SUBSET (1 .. n) |-> IF s = {} THEN base ELSE Read(g[s \ {Max(s)}], seq[Max(s)])]

\* The states that options are read through, one after another.
Chain(h, base, seq, n) == h[0] = base /\ \A k \in 1 .. n : h[k] = Read(h[k - 1], seq[k])

\* The largest number of a set of them that holds its bound is the bound.
LEMMA MaxOfBound ==
  ASSUME NEW n \in Nat, NEW s \in SUBSET (1 .. n), n \in s
  PROVE  Max(s) = n
  <1> DEFINE m == Max(s)
  <1>1. m \in s /\ \A j \in s : j <= m
    BY GreatestExists
  <1> HIDE DEF m
  <1>2. m \in 1 .. n /\ n <= m
    BY <1>1
  <1>3. m = n
    BY <1>2
  <1> QED BY <1>3 DEF m

\* One option more to fold over.
LEMMA FoldExtends ==
  ASSUME NEW n \in Nat \ {0}, NEW base, NEW seq, NEW g, Folds(g, base, seq, n - 1)
  PROVE  \E g2 : Folds(g2, base, seq, n)
  <1> DEFINE top == SUBSET (1 .. n)
             low == SUBSET (1 .. n - 1)
             g2 == [s \in top |-> IF n \in s THEN Read(g[s \ {n}], seq[n]) ELSE g[s]]
  <1>1. /\ \A s \in low : s = {} => g[s] = base
        /\ \A s \in low : s # {} => g[s] = Read(g[s \ {Max(s)}], seq[Max(s)])
    BY DEF Folds
  <1>2. low \subseteq top /\ {} \in low /\ \A s \in low : n \notin s
    OBVIOUS
  <1>3. \A s \in top : n \notin s => s \in low
    OBVIOUS
  <1>4. \A s \in top : s \ {n} \in low
    OBVIOUS
  <1>5. /\ g2 = [s \in top |-> g2[s]]
        /\ \A s \in top : g2[s] = IF n \in s THEN Read(g[s \ {n}], seq[n]) ELSE g[s]
    OBVIOUS
  <1> HIDE DEF g2
  <1>6. ASSUME NEW s \in top
        PROVE  g2[s] = IF s = {} THEN base ELSE Read(g2[s \ {Max(s)}], seq[Max(s)])
    <2>1. CASE s = {}
      BY <1>1, <1>2, <1>5, <2>1
    <2>2. CASE n \in s
      <3>1. Max(s) = n
        BY <2>2, MaxOfBound
      <3>2. s \ {n} \in low /\ s \ {n} \in top /\ n \notin s \ {n}
        BY <1>2, <1>4
      <3>3. g2[s \ {n}] = g[s \ {n}]
        <4> DEFINE r == s \ {n}
        <4> HIDE DEF r
        <4> QED BY <1>5, <3>2 DEF r
      <3> QED BY <1>5, <2>2, <3>1, <3>3
    <2>3. CASE s # {} /\ n \notin s
      <3> DEFINE m == Max(s)
      <3>1. s \in low
        BY <1>3, <2>3
      <3>2. g[s] = Read(g[s \ {m}], seq[m])
        BY <1>1, <2>3, <3>1
      <3> HIDE DEF m
      <3> DEFINE r == s \ {m}
      <3>3. r \in low /\ r \in top /\ n \notin r
        BY <1>2, <3>1
      <3> HIDE DEF r
      <3>4. g2[r] = g[r] /\ g2[s] = g[s]
        BY <1>5, <2>3, <3>3
      <3> QED BY <2>3, <3>2, <3>4 DEF m, r
    <2> QED BY <2>1, <2>2, <2>3
  <1>7. g2 = [s \in top |-> IF s = {} THEN base ELSE Read(g2[s \ {Max(s)}], seq[Max(s)])]
    BY <1>5, <1>6
  <1> QED BY <1>7 DEF Folds

\* There is such a function.
LEMMA FoldExists ==
  ASSUME NEW n \in Nat, NEW base, NEW seq
  PROVE  \E g : Folds(g, base, seq, n)
  <1> DEFINE wrong == {m \in Nat : ~ \E g : Folds(g, base, seq, m)}
             least == Min(wrong)
  <1> SUFFICES ASSUME n \in wrong PROVE FALSE
    OBVIOUS
  <1>1. least \in wrong /\ \A j \in wrong : least <= j
    <2>1. wrong \in SUBSET Nat /\ wrong # {}
      OBVIOUS
    <2> HIDE DEF wrong
    <2> QED BY <2>1, LeastExists
  <1> HIDE DEF least
  <1>2. CASE least = 0
    <2> DEFINE none == [s \in SUBSET (1 .. 0) |-> base]
    <2>1. SUBSET (1 .. 0) = {{}}
      OBVIOUS
    <2>2. none = [s \in SUBSET (1 .. 0) |-> IF s = {} THEN base ELSE Read(none[s \ {Max(s)}], seq[Max(s)])]
      BY <2>1
    <2>3. Folds(none, base, seq, 0)
      BY <2>2 DEF Folds
    <2> QED BY <1>1, <1>2, <2>3
  <1>3. CASE least # 0
    <2>1. least \in Nat \ {0} /\ least - 1 \in Nat /\ ~ (least <= least - 1)
      BY <1>1, <1>3
    <2>2. PICK g : Folds(g, base, seq, least - 1)
      BY <1>1, <2>1
    <2>3. \E g2 : Folds(g2, base, seq, least)
      BY <2>1, <2>2, FoldExtends
    <2> QED BY <1>1, <2>3
  <1> QED BY <1>2, <1>3

\* It goes through the options one after another.
LEMMA FoldChains ==
  ASSUME NEW n \in Nat, NEW base, NEW seq, NEW g, Folds(g, base, seq, n)
  PROVE  \E h : Chain(h, base, seq, n) /\ h[n] = g[1 .. n]
  <1> DEFINE h == [k \in 0 .. n |-> g[1 .. k]]
  <1>1. /\ \A s \in SUBSET (1 .. n) : s = {} => g[s] = base
        /\ \A s \in SUBSET (1 .. n) : s # {} => g[s] = Read(g[s \ {Max(s)}], seq[Max(s)])
    BY DEF Folds
  <1>2. h[0] = base /\ h[n] = g[1 .. n]
    <2>1. 1 .. 0 = {} /\ {} \in SUBSET (1 .. n)
      OBVIOUS
    <2>2. h[0] = g[1 .. 0] /\ h[n] = g[1 .. n]
      OBVIOUS
    <2> HIDE DEF h
    <2> QED BY <1>1, <2>1, <2>2
  <1>3. ASSUME NEW k \in 1 .. n PROVE h[k] = Read(h[k - 1], seq[k])
    <2> DEFINE s == 1 .. k
               r == 1 .. k - 1
    <2>1. s \in SUBSET (1 .. n) /\ s # {} /\ s \in SUBSET (1 .. k) /\ k \in s /\ k \in Nat
      OBVIOUS
    <2>2. s \ {k} = r
      OBVIOUS
    <2>3. h[k] = g[s] /\ h[k - 1] = g[r]
      OBVIOUS
    <2> HIDE DEF s, r, h
    <2>4. Max(s) = k
      BY <2>1, MaxOfBound
    <2> QED BY <1>1, <2>1, <2>2, <2>3, <2>4
  <1> HIDE DEF h
  <1> QED BY <1>2, <1>3 DEF Chain

\* Options with a value are read in a chain ...
LEMMA ValuesChain ==
  ASSUME NEW n \in Nat, NEW base, NEW seq, DOMAIN seq = 1 .. n,
         \A i \in 1 .. n : ~ StandsAlone(seq[i])
  PROVE  \E h : Chain(h, base, seq, n) /\ h[n] = FoldLeft(ReadValue, base, seq)
  <1> DEFINE S == DOMAIN seq
             Step(g) == [s \in SUBSET S |-> IF s = {} THEN base
                                            ELSE ReadValue(g[s \ {Max(s)}], seq[Max(s)])]
             folded == CHOOSE g : g = Step(g)
  <1>1. FoldLeft(ReadValue, base, seq) = folded[S]
    BY DEF FoldLeft, MapThenFoldSet
  <1>2. ASSUME NEW g PROVE Folds(g, base, seq, n) <=> g = Step(g)
    <2>1. \A s \in SUBSET S : s # {} =>
            Read(g[s \ {Max(s)}], seq[Max(s)]) = ReadValue(g[s \ {Max(s)}], seq[Max(s)])
      <3> SUFFICES ASSUME NEW s \in SUBSET S, s # {}
                   PROVE  Read(g[s \ {Max(s)}], seq[Max(s)]) = ReadValue(g[s \ {Max(s)}], seq[Max(s)])
        OBVIOUS
      <3>1. Max(s) \in 1 .. n
        BY GreatestExists
      <3>2. ~ StandsAlone(seq[Max(s)])
        BY <3>1
      <3> QED BY <3>2 DEF Read, StandsAlone
    <2>2. S = 1 .. n
      OBVIOUS
    <2> HIDE DEF S
    <2>3. Step(g) = [s \in SUBSET (1 .. n) |-> IF s = {} THEN base ELSE Read(g[s \ {Max(s)}], seq[Max(s)])]
      BY <2>1, <2>2
    <2> HIDE DEF Step
    <2> QED BY <2>3 DEF Folds
  <1>3. PICK g : Folds(g, base, seq, n)
    BY FoldExists
  <1> HIDE DEF Step
  <1>4. folded = Step(folded)
    BY <1>2, <1>3
  <1> HIDE DEF folded
  <1>5. Folds(folded, base, seq, n)
    BY <1>2, <1>4
  <1> QED BY <1>1, <1>5, FoldChains

\* ... flags on their own, too ...
LEMMA FlagsChain ==
  ASSUME NEW n \in Nat, NEW base, NEW seq, DOMAIN seq = 1 .. n,
         \A i \in 1 .. n : seq[i] \in BareFlags
  PROVE  \E h : Chain(h, base, seq, n) /\ h[n] = FoldLeft(ReadFlag, base, seq)
  <1> DEFINE S == DOMAIN seq
             Step(g) == [s \in SUBSET S |-> IF s = {} THEN base
                                            ELSE ReadFlag(g[s \ {Max(s)}], seq[Max(s)])]
             folded == CHOOSE g : g = Step(g)
  <1>1. FoldLeft(ReadFlag, base, seq) = folded[S]
    BY DEF FoldLeft, MapThenFoldSet
  <1>2. ASSUME NEW g PROVE Folds(g, base, seq, n) <=> g = Step(g)
    <2>1. \A s \in SUBSET S : s # {} =>
            Read(g[s \ {Max(s)}], seq[Max(s)]) = ReadFlag(g[s \ {Max(s)}], seq[Max(s)])
      <3> SUFFICES ASSUME NEW s \in SUBSET S, s # {}
                   PROVE  Read(g[s \ {Max(s)}], seq[Max(s)]) = ReadFlag(g[s \ {Max(s)}], seq[Max(s)])
        OBVIOUS
      <3>1. Max(s) \in 1 .. n
        BY GreatestExists
      <3>2. seq[Max(s)] \in BareFlags
        BY <3>1
      <3> QED BY <3>2 DEF Read
    <2>2. S = 1 .. n
      OBVIOUS
    <2> HIDE DEF S
    <2>3. Step(g) = [s \in SUBSET (1 .. n) |-> IF s = {} THEN base ELSE Read(g[s \ {Max(s)}], seq[Max(s)])]
      BY <2>1, <2>2
    <2> HIDE DEF Step
    <2> QED BY <2>3 DEF Folds
  <1>3. PICK g : Folds(g, base, seq, n)
    BY FoldExists
  <1> HIDE DEF Step
  <1>4. folded = Step(folded)
    BY <1>2, <1>3
  <1> HIDE DEF folded
  <1>5. Folds(folded, base, seq, n)
    BY <1>2, <1>4
  <1> QED BY <1>1, <1>5, FoldChains

\* ... and so are parameters.
LEMMA ParamsChain ==
  ASSUME NEW n \in Nat, NEW base, NEW seq, DOMAIN seq = 1 .. n,
         \A i \in 1 .. n : seq[i] \in Fields
  PROVE  \E h : Chain(h, base, seq, n) /\ h[n] = FoldLeft(ReadParam, base, seq)
  <1> DEFINE S == DOMAIN seq
             Step(g) == [s \in SUBSET S |-> IF s = {} THEN base
                                            ELSE ReadParam(g[s \ {Max(s)}], seq[Max(s)])]
             folded == CHOOSE g : g = Step(g)
  <1>1. FoldLeft(ReadParam, base, seq) = folded[S]
    BY DEF FoldLeft, MapThenFoldSet
  <1>2. \A f \in Fields : f \notin BareFlags
    BY TableAt DEF BareFlags
  <1>3. ASSUME NEW g PROVE Folds(g, base, seq, n) <=> g = Step(g)
    <2>1. \A s \in SUBSET S : s # {} =>
            Read(g[s \ {Max(s)}], seq[Max(s)]) = ReadParam(g[s \ {Max(s)}], seq[Max(s)])
      <3> SUFFICES ASSUME NEW s \in SUBSET S, s # {}
                   PROVE  Read(g[s \ {Max(s)}], seq[Max(s)]) = ReadParam(g[s \ {Max(s)}], seq[Max(s)])
        OBVIOUS
      <3>1. Max(s) \in 1 .. n
        BY GreatestExists
      <3>2. seq[Max(s)] \in Fields /\ seq[Max(s)] \notin BareFlags
        BY <1>2, <3>1
      <3> QED BY <3>2 DEF Read, StandsAlone, ReadParam
    <2>2. S = 1 .. n
      OBVIOUS
    <2> HIDE DEF S
    <2>3. Step(g) = [s \in SUBSET (1 .. n) |-> IF s = {} THEN base ELSE Read(g[s \ {Max(s)}], seq[Max(s)])]
      BY <2>1, <2>2
    <2> HIDE DEF Step
    <2> QED BY <2>3 DEF Folds
  <1>4. PICK g : Folds(g, base, seq, n)
    BY FoldExists
  <1> HIDE DEF Step
  <1>5. folded = Step(folded)
    BY <1>3, <1>4
  <1> HIDE DEF folded
  <1>6. Folds(folded, base, seq, n)
    BY <1>3, <1>5
  <1> QED BY <1>1, <1>6, FoldChains

\* The table in its order.
LEMMA ParamOrderIs ==
  /\ DOMAIN ParamOrder = 1 .. 23
  /\ ParamOrder[1] = "server_host" /\ ParamOrder[2] = "server_port" /\ ParamOrder[3] = "pid_file"
  /\ ParamOrder[4] = "database_url" /\ ParamOrder[5] = "database_max_connections"
  /\ ParamOrder[6] = "api_key_salt" /\ ParamOrder[7] = "master_api_key"
  /\ ParamOrder[8] = "solution_hash_secret" /\ ParamOrder[9] = "image_encryption_secret"
  /\ ParamOrder[10] = "default_session_ttl_seconds" /\ ParamOrder[11] = "max_session_ttl_seconds"
  /\ ParamOrder[12] = "max_validation_attempts" /\ ParamOrder[13] = "captcha_compression"
  /\ ParamOrder[14] = "cleanup_interval_seconds"
  /\ ParamOrder[15] = "rate_limit_requests_per_second"
  /\ ParamOrder[16] = "rate_limit_burst_size" /\ ParamOrder[17] = "rate_limit_reverse_proxy"
  /\ ParamOrder[18] = "admin_config_write" /\ ParamOrder[19] = "admin_restart_enabled"
  /\ ParamOrder[20] = "log_level" /\ ParamOrder[21] = "otel_enabled"
  /\ ParamOrder[22] = "otel_endpoint" /\ ParamOrder[23] = "otel_service_name"
  BY DEF ParamOrder

\* Where each option of a line stands in it.
PlaceOf == [server_host |-> 5, server_port |-> 6, pid_file |-> 7, database_url |-> 8,
  database_max_connections |-> 9, api_key_salt |-> 10, master_api_key |-> 11,
  solution_hash_secret |-> 12, image_encryption_secret |-> 13, default_session_ttl_seconds |-> 14,
  max_session_ttl_seconds |-> 15, max_validation_attempts |-> 16, captcha_compression |-> 17,
  cleanup_interval_seconds |-> 18, rate_limit_requests_per_second |-> 19,
  rate_limit_burst_size |-> 20, rate_limit_reverse_proxy |-> 21, admin_config_write |-> 22,
  admin_restart_enabled |-> 23, log_level |-> 24, otel_enabled |-> 25, otel_endpoint |-> 26,
  otel_service_name |-> 27]

\* Every field is in the table once.
LEMMA PlacesAre ==
  /\ \A k \in 1 .. 23 : ParamOrder[k] \in Fields /\ PlaceOf[ParamOrder[k]] = k + 4
  /\ \A f \in Fields : \E k \in 1 .. 23 : ParamOrder[k] = f
  <1>1. /\ PlaceOf["server_host"] = 5 /\ PlaceOf["server_port"] = 6 /\ PlaceOf["pid_file"] = 7
        /\ PlaceOf["database_url"] = 8 /\ PlaceOf["database_max_connections"] = 9
        /\ PlaceOf["api_key_salt"] = 10 /\ PlaceOf["master_api_key"] = 11
        /\ PlaceOf["solution_hash_secret"] = 12 /\ PlaceOf["image_encryption_secret"] = 13
        /\ PlaceOf["default_session_ttl_seconds"] = 14 /\ PlaceOf["max_session_ttl_seconds"] = 15
        /\ PlaceOf["max_validation_attempts"] = 16 /\ PlaceOf["captcha_compression"] = 17
        /\ PlaceOf["cleanup_interval_seconds"] = 18
        /\ PlaceOf["rate_limit_requests_per_second"] = 19
        /\ PlaceOf["rate_limit_burst_size"] = 20 /\ PlaceOf["rate_limit_reverse_proxy"] = 21
        /\ PlaceOf["admin_config_write"] = 22 /\ PlaceOf["admin_restart_enabled"] = 23
        /\ PlaceOf["log_level"] = 24 /\ PlaceOf["otel_enabled"] = 25
        /\ PlaceOf["otel_endpoint"] = 26 /\ PlaceOf["otel_service_name"] = 27
    BY DEF PlaceOf
  <1>2. \A k \in 1 .. 23 :
          \/ k = 1 \/ k = 2 \/ k = 3 \/ k = 4 \/ k = 5 \/ k = 6 \/ k = 7 \/ k = 8 \/ k = 9
          \/ k = 10 \/ k = 11 \/ k = 12 \/ k = 13 \/ k = 14 \/ k = 15 \/ k = 16 \/ k = 17
          \/ k = 18 \/ k = 19 \/ k = 20 \/ k = 21 \/ k = 22 \/ k = 23
    OBVIOUS
  <1>3. \A k \in 1 .. 23 : ParamOrder[k] \in Fields
    BY <1>2, ParamOrderIs, TableAt
  <1>4. \A k \in 1 .. 23 : PlaceOf[ParamOrder[k]] = k + 4
    BY <1>1, <1>2, ParamOrderIs
  <1>5. \A f \in Fields : \E k \in 1 .. 23 : ParamOrder[k] = f
    BY ParamOrderIs, TableAt
  <1> QED BY <1>3, <1>4, <1>5

\* The options of a line that starts a server or looks after its settings.
SharedNames == [k \in 1 .. 27 |->
  IF k = 1 THEN "config" ELSE IF k = 2 THEN "env-file" ELSE IF k = 3 THEN "no-env-file"
  ELSE IF k = 4 THEN "ignore-stored-config" ELSE ParamOrder[k - 4]]

\* Those of a reload.
ReloadNames == <<"pid", "pid_file", "config", "env-file", "no-env-file">>

\* No option is read twice, field is none of them, and help and the version
\* are not either.
NamesAre(names, n) ==
  /\ \A i, j \in 1 .. n : names[i] = names[j] => i = j
  /\ \A i \in 1 .. n : names[i] # "field"

\* The other options are no fields.
LEMMA FieldsAreNot ==
  \A f \in Fields : f \notin {"config", "env-file", "no-env-file", "ignore-stored-config", "pid", "field"}
  BY TableAt

\* They are read once each, and all of a server are among them.
LEMMA SharedNamesAre ==
  /\ NamesAre(SharedNames, 27)
  /\ \A f \in Fields \union BareFlags \union {"config", "env-file"} :
       \E k \in 1 .. 27 : SharedNames[k] = f
  <1>1. /\ SharedNames[1] = "config" /\ SharedNames[2] = "env-file"
        /\ SharedNames[3] = "no-env-file" /\ SharedNames[4] = "ignore-stored-config"
        /\ \A k \in 5 .. 27 : SharedNames[k] = ParamOrder[k - 4] /\ k - 4 \in 1 .. 23
    BY DEF SharedNames
  <1>2. \A k \in 1 .. 23 : k + 4 \in 5 .. 27 /\ SharedNames[k + 4] = ParamOrder[k]
    BY <1>1
  <1>3. \A k \in 5 .. 27 : SharedNames[k] \in Fields /\ PlaceOf[SharedNames[k]] = k
    BY <1>1, PlacesAre
  <1>4. \A k \in 1 .. 27 : k \in 5 .. 27 \/ k = 1 \/ k = 2 \/ k = 3 \/ k = 4
    OBVIOUS
  <1>5. 5 .. 27 \subseteq 1 .. 27
    OBVIOUS
  <1>6. ASSUME NEW i \in 1 .. 27, NEW j \in 1 .. 27, SharedNames[i] = SharedNames[j]
        PROVE  i = j
    BY <1>1, <1>3, <1>4, <1>6, FieldsAreNot
  <1>7. \A i \in 1 .. 27 : SharedNames[i] # "field"
    BY <1>1, <1>3, <1>4, FieldsAreNot
  <1>8. ASSUME NEW f \in Fields \union BareFlags \union {"config", "env-file"}
        PROVE  \E k \in 1 .. 27 : SharedNames[k] = f
    <2>1. CASE f \in Fields
      <3>1. PICK k \in 1 .. 23 : ParamOrder[k] = f
        BY <2>1, PlacesAre
      <3> QED BY <1>2, <1>5, <3>1
    <2>2. CASE f \notin Fields
      <3>1. f = "config" \/ f = "env-file" \/ f = "no-env-file" \/ f = "ignore-stored-config"
        BY <2>2 DEF BareFlags
      <3>2. 1 \in 1 .. 27 /\ 2 \in 1 .. 27 /\ 3 \in 1 .. 27 /\ 4 \in 1 .. 27
        OBVIOUS
      <3> QED BY <1>1, <3>1, <3>2
    <2> QED BY <2>1, <2>2
  <1> QED BY <1>6, <1>7, <1>8 DEF NamesAre

\* So are those of a reload.
LEMMA ReloadNamesAre == NamesAre(ReloadNames, 5)
  <1>1. /\ ReloadNames[1] = "pid" /\ ReloadNames[2] = "pid_file" /\ ReloadNames[3] = "config"
        /\ ReloadNames[4] = "env-file" /\ ReloadNames[5] = "no-env-file"
    BY DEF ReloadNames
  <1>2. \A i \in 1 .. 5 : i = 1 \/ i = 2 \/ i = 3 \/ i = 4 \/ i = 5
    OBVIOUS
  <1> QED BY <1>1, <1>2 DEF NamesAre

\* Nothing read yet.
Unread(args) == [error |-> FALSE, rest |-> args, values |-> [f \in {} |-> <<>>]]

\* What stands on its own, of what is not a field.
LEMMA AloneIs ==
  /\ ~ StandsAlone("config") /\ ~ StandsAlone("env-file") /\ ~ StandsAlone("pid")
  /\ ~ StandsAlone("pid_file") /\ "no-env-file" \in BareFlags /\ "ignore-stored-config" \in BareFlags
  <1>1. ServerParams["pid_file"].kind = "Str"
    BY DEF ServerParams, Param
  <1>2. PARAMS["pid_file"].kind # "Bool"
    BY <1>1, TableAt
  <1> QED BY <1>2, FieldsAreNot, TableAt DEF StandsAlone, BareFlags

\* A line is read in a chain.
LEMMA SharedChain ==
  ASSUME NEW args
  PROVE  \E h : Chain(h, Unread(args), SharedNames, 27) /\ parse_shared(args) = finish(h[27])
  <1> DEFINE base == Unread(args)
             first == <<"config", "env-file">>
             second == <<"no-env-file", "ignore-stored-config">>
             files == FoldLeft(ReadValue, base, first)
             flags == FoldLeft(ReadFlag, files, second)
             all == FoldLeft(ReadParam, flags, ParamOrder)
  <1>1. parse_shared(args) = finish(all)
    BY DEF parse_shared, Unread
  <1> HIDE DEF base
  <1>2. /\ DOMAIN first = 1 .. 2 /\ first[1] = "config" /\ first[2] = "env-file"
        /\ DOMAIN second = 1 .. 2 /\ second[1] = "no-env-file" /\ second[2] = "ignore-stored-config"
        /\ 1 \in 1 .. 2 /\ 2 \in 1 .. 2 /\ 2 - 1 = 1 /\ 1 - 1 = 0 /\ 2 \in Nat
        /\ \A i \in 1 .. 2 : i = 1 \/ i = 2
    OBVIOUS
  <1>3. PICK a : Chain(a, base, first, 2) /\ a[2] = files
    <2> HIDE DEF first
    <2>1. \A i \in 1 .. 2 : ~ StandsAlone(first[i])
      BY <1>2, AloneIs
    <2> QED BY <1>2, <2>1, ValuesChain
  <1> HIDE DEF files
  <1>4. PICK b : Chain(b, files, second, 2) /\ b[2] = flags
    <2> HIDE DEF second
    <2>1. \A i \in 1 .. 2 : second[i] \in BareFlags
      BY <1>2, AloneIs
    <2> QED BY <1>2, <2>1, FlagsChain
  <1> HIDE DEF flags
  <1>5. PICK c : Chain(c, flags, ParamOrder, 23) /\ c[23] = all
    <2>1. 23 \in Nat
      OBVIOUS
    <2>2. DOMAIN ParamOrder = 1 .. 23
      BY ParamOrderIs
    <2>3. \A i \in 1 .. 23 : ParamOrder[i] \in Fields
      BY PlacesAre
    <2> QED BY <2>1, <2>2, <2>3, ParamsChain
  <1> HIDE DEF all, first, second
  <1>6. /\ a[0] = base /\ a[1] = Read(a[0], "config") /\ files = Read(a[1], "env-file")
        /\ b[0] = files /\ b[1] = Read(b[0], "no-env-file")
        /\ flags = Read(b[1], "ignore-stored-config")
    BY <1>2, <1>3, <1>4 DEF Chain
  <1>7. c[0] = flags /\ \A k \in 1 .. 23 : c[k] = Read(c[k - 1], ParamOrder[k])
    BY <1>5 DEF Chain
  <1> DEFINE h == [k \in 0 .. 27 |-> IF k = 0 THEN base ELSE IF k = 1 THEN a[1] ELSE IF k = 2 THEN files
                                     ELSE IF k = 3 THEN b[1] ELSE c[k - 4]]
  <1>8. /\ h[0] = base /\ h[1] = a[1] /\ h[2] = files /\ h[3] = b[1] /\ h[4] = c[0] /\ h[27] = c[23]
        /\ \A k \in 5 .. 27 : h[k] = c[k - 4] /\ h[k - 1] = c[(k - 4) - 1] /\ k - 4 \in 1 .. 23
    OBVIOUS
  <1>9. /\ SharedNames[1] = "config" /\ SharedNames[2] = "env-file"
        /\ SharedNames[3] = "no-env-file" /\ SharedNames[4] = "ignore-stored-config"
        /\ \A k \in 5 .. 27 : SharedNames[k] = ParamOrder[k - 4]
    BY DEF SharedNames
  <1> HIDE DEF h
  <1>10. ASSUME NEW k \in 1 .. 27 PROVE h[k] = Read(h[k - 1], SharedNames[k])
    <2>1. CASE k \in 5 .. 27
      BY <1>7, <1>8, <1>9, <2>1
    <2>2. CASE k \notin 5 .. 27
      <3>1. k = 1 \/ k = 2 \/ k = 3 \/ k = 4
        BY <2>2
      <3>2. 1 - 1 = 0 /\ 2 - 1 = 1 /\ 3 - 1 = 2 /\ 4 - 1 = 3
        OBVIOUS
      <3> QED BY <1>6, <1>7, <1>8, <1>9, <3>1, <3>2
    <2> QED BY <2>1, <2>2
  <1>11. Chain(h, base, SharedNames, 27)
    BY <1>8, <1>10 DEF Chain
  <1>12. h[27] = all
    BY <1>5, <1>8
  <1> QED BY <1>1, <1>11, <1>12 DEF base

\* Reading makes no other record of a state.
LEMMA ReadKeeps ==
  ASSUME NEW s, NEW f
  PROVE  DOMAIN Read(s, f) = DOMAIN s
  <1>1. DOMAIN ReadFlag(s, f) = DOMAIN s
    BY DEF ReadFlag
  <1>2. DOMAIN ReadValue(s, f) = DOMAIN s
    <2> DEFINE r == opt_value_from_str(s.rest, f)
    <2>1. ReadValue(s, f) = IF s.error THEN s
                            ELSE IF r.error THEN [s EXCEPT !.error = TRUE]
                            ELSE IF r.found THEN [s EXCEPT !.rest = r.rest, !.values = Put(@, f, r.value)]
                            ELSE s
      BY DEF ReadValue
    <2> HIDE DEF r
    <2> QED BY <2>1
  <1>3. \A q : DOMAIN CheckBool(q, f) = DOMAIN q
    BY DEF CheckBool
  <1>4. DOMAIN ReadBool(s, f) = DOMAIN s
    BY <1>1, <1>2, <1>3 DEF ReadBool
  <1> QED BY <1>1, <1>2, <1>4 DEF Read

\* A reload is read in one, too.
LEMMA ReloadChain ==
  ASSUME NEW args
  PROVE  \E h : /\ Chain(h, Unread(args), ReloadNames, 5)
                /\ ~ parse_reload(args).error => parse_reload(args) = finish(h[5])
  <1> DEFINE base == Unread(args)
             first == <<"pid", "pid_file", "config", "env-file">>
             files == FoldLeft(ReadValue, base, first)
             last == ReadFlag(files, "no-env-file")
             read == finish(last)
  <1>1. parse_reload(args) = IF {"pid", "pid_file"} \subseteq DOMAIN read.values
                             THEN [read EXCEPT !.error = TRUE] ELSE read
    BY DEF parse_reload, Unread
  <1>2. "error" \in DOMAIN base
    BY DEF Unread
  <1> HIDE DEF base
  <1>3. /\ DOMAIN first = 1 .. 4 /\ first[1] = "pid" /\ first[2] = "pid_file"
        /\ first[3] = "config" /\ first[4] = "env-file" /\ 4 \in Nat
        /\ \A i \in 1 .. 4 : i = 1 \/ i = 2 \/ i = 3 \/ i = 4
    OBVIOUS
  <1>4. PICK a : Chain(a, base, first, 4) /\ a[4] = files
    <2> HIDE DEF first
    <2>1. \A i \in 1 .. 4 : ~ StandsAlone(first[i])
      BY <1>3, AloneIs
    <2> QED BY <1>3, <2>1, ValuesChain
  <1> HIDE DEF files
  <1>5. last = Read(a[4], "no-env-file")
    BY <1>4, AloneIs DEF Read
  <1> HIDE DEF first, last
  <1>6. a[0] = base /\ \A k \in 1 .. 4 : a[k] = Read(a[k - 1], first[k])
    BY <1>4 DEF Chain
  <1>7. /\ a[1] = Read(base, "pid") /\ a[2] = Read(a[1], "pid_file")
        /\ a[3] = Read(a[2], "config") /\ a[4] = Read(a[3], "env-file")
    <2>1. /\ 1 \in 1 .. 4 /\ 2 \in 1 .. 4 /\ 3 \in 1 .. 4 /\ 4 \in 1 .. 4
          /\ 1 - 1 = 0 /\ 2 - 1 = 1 /\ 3 - 1 = 2 /\ 4 - 1 = 3
      OBVIOUS
    <2> QED BY <1>3, <1>6, <2>1
  <1>8. "error" \in DOMAIN last
    BY <1>2, <1>5, <1>7, ReadKeeps
  <1>9. "error" \in DOMAIN read
    BY <1>8 DEF finish
  <1> HIDE DEF read
  <1>10. ~ parse_reload(args).error => parse_reload(args) = read
    <2>1. [read EXCEPT !.error = TRUE].error
      BY <1>9
    <2> QED BY <1>1, <2>1
  <1> DEFINE h == [k \in 0 .. 5 |-> IF k = 0 THEN base ELSE IF k = 5 THEN last ELSE a[k]]
  <1>11. /\ h[0] = base /\ h[1] = a[1] /\ h[2] = a[2] /\ h[3] = a[3] /\ h[4] = a[4] /\ h[5] = last
    OBVIOUS
  <1> HIDE DEF h
  <1>12. /\ ReloadNames[1] = "pid" /\ ReloadNames[2] = "pid_file" /\ ReloadNames[3] = "config"
         /\ ReloadNames[4] = "env-file" /\ ReloadNames[5] = "no-env-file"
    BY DEF ReloadNames
  <1>13. ASSUME NEW k \in 1 .. 5 PROVE h[k] = Read(h[k - 1], ReloadNames[k])
    <2>1. k = 1 \/ k = 2 \/ k = 3 \/ k = 4 \/ k = 5
      OBVIOUS
    <2>2. 1 - 1 = 0 /\ 2 - 1 = 1 /\ 3 - 1 = 2 /\ 4 - 1 = 3 /\ 5 - 1 = 4
      OBVIOUS
    <2> QED BY <1>5, <1>7, <1>11, <1>12, <2>1, <2>2
  <1>14. Chain(h, base, ReloadNames, 5)
    BY <1>11, <1>13 DEF Chain
  <1> QED BY <1>10, <1>11, <1>14 DEF base, read

\* The options of a line that starts a server.
ServerOptions == Fields \union BareFlags \union {"config", "env-file"}

\* What arguments are made of: strings, those that the program knows among them.
AnyText == STRING \union ServerOptions \union {"-", "--"}

\* Command lines: an argument is a word, a flag, or a flag with its value.
Lines == Seq(Seq(AnyText))

\* How often an argument is given.
Times(s, e) == Cardinality({i \in DOMAIN s : s[i] = e})

\* A line without one of its arguments.
LeftOut(s, i, r) ==
  /\ r \in Lines /\ Len(r) = Len(s) - 1
  /\ \A j \in 1 .. Len(r) : r[j] = IF j < i THEN s[j] ELSE s[j + 1]

\* RemoveAt leaves one argument out.
LEMMA RemovedIs ==
  ASSUME NEW s \in Lines, NEW i \in 1 .. Len(s)
  PROVE  LeftOut(s, i, RemoveAt(s, i))
  <1> DEFINE T == Seq(AnyText)
             left == SubSeq(s, 1, i - 1)
             right == SubSeq(s, i + 1, Len(s))
             n == Len(s)
  <1>1. s \in Seq(T) /\ n \in Nat /\ i \in 1 .. n
    BY DEF Lines
  <1> HIDE DEF T
  <1>2. /\ left \in Seq(T) /\ Len(left) = i - 1
        /\ \A j \in 1 .. i - 1 : left[j] = s[j]
    BY <1>1
  <1>3. /\ right \in Seq(T) /\ Len(right) = n - i
        /\ \A j \in 1 .. n - i : right[j] = s[i + j]
    BY <1>1
  <1> DEFINE r == RemoveAt(s, i)
  <1>4. r = left \o right
    BY DEF RemoveAt
  <1> HIDE DEF left, right, r, n
  <1>5. /\ r \in Seq(T) /\ Len(r) = n - 1
        /\ \A j \in 1 .. n - 1 : r[j] = IF j <= i - 1 THEN left[j] ELSE right[j - (i - 1)]
    BY <1>1, <1>2, <1>3, <1>4
  <1>6. ASSUME NEW j \in 1 .. n - 1 PROVE r[j] = IF j < i THEN s[j] ELSE s[j + 1]
    <2>1. CASE j < i
      BY <1>1, <1>2, <1>5, <2>1
    <2>2. CASE ~ (j < i)
      <3>1. j - (i - 1) \in 1 .. n - i /\ i + (j - (i - 1)) = j + 1 /\ ~ (j <= i - 1)
        BY <1>1, <2>2
      <3> QED BY <1>3, <1>5, <2>2, <3>1
    <2> QED BY <2>1, <2>2
  <1> QED BY <1>5, <1>6 DEF LeftOut, T, n, r, Lines

\* An argument that is left out is given once less, and no other.
LEMMA TimesWithout ==
  ASSUME NEW s \in Lines, NEW i \in 1 .. Len(s), NEW r, LeftOut(s, i, r), NEW e
  PROVE  /\ Times(s, e) \in Nat /\ Times(r, e) \in Nat
         /\ Times(s, e) = Times(r, e) + (IF s[i] = e THEN 1 ELSE 0)
  <1> DEFINE n == Len(s)
             here == {j \in DOMAIN s : s[j] = e}
             there == {j \in DOMAIN r : r[j] = e}
             others == here \ {i}
             move == [j \in there |-> IF j < i THEN j ELSE j + 1]
  <1>1. /\ n \in Nat /\ i \in 1 .. n /\ DOMAIN s = 1 .. n /\ DOMAIN r = 1 .. n - 1
        /\ \A j \in 1 .. n - 1 : r[j] = IF j < i THEN s[j] ELSE s[j + 1]
    BY DEF LeftOut, Lines
  <1>2. Times(s, e) = Cardinality(here) /\ Times(r, e) = Cardinality(there)
    BY DEF Times
  <1> HIDE DEF n
  <1>3. IsFiniteSet(here) /\ IsFiniteSet(there)
    <2>1. IsFiniteSet(1 .. n) /\ IsFiniteSet(1 .. n - 1)
      BY <1>1, FS_Interval
    <2>2. here \in SUBSET (1 .. n) /\ there \in SUBSET (1 .. n - 1)
      BY <1>1
    <2> HIDE DEF here, there
    <2> QED BY <2>1, <2>2, FS_Subset
  <1>4. move \in Bijection(there, others)
    <2>1. \A j \in there : move[j] \in others
      <3> SUFFICES ASSUME NEW j \in there PROVE move[j] \in others
        OBVIOUS
      <3>1. j \in 1 .. n - 1 /\ r[j] = e
        BY <1>1
      <3>2. CASE j < i
        <4>1. j \in 1 .. n /\ s[j] = e /\ move[j] = j /\ j # i
          BY <1>1, <3>1, <3>2
        <4> QED BY <1>1, <4>1
      <3>3. CASE ~ (j < i)
        <4>1. j + 1 \in 1 .. n /\ s[j + 1] = e /\ move[j] = j + 1 /\ j + 1 # i
          BY <1>1, <3>1, <3>3
        <4> QED BY <1>1, <4>1
      <3> QED BY <3>2, <3>3
    <2>2. \A j, k \in there : move[j] = move[k] => j = k
      <3> SUFFICES ASSUME NEW j \in there, NEW k \in there, move[j] = move[k] PROVE j = k
        OBVIOUS
      <3>1. j \in Int /\ k \in Int /\ i \in Int
        BY <1>1
      <3>2. /\ move[j] = (IF j < i THEN j ELSE j + 1)
            /\ move[k] = (IF k < i THEN k ELSE k + 1)
        OBVIOUS
      <3> DEFINE a == move[j]
                 b == move[k]
      <3>3. /\ a = (IF j < i THEN j ELSE j + 1)
            /\ b = (IF k < i THEN k ELSE k + 1) /\ a = b
        BY <3>2
      <3> HIDE DEF a, b
      <3> QED BY <3>1, <3>3
    <2>3. \A j \in others : \E k \in there : move[k] = j
      <3> SUFFICES ASSUME NEW j \in others PROVE \E k \in there : move[k] = j
        OBVIOUS
      <3>1. j \in 1 .. n /\ s[j] = e /\ j # i
        BY <1>1
      <3>2. CASE j < i
        <4>1. j \in 1 .. n - 1 /\ r[j] = e
          BY <1>1, <3>1, <3>2
        <4>2. j \in there
          BY <1>1, <4>1
        <4> QED BY <3>2, <4>2
      <3>3. CASE ~ (j < i)
        <4> DEFINE k == j - 1
        <4>1. k \in 1 .. n - 1 /\ r[k] = e /\ ~ (k < i) /\ k + 1 = j
          BY <1>1, <3>1, <3>3
        <4>2. k \in there
          BY <1>1, <4>1
        <4>3. move[k] = k + 1
          BY <4>1, <4>2
        <4> QED BY <4>1, <4>2, <4>3
      <3> QED BY <3>2, <3>3
    <2>4. move \in [there -> others]
      BY <2>1
    <2> HIDE DEF move, there, others
    <2> QED BY <2>2, <2>3, <2>4 DEF Bijection, Injection, Surjection, IsInjective
  <1> HIDE DEF move, there
  <1>5. Cardinality(others) = Cardinality(there)
    <2> HIDE DEF others
    <2>1. ExistsBijection(there, others)
      BY <1>4 DEF ExistsBijection
    <2> QED BY <1>3, <2>1, FS_Bijection
  <1>6. Cardinality(others) = IF i \in here THEN Cardinality(here) - 1 ELSE Cardinality(here)
    <2> HIDE DEF here
    <2> QED BY <1>3, FS_RemoveElement
  <1>7. i \in here <=> s[i] = e
    BY <1>1
  <1> HIDE DEF here, others
  <1>8. Cardinality(here) \in Nat /\ Cardinality(there) \in Nat
    BY <1>3, FS_CardinalityType
  <1>9. CASE s[i] = e
    BY <1>2, <1>5, <1>6, <1>7, <1>8, <1>9
  <1>10. CASE s[i] # e
    BY <1>2, <1>5, <1>6, <1>7, <1>8, <1>10
  <1> QED BY <1>9, <1>10

\* A state that options are read in.
Reading(s) ==
  /\ s = [error |-> s.error, rest |-> s.rest, values |-> s.values]
  /\ s.rest \in Lines

\* An option is read as a flag on its own ...
ByFlag(s, t, f) ==
  /\ StandsAlone(f)
  /\ \E b \in 1 .. Len(s.rest) : Len(s.rest[b]) = 2 /\ t.rest = RemoveAt(s.rest, b)
  /\ t.values = Put(s.values, f, <<"true">>)

\* ... with the argument after it ...
ByWord(s, t, f) ==
  /\ ~ StandsAlone(f)
  /\ \E b \in 1 .. Len(s.rest) - 1 :
       /\ Len(s.rest[b]) = 2 /\ t.rest = RemoveAt(RemoveAt(s.rest, b), b)
       /\ t.values = Put(s.values, f, s.rest[b + 1])

\* ... or with the value in it.
ByEqual(s, t, f) ==
  \E b \in 1 .. Len(s.rest) :
    /\ s.rest[b] = <<"--", f, s.rest[b][3]>> /\ t.rest = RemoveAt(s.rest, b)
    /\ t.values = Put(s.values, f, <<s.rest[b][3]>>)

\* Where a flag is found.
LEMMA FirstIndexIs ==
  ASSUME NEW hits \in SUBSET (Nat \ {0}), FirstIndex(hits) # 0
  PROVE  FirstIndex(hits) \in hits
  <1>1. hits # {}
    BY DEF FirstIndex
  <1>2. \E i \in hits : \A j \in hits : i <= j
    <2>1. hits \in SUBSET Nat
      OBVIOUS
    <2> QED BY <1>1, <2>1, LeastExists
  <1> QED BY <1>1, <1>2 DEF FirstIndex

\* Where a flag without its value stands.
LEMMA BareIndexIs ==
  ASSUME NEW args \in Lines, NEW f, BareIndex(args, f) # 0
  PROVE  BareIndex(args, f) \in 1 .. Len(args) /\ Len(args[BareIndex(args, f)]) = 2
  <1> DEFINE S == {i \in DOMAIN args : f \in Shorts /\ args[i] = <<"-", f>>}
             L == {i \in DOMAIN args : args[i] = <<"--", f>>}
  <1>1. DOMAIN args = 1 .. Len(args) /\ Len(args) \in Nat
    BY DEF Lines
  <1>2. S \in SUBSET (Nat \ {0}) /\ L \in SUBSET (Nat \ {0})
    BY <1>1
  <1>3. /\ \A i \in S : i \in 1 .. Len(args) /\ Len(args[i]) = 2
        /\ \A i \in L : i \in 1 .. Len(args) /\ Len(args[i]) = 2
    BY <1>1
  <1>4. BareIndex(args, f) = IF FirstIndex(S) # 0 THEN FirstIndex(S) ELSE FirstIndex(L)
    BY DEF BareIndex
  <1> HIDE DEF S, L
  <1> QED BY <1>2, <1>3, <1>4, FirstIndexIs

\* Where a flag with its value stands.
LEMMA EqualIndexIs ==
  ASSUME NEW args \in Lines, NEW f, EqualIndex(args, f) # 0
  PROVE  /\ EqualIndex(args, f) \in 1 .. Len(args)
         /\ args[EqualIndex(args, f)] = <<"--", f, args[EqualIndex(args, f)][3]>>
  <1> DEFINE E == {i \in DOMAIN args : Len(args[i]) = 3 /\ args[i][1] = "--" /\ args[i][2] = f}
             k == EqualIndex(args, f)
             a == args[k]
  <1>1. DOMAIN args = 1 .. Len(args) /\ Len(args) \in Nat /\ \A i \in 1 .. Len(args) : args[i] \in Seq(AnyText)
    BY DEF Lines
  <1>2. E \in SUBSET (Nat \ {0})
    BY <1>1
  <1>3. k \in E
    <2>1. k = FirstIndex(E)
      BY DEF EqualIndex
    <2> HIDE DEF E, k
    <2> QED BY <1>2, <2>1, FirstIndexIs DEF k
  <1> HIDE DEF k
  <1>4. k \in 1 .. Len(args) /\ Len(a) = 3 /\ a[1] = "--" /\ a[2] = f /\ a \in Seq(AnyText)
    BY <1>1, <1>3
  <1> HIDE DEF a
  <1>5. a = <<"--", f, a[3]>>
    BY <1>4
  <1> QED BY <1>4, <1>5 DEF k, a

\* Reading a flag.
LEMMA ReadFlagIs ==
  ASSUME NEW s, Reading(s), ~ s.error, NEW f, StandsAlone(f)
  PROVE  /\ Reading(ReadFlag(s, f)) /\ ReadFlag(s, f).error = s.error
         /\ IF contains(s.rest, f) THEN ByFlag(s, ReadFlag(s, f), f) ELSE ReadFlag(s, f) = s
  <1> DEFINE b == BareIndex(s.rest, f)
             left == RemoveAt(s.rest, b)
             put == Put(s.values, f, <<"true">>)
             t == [error |-> s.error, rest |-> left, values |-> put]
  <1>1. CASE ~ contains(s.rest, f)
    BY <1>1 DEF ReadFlag
  <1>2. CASE contains(s.rest, f)
    <2>1. s.rest \in Lines /\ s = [error |-> s.error, rest |-> s.rest, values |-> s.values]
      BY DEF Reading
    <2>2. b \in 1 .. Len(s.rest) /\ Len(s.rest[b]) = 2
      BY <1>2, <2>1, BareIndexIs DEF contains
    <2>3. left \in Lines
      BY <2>1, <2>2, RemovedIs DEF LeftOut
    <2>4. ReadFlag(s, f) = t
      <3>1. WithoutFlag(s.rest, f) = left
        BY <1>2 DEF WithoutFlag
      <3>2. ReadFlag(s, f) = [s EXCEPT !.rest = left, !.values = put]
        BY <1>2, <3>1 DEF ReadFlag
      <3> HIDE DEF left, put
      <3> QED BY <2>1, <3>2
    <2>5. Reading(t) /\ ByFlag(s, t, f)
      <3> HIDE DEF b, put
      <3>1. t.rest = left /\ t.values = put
        OBVIOUS
      <3> HIDE DEF t
      <3>2. t = [error |-> t.error, rest |-> t.rest, values |-> t.values]
        BY DEF t
      <3> QED BY <2>2, <2>3, <3>1, <3>2 DEF Reading, ByFlag, put
    <2> QED BY <1>2, <2>4, <2>5
  <1> QED BY <1>1, <1>2

\* Reading an option with a value.
LEMMA ReadValueIs ==
  ASSUME NEW s, Reading(s), ~ s.error, NEW f, ~ ReadValue(s, f).error
  PROVE  /\ Reading(ReadValue(s, f))
         /\ \/ ReadValue(s, f) = s
            \/ ByEqual(s, ReadValue(s, f), f)
            \/ StandsAlone(f) /\ contains(s.rest, f)
            \/ ByWord(s, ReadValue(s, f), f)
  <1> DEFINE rest == s.rest
             n == Len(rest)
             bare == BareIndex(rest, f)
             equal == EqualIndex(rest, f)
             r == opt_value_from_str(rest, f)
             t == ReadValue(s, f)
  <1>1. /\ rest \in Lines /\ s = [error |-> s.error, rest |-> rest, values |-> s.values] /\ n \in Nat
    BY DEF Reading, Lines
  <1>2. /\ t = IF r.error THEN [s EXCEPT !.error = TRUE]
               ELSE IF r.found THEN [s EXCEPT !.rest = r.rest, !.values = Put(s.values, f, r.value)]
               ELSE s
    BY DEF ReadValue
  <1>3. ~ r.error
    <2>1. r.error => [s EXCEPT !.error = TRUE].error
      BY <1>1
    <2> QED BY <1>2, <2>1
  <1>4. CASE ~ r.found
    BY <1>2, <1>3, <1>4
  <1>5. CASE r.found
    <2>1. t = [error |-> s.error, rest |-> r.rest, values |-> Put(s.values, f, r.value)]
      <3> DEFINE put == Put(s.values, f, r.value)
      <3>1. t = [s EXCEPT !.rest = r.rest, !.values = put]
        BY <1>2, <1>3, <1>5
      <3> HIDE DEF put, t, r
      <3> QED BY <1>1, <3>1 DEF put
    <2>2. CASE bare # 0
      <3> DEFINE once == RemoveAt(rest, bare)
                 twice == RemoveAt(once, bare)
      <3>1. bare \in 1 .. n /\ Len(rest[bare]) = 2
        BY <1>1, <2>2, BareIndexIs
      <3>2. r = IF bare = n THEN Failed
                ELSE [error |-> FALSE, found |-> TRUE, value |-> rest[bare + 1], rest |-> twice]
        BY <2>2 DEF opt_value_from_str
      <3>3. bare # n
        <4>1. Failed.error
          BY DEF Failed
        <4> QED BY <1>3, <3>2, <4>1
      <3> HIDE DEF bare
      <3>4. r.rest = twice /\ r.value = rest[bare + 1]
        BY <3>2, <3>3
      <3>5. bare \in 1 .. n - 1
        BY <1>1, <3>1, <3>3
      <3>6. LeftOut(rest, bare, once)
        BY <1>1, <3>1, RemovedIs
      <3>7. once \in Lines /\ bare \in 1 .. Len(once)
        BY <3>5, <3>6 DEF LeftOut
      <3>8. twice \in Lines
        <4> HIDE DEF once
        <4> QED BY <3>7, RemovedIs DEF LeftOut
      <3> HIDE DEF r, t, twice
      <3>9. /\ t.rest = twice /\ t.values = Put(s.values, f, rest[bare + 1])
            /\ t = [error |-> t.error, rest |-> t.rest, values |-> t.values]
        BY <2>1, <3>4
      <3>10. Reading(t)
        BY <3>8, <3>9 DEF Reading
      <3>11. ~ StandsAlone(f) => ByWord(s, t, f)
        BY <3>1, <3>5, <3>9 DEF ByWord, twice
      <3>12. contains(rest, f)
        BY <2>2 DEF contains, bare
      <3> QED BY <3>10, <3>11, <3>12 DEF t
    <2>3. CASE bare = 0 /\ equal # 0
      <3> DEFINE once == RemoveAt(rest, equal)
      <3>1. equal \in 1 .. n /\ rest[equal] = <<"--", f, rest[equal][3]>>
        BY <1>1, <2>3, EqualIndexIs
      <3>2. r = [error |-> FALSE, found |-> TRUE, value |-> <<rest[equal][3]>>, rest |-> once]
        BY <2>3 DEF opt_value_from_str
      <3>3. r.rest = once /\ r.value = <<rest[equal][3]>>
        BY <3>2
      <3> HIDE DEF equal
      <3>4. once \in Lines
        BY <1>1, <3>1, RemovedIs DEF LeftOut
      <3> HIDE DEF r, t, once
      <3>5. /\ t.rest = once /\ t.values = Put(s.values, f, <<rest[equal][3]>>)
            /\ t = [error |-> t.error, rest |-> t.rest, values |-> t.values]
        BY <2>1, <3>3
      <3>6. Reading(t)
        BY <3>4, <3>5 DEF Reading
      <3>7. ByEqual(s, t, f)
        BY <3>1, <3>5 DEF ByEqual, once
      <3> QED BY <3>6, <3>7 DEF t
    <2>4. CASE bare = 0 /\ equal = 0
      <3>1. ~ r.found
        BY <2>4 DEF opt_value_from_str
      <3> QED BY <1>5, <3>1
    <2> QED BY <2>2, <2>3, <2>4
  <1> QED BY <1>4, <1>5

\* An option that is read without an error is read in one of three ways, or
\* is not there.
LEMMA OptionReadIs ==
  ASSUME NEW s, Reading(s), NEW f, ~ Read(s, f).error
  PROVE  /\ ~ s.error /\ Reading(Read(s, f))
         /\ \/ Read(s, f) = s
            \/ ByFlag(s, Read(s, f), f)
            \/ ByWord(s, Read(s, f), f)
            \/ ByEqual(s, Read(s, f), f)
  <1> DEFINE t == Read(s, f)
             v == ReadValue(s, f)
  <1>1. \A q : CheckBool(q, f) = q \/ CheckBool(q, f) = [q EXCEPT !.error = TRUE]
    BY DEF CheckBool
  <1>2. s = [error |-> s.error, rest |-> s.rest, values |-> s.values]
    BY DEF Reading
  <1>3. s.error => t.error
    <2> SUFFICES ASSUME s.error PROVE t.error
      OBVIOUS
    <2>1. ReadFlag(s, f) = s /\ v = s
      BY DEF ReadFlag, ReadValue
    <2>2. ReadBool(s, f) = CheckBool(s, f)
      BY <2>1 DEF ReadBool
    <2>3. [s EXCEPT !.error = TRUE].error
      BY <1>2
    <2>4. ReadBool(s, f).error
      BY <1>1, <2>2, <2>3
    <2> QED BY <2>1, <2>4 DEF Read
  <1>4. ~ s.error
    BY <1>3
  <1>5. CASE f \in BareFlags
    <2>1. t = ReadFlag(s, f) /\ StandsAlone(f)
      BY <1>5 DEF Read, StandsAlone
    <2> HIDE DEF t
    <2> QED BY <1>4, <2>1, ReadFlagIs DEF t
  <1>6. CASE f \notin BareFlags /\ ~ StandsAlone(f)
    <2>1. t = v
      BY <1>6 DEF Read
    <2>2. ~ v.error
      BY <2>1
    <2> HIDE DEF t, v
    <2> QED BY <1>4, <1>6, <2>1, <2>2, ReadValueIs DEF t, v
  <1>7. CASE f \notin BareFlags /\ StandsAlone(f)
    <2>1. t = ReadBool(s, f)
      BY <1>7 DEF Read
    <2>2. CASE contains(s.rest, f)
      <3>1. t = ReadFlag(s, f)
        BY <1>4, <2>1, <2>2 DEF ReadBool
      <3> HIDE DEF t
      <3> QED BY <1>4, <1>7, <3>1, ReadFlagIs DEF t
    <2>3. CASE ~ contains(s.rest, f)
      <3>1. t = CheckBool(v, f)
        BY <2>1, <2>3 DEF ReadBool
      <3>2. DOMAIN v = DOMAIN s
        <4> DEFINE r == opt_value_from_str(s.rest, f)
        <4>1. v = IF s.error THEN s
                  ELSE IF r.error THEN [s EXCEPT !.error = TRUE]
                  ELSE IF r.found THEN [s EXCEPT !.rest = r.rest, !.values = Put(@, f, r.value)]
                  ELSE s
          BY DEF ReadValue
        <4> HIDE DEF r, v
        <4> QED BY <4>1
      <3>3. "error" \in DOMAIN v
        BY <1>2, <3>2
      <3>4. [v EXCEPT !.error = TRUE].error
        BY <3>3
      <3> HIDE DEF v
      <3>5. t = v
        BY <1>1, <3>1, <3>4
      <3>6. ~ v.error
        BY <3>5
      <3> HIDE DEF t
      <3> QED BY <1>4, <2>3, <3>5, <3>6, ReadValueIs DEF t, v
    <2> QED BY <2>2, <2>3
  <1> DEFINE done == /\ ~ s.error /\ Reading(t)
                     /\ t = s \/ ByFlag(s, t, f) \/ ByWord(s, t, f) \/ ByEqual(s, t, f)
  <1>8. done
    <2>1. f \in BareFlags => done
      BY <1>5
    <2>2. f \notin BareFlags /\ ~ StandsAlone(f) => done
      BY <1>6
    <2>3. f \notin BareFlags /\ StandsAlone(f) => done
      BY <1>7
    <2> HIDE DEF done
    <2> QED BY <2>1, <2>2, <2>3
  <1> QED BY <1>8

\* An argument that is a flag with its value.
Flagged(g, x) == <<"--", g, x>>

\* Its parts are told apart.
LEMMA FlaggedIs ==
  /\ \A g, x : Len(Flagged(g, x)) = 3
  /\ \A g, x, h, y : Flagged(g, x) = Flagged(h, y) <=> (g = h /\ x = y)
  BY DEF Flagged

\* The options that take a given argument for their value.
Takers(values, apart, e) == {h \in apart : values[h] = e}

\* Where the arguments of a line have gone: one to each value, one more to
\* the options that stand apart from theirs, and the rest is left.
Spent(args, rest, values, apart, joined) ==
  /\ IsFiniteSet(DOMAIN values) /\ values = [h \in DOMAIN values |-> values[h]]
  /\ apart \subseteq DOMAIN values /\ joined \subseteq DOMAIN values \ apart
  /\ Len(args) = Len(rest) + Cardinality(DOMAIN values) + Cardinality(apart)
  /\ \A h \in apart : ~ StandsAlone(h)
  /\ \A h \in DOMAIN values : h \in apart \/ h \in joined \/ StandsAlone(h)
  /\ \A h \in joined : values[h] = <<values[h][1]>>
  /\ \A g, x : Times(args, Flagged(g, x)) =
                 Times(rest, Flagged(g, x)) + Cardinality(Takers(values, apart, Flagged(g, x)))
                   + (IF g \in joined /\ values[g] = <<x>> THEN 1 ELSE 0)

\* Their numbers are numbers.
LEMMA SpentCounts ==
  ASSUME NEW args \in Lines, NEW rest \in Lines, NEW values, NEW apart, NEW joined,
         Spent(args, rest, values, apart, joined)
  PROVE  /\ Len(args) \in Nat /\ Len(rest) \in Nat
         /\ IsFiniteSet(apart) /\ Cardinality(apart) \in Nat
         /\ Cardinality(DOMAIN values) \in Nat
         /\ \A e : /\ Takers(values, apart, e) \subseteq apart
                   /\ IsFiniteSet(Takers(values, apart, e))
                   /\ Cardinality(Takers(values, apart, e)) \in Nat
  <1>1. IsFiniteSet(DOMAIN values) /\ apart \in SUBSET DOMAIN values
    BY DEF Spent
  <1>2. IsFiniteSet(apart)
    BY <1>1, FS_Subset
  <1>3. \A e : Takers(values, apart, e) \in SUBSET apart
    BY DEF Takers
  <1>4. \A e : IsFiniteSet(Takers(values, apart, e))
    BY <1>2, <1>3, FS_Subset
  <1>5. Len(args) \in Nat /\ Len(rest) \in Nat
    BY DEF Lines
  <1> QED BY <1>1, <1>2, <1>3, <1>4, <1>5, FS_CardinalityType

\* A flag on its own is spent.
LEMMA FlagSpends ==
  ASSUME NEW args \in Lines, NEW rest \in Lines, NEW values, NEW apart, NEW joined,
         Spent(args, rest, values, apart, joined), NEW f, f \notin DOMAIN values,
         StandsAlone(f), NEW b \in 1 .. Len(rest), Len(rest[b]) = 2, NEW v
  PROVE  Spent(args, RemoveAt(rest, b), Put(values, f, v), apart, joined)
  <1> DEFINE r == RemoveAt(rest, b)
             V == Put(values, f, v)
             dom == DOMAIN values
             now == DOMAIN V
  <1>1. /\ now = dom \union {f} /\ f \notin dom
        /\ \A h \in dom : V[h] = values[h] /\ h # f
        /\ V = [h \in now |-> V[h]]
    BY DEF Put
  <1>2. LeftOut(rest, b, r)
    BY RemovedIs
  <1> HIDE DEF r, V
  <1>3. /\ IsFiniteSet(dom)
        /\ apart \subseteq dom /\ joined \subseteq dom \ apart
        /\ Len(args) = Len(rest) + Cardinality(dom) + Cardinality(apart)
        /\ \A h \in apart : ~ StandsAlone(h)
        /\ \A h \in dom : h \in apart \/ h \in joined \/ StandsAlone(h)
        /\ \A h \in joined : values[h] = <<values[h][1]>>
    BY DEF Spent
  <1> HIDE DEF dom, now
  <1>4. IsFiniteSet(now) /\ Cardinality(now) = Cardinality(dom) + 1
    BY <1>1, <1>3, FS_AddElement
  <1>5. Len(r) = Len(rest) - 1
    BY <1>2 DEF LeftOut
  <1>6. Len(args) = Len(r) + Cardinality(now) + Cardinality(apart)
    BY <1>3, <1>4, <1>5, SpentCounts DEF dom
  <1>7. ASSUME NEW g, NEW x
        PROVE  Times(args, Flagged(g, x)) =
                 Times(r, Flagged(g, x)) + Cardinality(Takers(V, apart, Flagged(g, x)))
                   + (IF g \in joined /\ V[g] = <<x>> THEN 1 ELSE 0)
    <2> DEFINE e == Flagged(g, x)
    <2>1. Times(args, e) = Times(rest, e) + Cardinality(Takers(values, apart, e))
            + (IF g \in joined /\ values[g] = <<x>> THEN 1 ELSE 0)
      BY DEF Spent
    <2>2. rest[b] # e
      <3>1. Len(e) = 3
        BY FlaggedIs
      <3> HIDE DEF e
      <3> QED BY <3>1
    <2> HIDE DEF e
    <2>3. Times(rest, e) = Times(r, e)
      BY <1>2, <2>2, TimesWithout
    <2>4. Takers(V, apart, e) = Takers(values, apart, e)
      BY <1>1, <1>3 DEF Takers
    <2>5. g \in joined => V[g] = values[g]
      BY <1>1, <1>3
    <2> QED BY <2>1, <2>3, <2>4, <2>5 DEF e
  <1>8. \A h \in joined : V[h] = <<V[h][1]>>
    BY <1>1, <1>3
  <1>9. Spent(args, r, V, apart, joined)
    BY <1>1, <1>3, <1>4, <1>6, <1>7, <1>8 DEF Spent, now
  <1> QED BY <1>9 DEF r, V

\* So is a flag with its value.
LEMMA EqualSpends ==
  ASSUME NEW args \in Lines, NEW rest \in Lines, NEW values, NEW apart, NEW joined,
         Spent(args, rest, values, apart, joined), NEW f, f \notin DOMAIN values,
         NEW b \in 1 .. Len(rest), NEW v, rest[b] = Flagged(f, v)
  PROVE  Spent(args, RemoveAt(rest, b), Put(values, f, <<v>>), apart, joined \union {f})
  <1> DEFINE r == RemoveAt(rest, b)
             V == Put(values, f, <<v>>)
             dom == DOMAIN values
             now == DOMAIN V
             more == joined \union {f}
  <1>1. /\ now = dom \union {f} /\ f \notin dom /\ V[f] = <<v>>
        /\ \A h \in dom : V[h] = values[h] /\ h # f
        /\ V = [h \in now |-> V[h]]
    BY DEF Put
  <1>2. LeftOut(rest, b, r)
    BY RemovedIs
  <1> HIDE DEF r, V
  <1>3. /\ IsFiniteSet(dom)
        /\ apart \subseteq dom /\ joined \subseteq dom \ apart
        /\ Len(args) = Len(rest) + Cardinality(dom) + Cardinality(apart)
        /\ \A h \in apart : ~ StandsAlone(h)
        /\ \A h \in dom : h \in apart \/ h \in joined \/ StandsAlone(h)
        /\ \A h \in joined : values[h] = <<values[h][1]>>
    BY DEF Spent
  <1> HIDE DEF dom, now
  <1>4. IsFiniteSet(now) /\ Cardinality(now) = Cardinality(dom) + 1
    BY <1>1, <1>3, FS_AddElement
  <1>5. Len(r) = Len(rest) - 1
    BY <1>2 DEF LeftOut
  <1>6. Len(args) = Len(r) + Cardinality(now) + Cardinality(apart)
    BY <1>3, <1>4, <1>5, SpentCounts DEF dom
  <1>7. ASSUME NEW g, NEW x
        PROVE  Times(args, Flagged(g, x)) =
                 Times(r, Flagged(g, x)) + Cardinality(Takers(V, apart, Flagged(g, x)))
                   + (IF g \in more /\ V[g] = <<x>> THEN 1 ELSE 0)
    <2> DEFINE e == Flagged(g, x)
               before == g \in joined /\ values[g] = <<x>>
               after == g \in more /\ V[g] = <<x>>
    <2>1. Times(args, e) = Times(rest, e) + Cardinality(Takers(values, apart, e))
            + (IF before THEN 1 ELSE 0)
      BY DEF Spent
    <2>2. rest[b] = e <=> (f = g /\ v = x)
      BY FlaggedIs
    <2>3. <<v>> = <<x>> <=> v = x
      OBVIOUS
    <2>4. Times(rest, e) = Times(r, e) + (IF rest[b] = e THEN 1 ELSE 0) /\ Times(r, e) \in Nat
      <3> HIDE DEF e
      <3> QED BY <1>2, TimesWithout
    <2>5. Takers(V, apart, e) = Takers(values, apart, e)
      <3> HIDE DEF e
      <3> QED BY <1>1, <1>3 DEF Takers
    <2>6. after <=> (before \/ (f = g /\ v = x))
      BY <1>1, <1>3, <2>3
    <2>7. ~ (before /\ f = g)
      BY <1>1, <1>3
    <2>8. Cardinality(Takers(values, apart, e)) \in Nat
      <3> HIDE DEF e
      <3> QED BY SpentCounts
    <2> DEFINE it == f = g /\ v = x
    <2>9. /\ Times(rest, e) = Times(r, e) + (IF it THEN 1 ELSE 0)
          /\ after <=> (before \/ it)
          /\ ~ (before /\ it)
      BY <2>2, <2>4, <2>6, <2>7
    <2> HIDE DEF e, before, after, it
    <2>10. Times(args, e) = Times(r, e) + Cardinality(Takers(V, apart, e)) + (IF after THEN 1 ELSE 0)
      <3>1. CASE before
        BY <2>1, <2>4, <2>5, <2>8, <2>9, <3>1
      <3>2. CASE it
        BY <2>1, <2>4, <2>5, <2>8, <2>9, <3>2
      <3>3. CASE ~ before /\ ~ it
        BY <2>1, <2>4, <2>5, <2>8, <2>9, <3>3
      <3> QED BY <3>1, <3>2, <3>3
    <2> QED BY <2>10 DEF e, after
  <1>8. \A h \in more : V[h] = <<V[h][1]>>
    <2>1. V[f] = <<V[f][1]>>
      BY <1>1
    <2> QED BY <1>1, <1>3, <2>1
  <1>9. more \subseteq now \ apart /\ apart \subseteq now
    BY <1>1, <1>3
  <1>10. /\ \A h \in now : h \in apart \/ h \in more \/ StandsAlone(h)
         /\ \A h \in apart : ~ StandsAlone(h)
    BY <1>1, <1>3
  <1> HIDE DEF more
  <1>11. Spent(args, r, V, apart, more)
    BY <1>1, <1>4, <1>6, <1>7, <1>8, <1>9, <1>10 DEF Spent, now
  <1> QED BY <1>11 DEF r, V, more

\* And so are an option and the argument after it.
LEMMA WordSpends ==
  ASSUME NEW args \in Lines, NEW rest \in Lines, NEW values, NEW apart, NEW joined,
         Spent(args, rest, values, apart, joined), NEW f, f \notin DOMAIN values,
         ~ StandsAlone(f), NEW b \in 1 .. Len(rest) - 1, Len(rest[b]) = 2
  PROVE  Spent(args, RemoveAt(RemoveAt(rest, b), b), Put(values, f, rest[b + 1]),
               apart \union {f}, joined)
  <1> DEFINE v == rest[b + 1]
             once == RemoveAt(rest, b)
             r == RemoveAt(once, b)
             V == Put(values, f, v)
             dom == DOMAIN values
             now == DOMAIN V
             more == apart \union {f}
  <1>1. /\ now = dom \union {f} /\ f \notin dom /\ V[f] = v
        /\ \A h \in dom : V[h] = values[h] /\ h # f
        /\ V = [h \in now |-> V[h]]
    <2> HIDE DEF v
    <2> QED BY DEF Put
  <1>2. /\ b \in 1 .. Len(rest) /\ b \in 1 .. Len(rest) - 1 /\ Len(rest) \in Nat
        /\ \A j \in 1 .. Len(rest) - 1 : j >= b => ~ (j < b)
    BY DEF Lines
  <1>3. LeftOut(rest, b, once)
    BY <1>2, RemovedIs
  <1>4. once \in Lines /\ b \in 1 .. Len(once) /\ once[b] = v /\ Len(once) = Len(rest) - 1
    <2> HIDE DEF once
    <2> QED BY <1>2, <1>3 DEF LeftOut
  <1> HIDE DEF once
  <1>5. LeftOut(once, b, r)
    BY <1>4, RemovedIs
  <1> HIDE DEF r, V, v
  <1>6. /\ IsFiniteSet(dom)
        /\ apart \subseteq dom /\ joined \subseteq dom \ apart
        /\ Len(args) = Len(rest) + Cardinality(dom) + Cardinality(apart)
        /\ \A h \in apart : ~ StandsAlone(h)
        /\ \A h \in dom : h \in apart \/ h \in joined \/ StandsAlone(h)
        /\ \A h \in joined : values[h] = <<values[h][1]>>
    BY DEF Spent
  <1> HIDE DEF dom, now
  <1>7. IsFiniteSet(now) /\ Cardinality(now) = Cardinality(dom) + 1
    BY <1>1, <1>6, FS_AddElement
  <1>8. Cardinality(more) = Cardinality(apart) + 1
    <2>1. f \notin apart /\ IsFiniteSet(apart)
      BY <1>1, <1>6, SpentCounts
    <2> QED BY <2>1, FS_AddElement
  <1> HIDE DEF more
  <1>9. Len(r) = Len(rest) - 2
    BY <1>2, <1>4, <1>5 DEF LeftOut
  <1>10. Len(args) = Len(r) + Cardinality(now) + Cardinality(more)
    BY <1>6, <1>7, <1>8, <1>9, SpentCounts DEF dom
  <1>11. ASSUME NEW g, NEW x
         PROVE  Times(args, Flagged(g, x)) =
                  Times(r, Flagged(g, x)) + Cardinality(Takers(V, more, Flagged(g, x)))
                    + (IF g \in joined /\ V[g] = <<x>> THEN 1 ELSE 0)
    <2> DEFINE e == Flagged(g, x)
               old == Takers(values, apart, e)
               new == Takers(V, more, e)
               extra == IF g \in joined /\ values[g] = <<x>> THEN 1 ELSE 0
               last == IF g \in joined /\ V[g] = <<x>> THEN 1 ELSE 0
    <2>1. Times(args, e) = Times(rest, e) + Cardinality(old) + extra
      BY DEF Spent
    <2>2. rest[b] # e
      <3>1. Len(e) = 3
        BY FlaggedIs
      <3> DEFINE first == rest[b]
      <3>2. Len(first) = 2
        OBVIOUS
      <3> HIDE DEF e, first
      <3>3. first # e
        BY <3>1, <3>2
      <3> QED BY <3>3 DEF first
    <2> HIDE DEF e
    <2>3. last = extra /\ extra \in Nat
      BY <1>1, <1>6
    <2>4. Times(rest, e) = Times(once, e)
      BY <1>2, <1>3, <2>2, TimesWithout
    <2>5. Times(once, e) = Times(r, e) + (IF v = e THEN 1 ELSE 0) /\ Times(r, e) \in Nat
      BY <1>4, <1>5, TimesWithout
    <2>6. new = IF v = e THEN old \union {f} ELSE old
      BY <1>1, <1>6 DEF Takers, more
    <2>7. f \notin old /\ IsFiniteSet(old) /\ Cardinality(old) \in Nat
      <3>1. f \notin apart
        BY <1>1, <1>6
      <3> QED BY <3>1, SpentCounts
    <2> HIDE DEF old, new, extra, last
    <2>8. Cardinality(new) = Cardinality(old) + (IF v = e THEN 1 ELSE 0)
      <3>1. CASE v = e
        <4>1. Cardinality(old \union {f}) = Cardinality(old) + 1
          BY <2>7, FS_AddElement
        <4> QED BY <2>6, <3>1, <4>1
      <3>2. CASE v # e
        BY <2>6, <2>7, <3>2
      <3> QED BY <3>1, <3>2
    <2>9. Times(args, e) = Times(r, e) + Cardinality(new) + last
      <3>1. CASE v = e
        BY <2>1, <2>3, <2>4, <2>5, <2>7, <2>8, <3>1
      <3>2. CASE v # e
        BY <2>1, <2>3, <2>4, <2>5, <2>7, <2>8, <3>2
      <3> QED BY <3>1, <3>2
    <2> QED BY <2>9 DEF e, new, last
  <1>12. \A h \in joined : V[h] = <<V[h][1]>>
    BY <1>1, <1>6
  <1>13. more \subseteq now /\ joined \subseteq now \ more
    BY <1>1, <1>6 DEF more
  <1>14. /\ \A h \in now : h \in more \/ h \in joined \/ StandsAlone(h)
         /\ \A h \in more : ~ StandsAlone(h)
    BY <1>1, <1>6 DEF more
  <1>15. Spent(args, r, V, more, joined)
    BY <1>1, <1>7, <1>10, <1>11, <1>12, <1>13, <1>14 DEF Spent, now
  <1> QED BY <1>15 DEF r, once, V, v, more

\* A state with an error keeps it.
LEMMA ErrorKeeps ==
  ASSUME NEW s, "error" \in DOMAIN s, s.error, NEW f
  PROVE  Read(s, f).error
  <1>1. ReadFlag(s, f) = s /\ ReadValue(s, f) = s
    BY DEF ReadFlag, ReadValue
  <1>2. [s EXCEPT !.error = TRUE].error
    OBVIOUS
  <1>3. CheckBool(s, f).error
    BY <1>2 DEF CheckBool
  <1>4. ReadBool(s, f).error
    BY <1>1, <1>3 DEF ReadBool
  <1> QED BY <1>1, <1>4 DEF Read

\* Every argument is accounted for.
Balanced(args, s) ==
  /\ DOMAIN s = {"error", "rest", "values"}
  /\ \/ s.error
     \/ Reading(s) /\ \E apart, joined : Spent(args, s.rest, s.values, apart, joined)

\* Reading an option keeps the account.
LEMMA ReadBalances ==
  ASSUME NEW args \in Lines, NEW s, Balanced(args, s), NEW f,
         s.error \/ f \notin DOMAIN s.values
  PROVE  /\ Balanced(args, Read(s, f))
         /\ Read(s, f).error \/ DOMAIN Read(s, f).values \subseteq DOMAIN s.values \union {f}
  <1> DEFINE t == Read(s, f)
  <1>1. DOMAIN t = {"error", "rest", "values"} /\ DOMAIN s = {"error", "rest", "values"}
    BY ReadKeeps DEF Balanced
  <1>2. CASE t.error
    BY <1>1, <1>2 DEF Balanced
  <1>3. CASE ~ t.error
    <2>1. ~ s.error
      BY <1>1, <1>3, ErrorKeeps
    <2>2. f \notin DOMAIN s.values /\ Reading(s)
      BY <2>1 DEF Balanced
    <2>3. PICK apart, joined : Spent(args, s.rest, s.values, apart, joined)
      BY <2>1 DEF Balanced
    <2>4. Reading(t) /\ (t = s \/ ByFlag(s, t, f) \/ ByWord(s, t, f) \/ ByEqual(s, t, f))
      BY <1>3, <2>2, OptionReadIs
    <2>5. s.rest \in Lines
      BY <2>2 DEF Reading
    <2>6. \A v : DOMAIN Put(s.values, f, v) = DOMAIN s.values \union {f}
      BY DEF Put
    <2> HIDE DEF t
    <2> DEFINE good == /\ Balanced(args, t)
                       /\ t.error \/ DOMAIN t.values \subseteq DOMAIN s.values \union {f}
    <2>7. good
      <3>1. CASE t = s
        BY <1>1, <2>3, <2>4, <3>1 DEF Balanced
      <3>2. CASE ByFlag(s, t, f)
        <4>1. PICK b \in 1 .. Len(s.rest) : Len(s.rest[b]) = 2 /\ t.rest = RemoveAt(s.rest, b)
          BY <3>2 DEF ByFlag
        <4>2. StandsAlone(f) /\ t.values = Put(s.values, f, <<"true">>)
          BY <3>2 DEF ByFlag
        <4>3. Spent(args, t.rest, t.values, apart, joined)
          <5> DEFINE v == <<"true">>
          <5>1. t.values = Put(s.values, f, v)
            BY <4>2
          <5> HIDE DEF v
          <5> QED BY <2>2, <2>3, <2>5, <4>1, <4>2, <5>1, FlagSpends
        <4> QED BY <1>1, <2>4, <2>6, <4>2, <4>3 DEF Balanced
      <3>3. CASE ByWord(s, t, f)
        <4>1. PICK b \in 1 .. Len(s.rest) - 1 :
                /\ Len(s.rest[b]) = 2 /\ t.rest = RemoveAt(RemoveAt(s.rest, b), b)
                /\ t.values = Put(s.values, f, s.rest[b + 1])
          BY <3>3 DEF ByWord
        <4>2. ~ StandsAlone(f)
          BY <3>3 DEF ByWord
        <4>3. Spent(args, t.rest, t.values, apart \union {f}, joined)
          <5> DEFINE rest == s.rest
                     vals == s.values
          <5>1. /\ rest \in Lines /\ f \notin DOMAIN vals /\ Spent(args, rest, vals, apart, joined)
                /\ b \in 1 .. Len(rest) - 1 /\ Len(rest[b]) = 2
            BY <2>2, <2>3, <2>5, <4>1
          <5>2. t.rest = RemoveAt(RemoveAt(rest, b), b) /\ t.values = Put(vals, f, rest[b + 1])
            BY <4>1
          <5> HIDE DEF rest, vals
          <5>3. Spent(args, RemoveAt(RemoveAt(rest, b), b), Put(vals, f, rest[b + 1]),
                      apart \union {f}, joined)
            BY <4>2, <5>1, WordSpends
          <5> QED BY <5>2, <5>3
        <4> QED BY <1>1, <2>4, <2>6, <4>1, <4>3 DEF Balanced
      <3>4. CASE ByEqual(s, t, f)
        <4>1. PICK b \in 1 .. Len(s.rest) :
                /\ s.rest[b] = <<"--", f, s.rest[b][3]>> /\ t.rest = RemoveAt(s.rest, b)
                /\ t.values = Put(s.values, f, <<s.rest[b][3]>>)
          BY <3>4 DEF ByEqual
        <4>2. Spent(args, t.rest, t.values, apart, joined \union {f})
          <5> DEFINE rest == s.rest
                     vals == s.values
                     v == rest[b][3]
          <5>1. /\ rest \in Lines /\ f \notin DOMAIN vals /\ Spent(args, rest, vals, apart, joined)
                /\ b \in 1 .. Len(rest) /\ rest[b] = Flagged(f, v)
            BY <2>2, <2>3, <2>5, <4>1 DEF Flagged
          <5>2. t.rest = RemoveAt(rest, b) /\ t.values = Put(vals, f, <<v>>)
            BY <4>1
          <5> HIDE DEF rest, vals, v
          <5>3. Spent(args, RemoveAt(rest, b), Put(vals, f, <<v>>), apart, joined \union {f})
            BY <5>1, EqualSpends
          <5> QED BY <5>2, <5>3
        <4> QED BY <1>1, <2>4, <2>6, <4>1, <4>2 DEF Balanced
      <3> QED BY <2>4, <3>1, <3>2, <3>3, <3>4
    <2> QED BY <2>7 DEF t
  <1> QED BY <1>2, <1>3

\* Before anything is read all of the line is left.
LEMMA UnreadBalances ==
  ASSUME NEW args \in Lines
  PROVE  Balanced(args, Unread(args))
  <1> DEFINE s == Unread(args)
             none == [f \in {} |-> <<>>]
  <1>1. s = [error |-> FALSE, rest |-> args, values |-> none]
    BY DEF Unread
  <1>2. DOMAIN none = {} /\ none = [f \in DOMAIN none |-> none[f]]
    OBVIOUS
  <1> HIDE DEF none, s
  <1>3. s.error = FALSE /\ s.rest = args /\ s.values = none
         /\ DOMAIN s = {"error", "rest", "values"}
    BY <1>1
  <1>4. Reading(s)
    BY <1>1, <1>3 DEF Reading
  <1>5. ASSUME NEW g, NEW x
        PROVE  Times(args, Flagged(g, x)) =
                 Times(args, Flagged(g, x)) + Cardinality(Takers(none, {}, Flagged(g, x)))
                   + (IF g \in {} /\ none[g] = <<x>> THEN 1 ELSE 0)
    <2> DEFINE e == Flagged(g, x)
    <2>1. Takers(none, {}, e) = {}
      BY DEF Takers
    <2>2. Times(args, e) \in Nat
      <3>1. IsFiniteSet(DOMAIN args)
        <4>1. DOMAIN args = 1 .. Len(args) /\ Len(args) \in Nat
          BY DEF Lines
        <4> QED BY <4>1, FS_Interval
      <3>2. {i \in DOMAIN args : args[i] = e} \in SUBSET DOMAIN args
        OBVIOUS
      <3> QED BY <3>1, <3>2, FS_Subset, FS_CardinalityType DEF Times
    <2> HIDE DEF e
    <2>3. Times(args, e) = Times(args, e) + Cardinality(Takers(none, {}, e)) + 0
      BY <2>1, <2>2, FS_EmptySet
    <2>4. (IF g \in {} /\ none[g] = <<x>> THEN 1 ELSE 0) = 0
      OBVIOUS
    <2> QED BY <2>3, <2>4 DEF e
  <1>6. Len(args) = Len(args) + 0 + 0
    BY DEF Lines
  <1>7. Spent(args, args, none, {}, {})
    BY <1>2, <1>5, <1>6, FS_EmptySet DEF Spent
  <1>8. Balanced(args, s)
    BY <1>3, <1>4, <1>7 DEF Balanced
  <1> QED BY <1>8 DEF s

\* A line that is read to its end has spent every argument.
LEMMA ChainBalances ==
  ASSUME NEW args \in Lines, NEW n \in Nat, NEW names, NamesAre(names, n),
         NEW h, Chain(h, Unread(args), names, n)
  PROVE  Balanced(args, h[n]) /\ (h[n].error \/ "field" \notin DOMAIN h[n].values)
  <1> DEFINE Good(k) == /\ Balanced(args, h[k])
                        /\ h[k].error \/ \A f \in DOMAIN h[k].values : \E i \in 1 .. k : f = names[i]
             wrong == {k \in 0 .. n : ~ Good(k)}
             least == Min(wrong)
  <1>1. h[0] = Unread(args) /\ \A k \in 1 .. n : h[k] = Read(h[k - 1], names[k])
    BY DEF Chain
  <1>2. /\ \A i, j \in 1 .. n : names[i] = names[j] => i = j
        /\ \A i \in 1 .. n : names[i] # "field"
    BY DEF NamesAre
  <1>3. Good(0)
    <2>1. DOMAIN Unread(args).values = {}
      BY DEF Unread
    <2> QED BY <1>1, <2>1, UnreadBalances
  <1>4. ASSUME NEW k \in 1 .. n, Good(k - 1) PROVE Good(k)
    <2> DEFINE s == h[k - 1]
               f == names[k]
    <2>1. Balanced(args, s) /\ h[k] = Read(s, f)
      BY <1>1, <1>4
    <2>2. s.error \/ \A g \in DOMAIN s.values : \E i \in 1 .. k - 1 : g = names[i]
      BY <1>4
    <2>3. \A i \in 1 .. k - 1 : i \in 1 .. n /\ i \in 1 .. k /\ names[i] # f
      BY <1>2
    <2>4. k \in 1 .. k
      OBVIOUS
    <2> HIDE DEF s
    <2>5. s.error \/ f \notin DOMAIN s.values
      BY <2>2, <2>3
    <2>6. /\ Balanced(args, Read(s, f))
          /\ Read(s, f).error \/ DOMAIN Read(s, f).values \subseteq DOMAIN s.values \union {f}
      <3> HIDE DEF f
      <3> QED BY <2>1, <2>5, ReadBalances
    <2>7. s.error => Read(s, f).error
      BY <2>1, ErrorKeeps DEF Balanced
    <2>8. h[k].error \/ \A g \in DOMAIN h[k].values : \E i \in 1 .. k : g = names[i]
      BY <2>1, <2>2, <2>3, <2>4, <2>6, <2>7
    <2> QED BY <2>1, <2>6, <2>8
  <1> HIDE DEF Good
  <1>5. wrong = {}
    <2> SUFFICES ASSUME wrong # {} PROVE FALSE
      OBVIOUS
    <2>1. wrong \in SUBSET Nat
      OBVIOUS
    <2>2. least \in wrong /\ \A j \in wrong : least <= j
      <3> HIDE DEF wrong
      <3> QED BY <2>1, LeastExists
    <2> HIDE DEF least
    <2>3. least # 0
      BY <1>3, <2>2
    <2>4. least \in 1 .. n /\ least - 1 \in 0 .. n /\ ~ (least <= least - 1)
      BY <2>2, <2>3
    <2>5. Good(least - 1)
      BY <2>2, <2>4
    <2>6. Good(least)
      BY <1>4, <2>4, <2>5
    <2> QED BY <2>2, <2>6
  <1>6. Good(n)
    BY <1>5
  <1>7. h[n].error \/ "field" \notin DOMAIN h[n].values
    BY <1>2, <1>6 DEF Good
  <1> QED BY <1>6, <1>7 DEF Good

\* Every argument of a line has gone into the values.
Accepted(body, values) == \E apart, joined : Spent(body, <<>>, values, apart, joined)

\* Values are a function.
LEMMA AcceptedIs ==
  ASSUME NEW body, NEW values, Accepted(body, values)
  PROVE  values = [f \in DOMAIN values |-> values[f]]
  BY DEF Accepted, Spent

\* What finish lets pass has spent them all.
LEMMA FinishAccepts ==
  ASSUME NEW args \in Lines, NEW n \in Nat, NEW names, NamesAre(names, n),
         NEW h, Chain(h, Unread(args), names, n), ~ finish(h[n]).error
  PROVE  Accepted(args, finish(h[n]).values) /\ "field" \notin DOMAIN finish(h[n]).values
  <1> DEFINE s == h[n]
  <1>1. Balanced(args, s) /\ (s.error \/ "field" \notin DOMAIN s.values)
    BY ChainBalances
  <1> HIDE DEF s
  <1>2. ~ finish(s).error
    BY DEF s
  <1>3. [s EXCEPT !.error = TRUE].error
    BY <1>1 DEF Balanced
  <1>4. s.rest = <<>> /\ finish(s) = s
    BY <1>2, <1>3 DEF finish
  <1>5. ~ s.error
    BY <1>2, <1>4
  <1>6. Accepted(args, s.values) /\ "field" \notin DOMAIN s.values
    BY <1>1, <1>4, <1>5 DEF Balanced, Accepted
  <1> QED BY <1>4, <1>6 DEF s

\* Of two lines that come to the same values, the longer one gives some flag
\* with its value less often.
LEMMA AcceptedOnce ==
  ASSUME NEW a \in Lines, NEW b \in Lines, NEW values,
         Accepted(a, values), Accepted(b, values), Len(b) < Len(a),
         \A g, x : Times(b, Flagged(g, x)) <= Times(a, Flagged(g, x))
  PROVE  FALSE
  <1>1. PICK apart, joined : Spent(a, <<>>, values, apart, joined)
    BY DEF Accepted
  <1>2. PICK nigh, merged : Spent(b, <<>>, values, nigh, merged)
    BY DEF Accepted
  <1>3. <<>> \in Lines /\ Len(<<>>) = 0
    BY DEF Lines
  <1>4. \A e : Times(<<>>, e) = 0
    <2> SUFFICES ASSUME NEW e PROVE Times(<<>>, e) = 0
      OBVIOUS
    <2>1. {i \in DOMAIN <<>> : <<>>[i] = e} = {}
      OBVIOUS
    <2> QED BY <2>1, FS_EmptySet DEF Times
  <1> DEFINE none == <<>>
             size == Cardinality(DOMAIN values)
  <1>5. /\ none \in Lines /\ Len(none) = 0 /\ \A e : Times(none, e) = 0
        /\ Spent(a, none, values, apart, joined) /\ Spent(b, none, values, nigh, merged)
    BY <1>1, <1>2, <1>3, <1>4
  <1> HIDE DEF none
  <1>6. /\ Len(a) = 0 + size + Cardinality(apart)
        /\ Len(b) = 0 + size + Cardinality(nigh)
    BY <1>5 DEF Spent
  <1>7. /\ size \in Nat /\ IsFiniteSet(apart) /\ IsFiniteSet(nigh)
        /\ Cardinality(apart) \in Nat /\ Cardinality(nigh) \in Nat
    BY <1>5, SpentCounts
  <1>8. Cardinality(nigh) < Cardinality(apart)
    BY <1>6, <1>7
  <1>9. PICK f \in apart : f \notin nigh
    <2> SUFFICES ASSUME apart \subseteq nigh PROVE FALSE
      OBVIOUS
    <2>1. Cardinality(apart) <= Cardinality(nigh)
      BY <1>7, FS_Subset
    <2> QED BY <1>7, <1>8, <2>1
  <1>10. /\ apart \subseteq DOMAIN values /\ joined \subseteq DOMAIN values \ apart
         /\ nigh \subseteq DOMAIN values /\ merged \subseteq DOMAIN values \ nigh
         /\ \A g \in apart : ~ StandsAlone(g)
         /\ \A g \in nigh : ~ StandsAlone(g)
         /\ \A g \in DOMAIN values : g \in apart \/ g \in joined \/ StandsAlone(g)
         /\ \A g \in DOMAIN values : g \in nigh \/ g \in merged \/ StandsAlone(g)
         /\ \A g \in joined : values[g] = <<values[g][1]>>
         /\ \A g \in merged : values[g] = <<values[g][1]>>
    BY <1>5 DEF Spent
  <1> DEFINE x == values[f][1]
             e == Flagged(f, x)
             here == Takers(values, apart, e)
             there == Takers(values, nigh, e)
  <1>11. f \in merged /\ f \notin joined /\ values[f] = <<x>>
    BY <1>9, <1>10
  <1> HIDE DEF x
  <1>12. Times(a, e) = 0 + Cardinality(here) + 0
    <2>1. Times(a, e) = Times(none, e) + Cardinality(here)
            + (IF f \in joined /\ values[f] = <<x>> THEN 1 ELSE 0)
      BY <1>5 DEF Spent
    <2> QED BY <1>5, <1>11, <2>1
  <1>13. Times(b, e) = 0 + Cardinality(there) + 1
    <2>1. Times(b, e) = Times(none, e) + Cardinality(there)
            + (IF f \in merged /\ values[f] = <<x>> THEN 1 ELSE 0)
      BY <1>5 DEF Spent
    <2> QED BY <1>5, <1>11, <2>1
  <1>14. here = there
    <2>1. Len(e) = 3
      BY FlaggedIs
    <2> HIDE DEF e
    <2>2. \A g \in joined : Len(values[g]) = 1
      <3>1. \A v : Len(<<v>>) = 1
        OBVIOUS
      <3> QED BY <1>10, <3>1
    <2>3. \A g \in merged : Len(values[g]) = 1
      <3>1. \A v : Len(<<v>>) = 1
        OBVIOUS
      <3> QED BY <1>10, <3>1
    <2>4. ASSUME NEW g, values[g] = e PROVE g \in apart <=> g \in nigh
      <3>1. Len(values[g]) = 3
        BY <2>1, <2>4
      <3>2. g \notin joined /\ g \notin merged
        <4> DEFINE n == Len(values[g])
        <4>1. (g \in joined => n = 1) /\ (g \in merged => n = 1) /\ n = 3
          BY <2>2, <2>3, <3>1
        <4> HIDE DEF n
        <4> QED BY <4>1
      <3> QED BY <1>10, <3>2
    <2> QED BY <2>4 DEF Takers
  <1>15. Times(b, e) <= Times(a, e)
    OBVIOUS
  <1>16. Cardinality(here) \in Nat
    <2> HIDE DEF e
    <2> QED BY <1>5, SpentCounts
  <1> HIDE DEF here, there, e
  <1> QED BY <1>12, <1>13, <1>14, <1>15, <1>16

\* The options of a line that starts a server or looks after its settings.
LEMMA SharedAccepts ==
  ASSUME NEW args \in Lines, ~ parse_shared(args).error
  PROVE  /\ Accepted(args, parse_shared(args).values)
         /\ "field" \notin DOMAIN parse_shared(args).values
  <1>1. PICK h : Chain(h, Unread(args), SharedNames, 27) /\ parse_shared(args) = finish(h[27])
    BY SharedChain
  <1>2. NamesAre(SharedNames, 27)
    BY SharedNamesAre
  <1> DEFINE n == 27
  <1>3. /\ n \in Nat /\ Chain(h, Unread(args), SharedNames, n) /\ NamesAre(SharedNames, n)
        /\ parse_shared(args) = finish(h[n])
    BY <1>1, <1>2
  <1> HIDE DEF n
  <1>4. ~ finish(h[n]).error
    BY <1>3
  <1>5. Accepted(args, finish(h[n]).values) /\ "field" \notin DOMAIN finish(h[n]).values
    BY <1>3, <1>4, FinishAccepts
  <1> QED BY <1>3, <1>5

\* What is read is a state, too.
LEMMA SharedKeeps ==
  ASSUME NEW args \in Lines
  PROVE  DOMAIN parse_shared(args) = {"error", "rest", "values"}
  <1>1. PICK h : Chain(h, Unread(args), SharedNames, 27) /\ parse_shared(args) = finish(h[27])
    BY SharedChain
  <1> DEFINE n == 27
  <1>2. n \in Nat /\ Chain(h, Unread(args), SharedNames, n) /\ NamesAre(SharedNames, n)
    BY <1>1, SharedNamesAre
  <1> HIDE DEF n
  <1>3. Balanced(args, h[n])
    BY <1>2, ChainBalances
  <1> DEFINE s == h[n]
  <1>4. DOMAIN s = {"error", "rest", "values"}
    BY <1>3 DEF Balanced
  <1> HIDE DEF s
  <1>5. DOMAIN finish(s) = DOMAIN s
    BY DEF finish
  <1> QED BY <1>1, <1>4, <1>5 DEF s, n

\* Those of a reload.
LEMMA ReloadAccepts ==
  ASSUME NEW args \in Lines, ~ parse_reload(args).error
  PROVE  Accepted(args, parse_reload(args).values)
  <1>1. PICK h : Chain(h, Unread(args), ReloadNames, 5) /\ parse_reload(args) = finish(h[5])
    BY ReloadChain
  <1> DEFINE n == 5
  <1>2. /\ n \in Nat /\ Chain(h, Unread(args), ReloadNames, n) /\ NamesAre(ReloadNames, n)
        /\ parse_reload(args) = finish(h[n])
    BY <1>1, ReloadNamesAre
  <1> HIDE DEF n
  <1>3. ~ finish(h[n]).error
    BY <1>2
  <1>4. Accepted(args, finish(h[n]).values) /\ "field" \notin DOMAIN finish(h[n]).values
    BY <1>2, <1>3, FinishAccepts
  <1> QED BY <1>2, <1>4

\* A line without the words at its start.
Trimmed(args, body, k) ==
  /\ body \in Lines /\ Len(body) = Len(args) - k
  /\ \A g, x : Times(body, Flagged(g, x)) = Times(args, Flagged(g, x))

\* A word is no flag with a value.
LEMMA WordTrims ==
  ASSUME NEW s \in Lines, NEW r, 1 \in 1 .. Len(s), LeftOut(s, 1, r), Len(s[1]) = 1
  PROVE  Trimmed(s, r, 1)
  <1>1. r \in Lines /\ Len(r) = Len(s) - 1
    BY DEF LeftOut
  <1>2. ASSUME NEW g, NEW x PROVE Times(r, Flagged(g, x)) = Times(s, Flagged(g, x))
    <2> DEFINE e == Flagged(g, x)
               w == s[1]
    <2>1. Len(e) = 3 /\ Len(w) = 1
      BY FlaggedIs
    <2> HIDE DEF e, w
    <2>2. w # e
      BY <2>1
    <2>3. Times(r, e) \in Nat /\ Times(s, e) = Times(r, e) + (IF w = e THEN 1 ELSE 0)
      BY TimesWithout DEF w
    <2>4. Times(r, e) = Times(s, e)
      BY <2>2, <2>3
    <2> QED BY <2>4 DEF e
  <1> QED BY <1>1, <1>2 DEF Trimmed

\* The line after its verb ...
LEMMA TailTrims ==
  ASSUME NEW s \in Lines, HasVerb(s)
  PROVE  Trimmed(s, Tail(s), 1)
  <1> DEFINE T == Seq(AnyText)
             r == Tail(s)
  <1>1. s \in Seq(T) /\ s # <<>> /\ Len(s[1]) = 1
    BY DEF HasVerb, Lines
  <1> HIDE DEF T
  <1>2. 1 \in 1 .. Len(s)
    BY <1>1
  <1>3. r \in Seq(T) /\ Len(r) = Len(s) - 1 /\ \A j \in 1 .. Len(s) - 1 : r[j] = s[j + 1]
    BY <1>1
  <1> HIDE DEF r
  <1>4. LeftOut(s, 1, r)
    BY <1>3 DEF LeftOut, Lines, T
  <1>5. Trimmed(s, r, 1)
    BY <1>1, <1>2, <1>4, WordTrims
  <1> QED BY <1>5 DEF r

\* ... after a word further on ...
LEMMA RestTrims ==
  ASSUME NEW s \in Lines, NEW k \in 1 .. Len(s), Len(s[k]) = 1
  PROVE  /\ SubSeq(s, k, Len(s)) \in Lines /\ Len(SubSeq(s, k, Len(s))) = Len(s) - k + 1
         /\ Trimmed(SubSeq(s, k, Len(s)), SubSeq(s, k + 1, Len(s)), 1)
  <1> DEFINE T == Seq(AnyText)
             n == Len(s)
             a == SubSeq(s, k, n)
             r == SubSeq(s, k + 1, n)
  <1>1. s \in Seq(T) /\ n \in Nat /\ k \in 1 .. n
    BY DEF Lines
  <1> HIDE DEF T
  <1>2. a \in Seq(T) /\ Len(a) = n - k + 1 /\ \A j \in 1 .. n - k + 1 : a[j] = s[k + j - 1]
    BY <1>1
  <1>3. r \in Seq(T) /\ Len(r) = n - k /\ \A j \in 1 .. n - k : r[j] = s[k + j]
    BY <1>1
  <1> HIDE DEF a, r, n
  <1>4. 1 \in 1 .. Len(a) /\ a[1] = s[k]
    BY <1>1, <1>2
  <1>5. ASSUME NEW j \in 1 .. n - k PROVE r[j] = a[j + 1] /\ ~ (j < 1)
    <2>1. j + 1 \in 1 .. n - k + 1 /\ k + (j + 1) - 1 = k + j
      BY <1>1
    <2> QED BY <1>1, <1>2, <1>3, <2>1
  <1>6. LeftOut(a, 1, r)
    <2>1. Len(r) = Len(a) - 1
      BY <1>1, <1>2, <1>3
    <2> QED BY <1>3, <1>5, <2>1 DEF LeftOut, Lines, T
  <1>7. a \in Lines
    BY <1>2 DEF Lines, T
  <1>8. Trimmed(a, r, 1)
    BY <1>4, <1>6, <1>7, WordTrims
  <1> QED BY <1>2, <1>7, <1>8 DEF a, r, n

\* ... and after several of them.
LEMMA TrimsOn ==
  ASSUME NEW s \in Lines, NEW r, NEW q, NEW k \in Nat, Trimmed(s, r, 1), Trimmed(r, q, k)
  PROVE  Trimmed(s, q, k + 1)
  <1>1. Len(s) \in Nat
    BY DEF Lines
  <1> QED BY <1>1 DEF Trimmed

\* The options of an action; unset has a field besides.
Options(p) ==
  IF p.action = "ConfigUnset" THEN [f \in DOMAIN p.values \ {"field"} |-> p.values[f]]
  ELSE p.values

\* The words before them.
VerbWords(args, action) ==
  IF action = "Run" THEN IF HasVerb(args) THEN 1 ELSE 0
  ELSE IF action = "Reload" THEN 1
  ELSE IF action = "ConfigUnset" THEN 3 ELSE 2

\* What an accepted line can ask for.
Actions == {"Run", "Reload", "ConfigShow", "ConfigCheck", "ConfigClear", "ConfigUnset"}

\* What an accepted line comes to.
LEMMA ActionIs ==
  ASSUME NEW name, NEW state, ~ Action(name, state).error
  PROVE  /\ ~ state.error /\ ~ Action(name, state).error
         /\ Action(name, state).action = name /\ Action(name, state).values = state.values
  <1>1. Failed.error
    BY DEF Failed
  <1>2. ~ state.error
    BY <1>1 DEF Action
  <1> QED BY <1>2 DEF Action

\* What captchapi config accepts.
LEMMA ConfigAccepts ==
  ASSUME NEW args \in Lines, NEW p, p = ConfigAction(args), ~ p.error
  PROVE  /\ p.action \in Actions \ {"Run", "Reload"}
         /\ \E body : /\ Accepted(body, Options(p))
                      /\ Trimmed(args, body, IF p.action = "ConfigUnset" THEN 2 ELSE 1)
  <1> DEFINE unset == args[1] = <<"unset">>
             named == Len(args) > 1 /\ Len(args[2]) = 1 /\ args[2][1] \in Fields
             n == Len(args)
             body == SubSeq(args, IF unset THEN 3 ELSE 2, n)
             read == parse_shared(body)
             verb == args[1][1]
             put == [read EXCEPT !.values = Put(@, "field", args[2])]
  <1>1. p = IF ~ HasVerb(args) THEN Failed
            ELSE IF verb \notin DOMAIN ConfigVerbs \/ (unset /\ ~ named) THEN Failed
            ELSE Action(ConfigVerbs[verb], IF unset THEN put ELSE read)
    BY DEF ConfigAction
  <1>2. Failed.error
    BY DEF Failed
  <1>3. HasVerb(args) /\ verb \in DOMAIN ConfigVerbs /\ (unset => named)
    BY <1>1, <1>2
  <1>4. /\ n \in Nat /\ 1 \in 1 .. n /\ Len(args[1]) = 1 /\ args[1] \in Seq(AnyText)
        /\ SubSeq(args, 1, n) = args
    <2> DEFINE T == Seq(AnyText)
    <2>1. args \in Seq(T)
      BY DEF Lines
    <2> HIDE DEF T
    <2>2. args # <<>> /\ Len(args[1]) = 1
      BY <1>3 DEF HasVerb
    <2>3. n \in Nat /\ 1 \in 1 .. n /\ args[1] \in T /\ SubSeq(args, 1, n) = args
      BY <2>1, <2>2
    <2> QED BY <2>2, <2>3 DEF T
  <1>5. args[1] = <<verb>>
    <2> DEFINE w == args[1]
    <2> HIDE DEF w
    <2>1. w \in Seq(AnyText) /\ Len(w) = 1 => w = <<w[1]>>
      OBVIOUS
    <2> QED BY <1>4, <2>1 DEF w
  <1>6. /\ ConfigVerbs["show"] = "ConfigShow" /\ ConfigVerbs["check"] = "ConfigCheck"
        /\ ConfigVerbs["clear"] = "ConfigClear" /\ ConfigVerbs["unset"] = "ConfigUnset"
        /\ DOMAIN ConfigVerbs = {"show", "check", "clear", "unset"}
    BY DEF ConfigVerbs
  <1>7. unset <=> verb = "unset"
    BY <1>5
  <1>8. p = Action(ConfigVerbs[verb], IF unset THEN put ELSE read)
    BY <1>1, <1>3
  <1> HIDE DEF verb
  <1>9. CASE ~ unset
    <2>1. ConfigVerbs[verb] \in {"ConfigShow", "ConfigCheck", "ConfigClear"}
      BY <1>3, <1>6, <1>7, <1>9
    <2>2. p = Action(ConfigVerbs[verb], read) /\ body = SubSeq(args, 2, n)
      BY <1>8, <1>9
    <2> HIDE DEF read, unset
    <2>3. ~ read.error /\ p.action = ConfigVerbs[verb] /\ p.values = read.values
      BY <2>2, ActionIs
    <2>4. Trimmed(args, body, 1)
      <3>1. Trimmed(SubSeq(args, 1, n), SubSeq(args, 1 + 1, n), 1)
        BY <1>4, RestTrims
      <3>2. 1 + 1 = 2
        OBVIOUS
      <3> QED BY <1>4, <2>2, <3>1, <3>2
    <2>5. Accepted(body, read.values)
      <3>1. body \in Lines
        BY <2>4 DEF Trimmed
      <3>2. ~ parse_shared(body).error
        BY <2>3 DEF read
      <3> HIDE DEF body
      <3> QED BY <3>1, <3>2, SharedAccepts DEF read
    <2>6. Options(p) = p.values /\ p.action # "ConfigUnset"
      BY <2>1, <2>3 DEF Options
    <2> HIDE DEF body
    <2> QED BY <2>1, <2>3, <2>4, <2>5, <2>6 DEF Actions
  <1>10. CASE unset
    <2>1. ConfigVerbs[verb] = "ConfigUnset"
      BY <1>6, <1>7, <1>10
    <2>2. p = Action("ConfigUnset", put) /\ body = SubSeq(args, 3, n) /\ named
      BY <1>3, <1>8, <1>10, <2>1
    <2> HIDE DEF unset, put
    <2>3. ~ put.error /\ p.action = "ConfigUnset" /\ p.values = put.values
      BY <2>2, ActionIs
    <2>4. 2 \in 1 .. n /\ Len(args[2]) = 1
      BY <1>4, <2>2
    <2>5. Trimmed(args, body, 2)
      <3>1. Trimmed(SubSeq(args, 1, n), SubSeq(args, 1 + 1, n), 1)
        BY <1>4, RestTrims
      <3>2. Trimmed(SubSeq(args, 2, n), SubSeq(args, 2 + 1, n), 1)
        BY <2>4, RestTrims
      <3>3. 1 + 1 = 2 /\ 2 + 1 = 3 /\ 1 \in Nat
        OBVIOUS
      <3>4. Trimmed(args, SubSeq(args, 2, n), 1) /\ Trimmed(SubSeq(args, 2, n), body, 1)
        BY <1>4, <2>2, <3>1, <3>2, <3>3
      <3> HIDE DEF body
      <3>5. Trimmed(args, body, 1 + 1)
        BY <3>3, <3>4, TrimsOn
      <3> QED BY <3>3, <3>5
    <2>6. body \in Lines
      BY <2>5 DEF Trimmed
    <2> DEFINE V == read.values
               w == args[2]
               full == Put(V, "field", w)
    <2>7. DOMAIN read = {"error", "rest", "values"}
      <3> HIDE DEF body
      <3> QED BY <2>6, SharedKeeps
    <2> HIDE DEF read
    <2>8. put = [read EXCEPT !.values = full]
      BY DEF put
    <2> HIDE DEF full
    <2>9. ~ read.error /\ p.values = full
      BY <2>3, <2>7, <2>8
    <2>10. Accepted(body, V) /\ "field" \notin DOMAIN V
      <3>1. ~ parse_shared(body).error
        BY <2>9 DEF read
      <3> HIDE DEF body
      <3>2. /\ Accepted(body, parse_shared(body).values)
            /\ "field" \notin DOMAIN parse_shared(body).values
        BY <2>6, <3>1, SharedAccepts
      <3> QED BY <3>2 DEF read
    <2>11. Options(p) = V
      <3> HIDE DEF V
      <3>1. /\ DOMAIN full \ {"field"} = DOMAIN V
            /\ \A f \in DOMAIN V : full[f] = V[f]
        BY <2>10 DEF full, Put
      <3>2. Options(p) = [f \in DOMAIN full \ {"field"} |-> full[f]]
        BY <2>3, <2>9 DEF Options
      <3>3. [f \in DOMAIN V |-> V[f]] = V
        BY <2>10, AcceptedIs
      <3>4. Options(p) = [f \in DOMAIN V |-> V[f]]
        BY <3>1, <3>2
      <3> QED BY <3>3, <3>4
    <2> HIDE DEF body, V
    <2> QED BY <2>3, <2>5, <2>10, <2>11 DEF Actions
  <1> QED BY <1>9, <1>10

\* A line that is accepted has spent the arguments after its verb.
LEMMA ParseAccepts ==
  ASSUME NEW args \in Lines, ~ contains(args, "help"), ~ contains(args, "version"),
         NEW p, p = parse(args), ~ p.error
  PROVE  /\ p.action \in Actions
         /\ p.action = "Run" /\ HasVerb(args) => args[1] = <<"run">>
         /\ \E body : Accepted(body, Options(p)) /\ Trimmed(args, body, VerbWords(args, p.action))
  <1> DEFINE verb == args[1]
             tail == Tail(args)
             here == IF HasVerb(args) THEN tail ELSE args
  <1>1. p = IF ~ HasVerb(args) \/ verb = <<"run">> THEN Action("Run", parse_shared(here))
            ELSE CASE verb = <<"config">> -> ConfigAction(tail)
                   [] verb = <<"reload">> -> Action("Reload", parse_reload(tail))
                   [] OTHER -> Failed
    BY DEF parse
  <1>2. HasVerb(args) => Trimmed(args, tail, 1)
    BY TailTrims
  <1>3. Trimmed(args, args, 0)
    BY DEF Trimmed, Lines
  <1>4. Failed.error
    BY DEF Failed
  <1>5. <<"config">> # <<"reload">>
    OBVIOUS
  <1> DEFINE done == /\ p.action \in Actions
                     /\ p.action = "Run" /\ HasVerb(args) => verb = <<"run">>
                     /\ \E body : /\ Accepted(body, Options(p))
                                  /\ Trimmed(args, body, VerbWords(args, p.action))
  <1>6. done
    <2> HIDE DEF tail
    <2>1. CASE ~ HasVerb(args) \/ verb = <<"run">>
      <3> DEFINE state == parse_shared(here)
      <3>1. p = Action("Run", state)
        BY <1>1, <2>1
      <3>2. here \in Lines /\ Trimmed(args, here, IF HasVerb(args) THEN 1 ELSE 0)
        BY <1>2, <1>3 DEF Trimmed
      <3> HIDE DEF here, state
      <3>3. ~ state.error /\ p.action = "Run" /\ p.values = state.values
        BY <3>1, ActionIs
      <3>4. Accepted(here, state.values)
        BY <3>2, <3>3, SharedAccepts DEF state
      <3>5. Options(p) = state.values /\ VerbWords(args, "Run") = IF HasVerb(args) THEN 1 ELSE 0
        BY <3>3 DEF Options, VerbWords
      <3> HIDE DEF verb
      <3>6. HasVerb(args) => verb = <<"run">>
        BY <2>1
      <3> QED BY <3>2, <3>3, <3>4, <3>5, <3>6 DEF Actions
    <2>2. CASE HasVerb(args) /\ verb = <<"config">>
      <3>1. p = ConfigAction(tail)
        BY <1>1, <2>2
      <3>2. tail \in Lines /\ Trimmed(args, tail, 1)
        BY <1>2, <2>2 DEF Trimmed
      <3>3. p.action \in Actions \ {"Run", "Reload"}
        BY <3>1, <3>2, ConfigAccepts
      <3>4. PICK body : /\ Accepted(body, Options(p))
                        /\ Trimmed(tail, body, IF p.action = "ConfigUnset" THEN 2 ELSE 1)
        BY <3>1, <3>2, ConfigAccepts
      <3> DEFINE k == IF p.action = "ConfigUnset" THEN 2 ELSE 1
      <3>5. k \in Nat /\ VerbWords(args, p.action) = k + 1
        BY <3>3 DEF VerbWords, Actions
      <3>6. Trimmed(tail, body, k)
        BY <3>4
      <3> HIDE DEF k
      <3>7. Trimmed(args, body, k + 1)
        BY <3>2, <3>5, <3>6, TrimsOn
      <3>8. Trimmed(args, body, VerbWords(args, p.action))
        BY <3>5, <3>7
      <3> QED BY <3>3, <3>4, <3>8
    <2>3. CASE HasVerb(args) /\ verb = <<"reload">>
      <3> DEFINE state == parse_reload(tail)
      <3>1. p = Action("Reload", state)
        BY <1>1, <1>5, <2>3
      <3>2. tail \in Lines /\ Trimmed(args, tail, 1)
        BY <1>2, <2>3 DEF Trimmed
      <3> HIDE DEF state
      <3>3. ~ state.error /\ p.action = "Reload" /\ p.values = state.values
        BY <3>1, ActionIs
      <3>4. Accepted(tail, state.values)
        BY <3>2, <3>3, ReloadAccepts DEF state
      <3>5. Options(p) = state.values /\ VerbWords(args, "Reload") = 1
        BY <3>3 DEF Options, VerbWords
      <3> QED BY <3>2, <3>3, <3>4, <3>5 DEF Actions
    <2>4. CASE HasVerb(args) /\ verb \notin {<<"run">>, <<"config">>, <<"reload">>}
      BY <1>1, <1>4, <2>4
    <2> HIDE DEF done
    <2> QED BY <2>1, <2>2, <2>3, <2>4
  <1> QED BY <1>6

\* No argument of an accepted line could have been left out.
LEMMA NothingIgnored ==
  ASSUME NEW args \in Lines, ~ contains(args, "help"), ~ contains(args, "version"),
         ~ parse(args).error, NEW i \in 1 .. Len(args), args[i] # <<"run">>
  PROVE  parse(RemoveAt(args, i)) # parse(args)
  <1> DEFINE p == parse(args)
             b == RemoveAt(args, i)
  <1> SUFFICES ASSUME parse(b) = p PROVE FALSE
    OBVIOUS
  <1>1. b \in Lines /\ LeftOut(args, i, b)
    BY RemovedIs DEF LeftOut
  <1>2. /\ p.action \in Actions
        /\ p.action = "Run" /\ HasVerb(args) => args[1] = <<"run">>
        /\ \E body : Accepted(body, Options(p)) /\ Trimmed(args, body, VerbWords(args, p.action))
    <2> HIDE DEF p
    <2> QED BY ParseAccepts DEF p
  <1>3. PICK mine : Accepted(mine, Options(p)) /\ Trimmed(args, mine, VerbWords(args, p.action))
    BY <1>2
  <1> HIDE DEF b, p
  <1>4. ~ contains(b, "help") /\ ~ contains(b, "version")
    <2>1. contains(b, "help") => parse(b).action = "Help"
      BY DEF parse
    <2>2. ~ contains(b, "help") /\ contains(b, "version") => parse(b).action = "Version"
      BY DEF parse
    <2> QED BY <1>2, <2>1, <2>2 DEF Actions
  <1>5. ~ p.error
    BY DEF p
  <1>6. PICK yours : Accepted(yours, Options(p)) /\ Trimmed(b, yours, VerbWords(b, p.action))
    BY <1>1, <1>4, <1>5, ParseAccepts
  <1> DEFINE k == VerbWords(args, p.action)
             m == VerbWords(b, p.action)
  <1>7. k \in Nat /\ m \in Nat /\ k <= m
    <2>1. CASE p.action # "Run"
      BY <2>1 DEF VerbWords
    <2>2. CASE p.action = "Run"
      <3>1. HasVerb(args) => HasVerb(b)
        <4> SUFFICES ASSUME HasVerb(args) PROVE HasVerb(b)
          OBVIOUS
        <4>1. args[1] = <<"run">> /\ i # 1
          BY <1>2, <2>2
        <4>2. 1 < i /\ Len(args) \in Nat /\ 1 \in 1 .. Len(args) - 1
          BY <4>1 DEF Lines
        <4>3. b[1] = args[1] /\ 1 \in 1 .. Len(b)
          BY <1>1, <4>2 DEF LeftOut
        <4>4. b # <<>>
          BY <4>3
        <4>5. Len(b[1]) = 1
          BY <4>1, <4>3
        <4> QED BY <4>4, <4>5 DEF HasVerb
      <3> QED BY <2>2, <3>1 DEF VerbWords
    <2> QED BY <2>1, <2>2
  <1> HIDE DEF k, m
  <1>8. /\ Len(args) \in Nat /\ Len(b) = Len(args) - 1
        /\ mine \in Lines /\ yours \in Lines
        /\ Len(mine) = Len(args) - k /\ Len(yours) = Len(b) - m
    BY <1>1, <1>3, <1>6 DEF Trimmed, LeftOut, Lines, k, m
  <1>9. Len(yours) < Len(mine)
    BY <1>7, <1>8
  <1>10. ASSUME NEW g, NEW x PROVE Times(yours, Flagged(g, x)) <= Times(mine, Flagged(g, x))
    <2> DEFINE e == Flagged(g, x)
    <2>1. Times(yours, e) = Times(b, e) /\ Times(mine, e) = Times(args, e)
      BY <1>3, <1>6 DEF Trimmed
    <2> HIDE DEF e
    <2>2. Times(b, e) \in Nat /\ Times(args, e) = Times(b, e) + (IF args[i] = e THEN 1 ELSE 0)
      BY <1>1, TimesWithout
    <2>3. Times(yours, e) <= Times(mine, e)
      BY <2>1, <2>2
    <2> QED BY <2>3 DEF e
  <1> QED BY <1>3, <1>6, <1>8, <1>9, <1>10, AcceptedOnce

\* NothingIsIgnored: no argument is silently ignored.
LEMMA WordsAreRead ==
  ASSUME input.of = "words" => /\ input.args \in Lines
                               /\ ~ contains(input.args, "help")
                               /\ ~ contains(input.args, "version")
  PROVE  NothingIsIgnored
  <1> SUFFICES ASSUME Given_("words") PROVE NothingIsIgnored
    BY DEF NothingIsIgnored
  <1> DEFINE args == input.args
  <1>1. args \in Lines /\ ~ contains(args, "help") /\ ~ contains(args, "version")
    BY DEF Given_
  <1>2. DOMAIN args = 1 .. Len(args)
    BY <1>1 DEF Lines
  <1> HIDE DEF args
  <1>3. ~ parse(args).error => \A i \in DOMAIN args : args[i] # <<"run">> =>
          parse(RemoveAt(args, i)) # parse(args)
    BY <1>1, <1>2, NothingIgnored
  <1> QED BY <1>3 DEF NothingIsIgnored, args

\* The ways an option can be written.
WaysToWrite(f) ==
  IF StandsAlone(f)
  THEN {<<<<"--", f>>>>}
         \union {form \in {<<<<"--", f, v>>>> : v \in STRING} :
                   f \notin BareFlags /\ parse_bool_lenient(form[1][3]) # Rejected}
  ELSE {<<<<"--", f>>, <<v>>>> : v \in STRING} \union {<<<<"--", f, v>>>> : v \in STRING}
         \union {form \in {<<<<"-", f>>, <<v>>>> : v \in STRING} : f \in Shorts}

\* How many arguments they are, and how they begin.
WellShaped(f, form) ==
  /\ form \in Lines /\ form[1][2] = f
  /\ \/ Len(form) = 1 /\ Len(form[1]) \in {2, 3}
     \/ Len(form) = 2 /\ Len(form[1]) = 2 /\ Len(form[2]) = 1

\* What is to be read.
Told(f, form) ==
  \/ StandsAlone(f) /\ Len(form) = 1 /\ form[1] = <<"--", f>>
  \/ /\ Len(form) = 1 /\ form[1] = <<"--", f, form[1][3]>>
     /\ StandsAlone(f) => f \notin BareFlags /\ parse_bool_lenient(form[1][3]) # Rejected
  \/ /\ ~ StandsAlone(f) /\ Len(form) = 2
     /\ form[1] = <<"--", f>> \/ (f \in Shorts /\ form[1] = <<"-", f>>)

\* The parts of an argument.
LEMMA TupleOfThree ==
  ASSUME NEW S
  PROVE  /\ \A a, b, c \in S :
              LET w == <<a, b, c>> IN w \in Seq(S) /\ Len(w) = 3 /\ w[2] = b /\ w[3] = c
         /\ \A a, b \in S : LET w == <<a, b>> IN w \in Seq(S) /\ Len(w) = 2 /\ w[2] = b
         /\ \A a \in S : <<a>> \in Seq(S) /\ Len(<<a>>) = 1
  OBVIOUS

\* A way to write an option is a form of it, and tells its value.
LEMMA SpellingIs ==
  ASSUME NEW f \in ServerOptions, NEW form \in WaysToWrite(f)
  PROVE  WellShaped(f, form) /\ Told(f, form)
  <1> DEFINE T == Seq(AnyText)
  <1>0. f \in AnyText /\ "-" \in AnyText /\ "--" \in AnyText /\ STRING \subseteq AnyText
    BY DEF AnyText
  <1>1. ASSUME NEW v \in STRING, form = <<<<"--", f, v>>>>
        PROVE  WellShaped(f, form) /\ form[1] = <<"--", f, form[1][3]>> /\ Len(form) = 1
    <2> DEFINE w == <<"--", f, v>>
    <2>1. w \in T /\ Len(w) = 3 /\ w[2] = f /\ w[3] = v
      BY <1>0, TupleOfThree
    <2>2. form = <<w>>
      BY <1>1
    <2>3. w = <<"--", f, w[3]>>
      BY <2>1
    <2> HIDE DEF w, T
    <2>4. form \in Seq(T) /\ Len(form) = 1 /\ form[1] = w
      BY <2>1, <2>2
    <2> QED BY <2>1, <2>3, <2>4 DEF WellShaped, Lines, T
  <1>2. ASSUME NEW v \in STRING, NEW dash \in {"-", "--"}, form = <<<<dash, f>>, <<v>>>>
        PROVE  WellShaped(f, form) /\ form[1] = <<dash, f>> /\ Len(form) = 2
    <2> DEFINE w == <<dash, f>>
               x == <<v>>
    <2>1. w \in T /\ Len(w) = 2 /\ w[2] = f /\ x \in T /\ Len(x) = 1
      BY <1>0, TupleOfThree
    <2>2. form = <<w, x>>
      BY <1>2
    <2> HIDE DEF w, x, T
    <2>3. form \in Seq(T) /\ Len(form) = 2 /\ form[1] = w /\ form[2] = x
      BY <2>1, <2>2
    <2>4. WellShaped(f, form)
      BY <2>1, <2>3 DEF WellShaped, Lines, T
    <2> QED BY <2>3, <2>4 DEF w
  <1>3. ASSUME form = <<<<"--", f>>>>
        PROVE  WellShaped(f, form) /\ form[1] = <<"--", f>> /\ Len(form) = 1
    <2> DEFINE w == <<"--", f>>
    <2>1. w \in T /\ Len(w) = 2 /\ w[2] = f
      BY <1>0, TupleOfThree
    <2>2. form = <<w>>
      BY <1>3
    <2> HIDE DEF w, T
    <2>3. form \in Seq(T) /\ Len(form) = 1 /\ form[1] = w
      BY <2>1, <2>2
    <2>4. WellShaped(f, form)
      BY <2>1, <2>3 DEF WellShaped, Lines, T
    <2> QED BY <2>3, <2>4 DEF w
  <1>4. CASE StandsAlone(f)
    <2>1. CASE form = <<<<"--", f>>>>
      BY <1>3, <1>4, <2>1 DEF Told
    <2>2. CASE form # <<<<"--", f>>>>
      <3>1. /\ \E v \in STRING : form = <<<<"--", f, v>>>>
            /\ f \notin BareFlags /\ parse_bool_lenient(form[1][3]) # Rejected
        BY <1>4, <2>2 DEF WaysToWrite
      <3>2. PICK v \in STRING : form = <<<<"--", f, v>>>>
        BY <3>1
      <3>3. WellShaped(f, form) /\ form[1] = <<"--", f, form[1][3]>> /\ Len(form) = 1
        BY <1>1, <3>2
      <3> QED BY <3>1, <3>3 DEF Told
    <2> QED BY <2>1, <2>2
  <1>5. CASE ~ StandsAlone(f)
    <2>1. \/ \E v \in STRING : form = <<<<"--", f>>, <<v>>>>
          \/ \E v \in STRING : form = <<<<"--", f, v>>>>
          \/ f \in Shorts /\ \E v \in STRING : form = <<<<"-", f>>, <<v>>>>
      BY <1>5 DEF WaysToWrite
    <2>2. CASE \E v \in STRING : form = <<<<"--", f>>, <<v>>>>
      <3>1. WellShaped(f, form) /\ form[1] = <<"--", f>> /\ Len(form) = 2
        BY <1>2, <2>2
      <3> QED BY <1>5, <3>1 DEF Told
    <2>3. CASE \E v \in STRING : form = <<<<"--", f, v>>>>
      <3>1. WellShaped(f, form) /\ form[1] = <<"--", f, form[1][3]>> /\ Len(form) = 1
        BY <1>1, <2>3
      <3> QED BY <1>5, <3>1 DEF Told
    <2>4. CASE f \in Shorts /\ \E v \in STRING : form = <<<<"-", f>>, <<v>>>>
      <3>1. WellShaped(f, form) /\ form[1] = <<"-", f>> /\ Len(form) = 2
        BY <1>2, <2>4
      <3> QED BY <1>5, <2>4, <3>1 DEF Told
    <2> QED BY <2>1, <2>2, <2>3, <2>4
  <1> QED BY <1>4, <1>5

\* Where the form of an option stands on a line, and that it stands there once.
StandsAt(rest, form, i) ==
  /\ rest[i] = form[1]
  /\ Len(form) = 2 => i + 1 <= Len(rest) /\ rest[i + 1] = form[2]
  /\ \A j \in 1 .. Len(rest) : rest[j] = form[1] => j = i

\* Argument i is in a form.
Within(rest, form, i) ==
  \/ rest[i] = form[1]
  \/ i > 1 /\ Len(form) = 2 /\ rest[i - 1] = form[1] /\ rest[i] = form[2]

\* A line that is made of the forms of some options, in any order.
MadeOf(rest, forms, names) ==
  /\ rest \in Lines
  /\ \A i \in 1 .. Len(rest) : \E f \in names : Within(rest, forms[f], i)
  /\ \A f \in names : \E i \in 1 .. Len(rest) : StandsAt(rest, forms[f], i)

\* The forms of options.
FormsOf(forms, names) == \A f \in names : WellShaped(f, forms[f])

\* A line without some of its arguments.
Cut(rest, i, d, r) ==
  /\ r \in Lines /\ Len(r) = Len(rest) - d
  /\ \A j \in 1 .. Len(r) : r[j] = IF j < i THEN rest[j] ELSE rest[j + d]

\* Without the form of an option the line is made of the others.
LEMMA CutLeaves ==
  ASSUME NEW names, NEW forms, FormsOf(forms, names), NEW rest, MadeOf(rest, forms, names),
         NEW f \in names, NEW i \in 1 .. Len(rest), StandsAt(rest, forms[f], i),
         NEW d \in {1, 2}, Len(forms[f]) = d, NEW r, Cut(rest, i, d, r)
  PROVE  MadeOf(r, forms, names \ {f})
  <1> DEFINE n == Len(rest)
             m == Len(r)
             back(j) == IF j < i THEN j ELSE j + d
             head(g) == forms[g][1]
             two(g) == Len(forms[g]) = 2
             next(g) == forms[g][2]
  <1>1. /\ n \in Nat /\ m = n - d /\ r \in Lines /\ i \in 1 .. n /\ i \in Nat
        /\ \A j \in 1 .. m : r[j] = rest[back(j)]
    <2>1. Len(rest) \in Nat /\ Len(r) = Len(rest) - d /\ r \in Lines
      BY DEF MadeOf, Cut, Lines
    <2>2. \A j \in 1 .. m : r[j] = rest[back(j)]
      BY DEF Cut
    <2>3. i \in Nat
      BY <2>1
    <2> QED BY <2>1, <2>2, <2>3
  <1>2. /\ \A g \in names : Len(head(g)) # 1 /\ head(g)[2] = g
        /\ \A g \in names : two(g) => Len(next(g)) = 1
    BY DEF FormsOf, WellShaped
  <1>3. /\ \A g, h \in names : head(g) = head(h) => g = h
        /\ \A g, h \in names : two(h) => head(g) # next(h)
    BY <1>2
  <1>4. /\ rest[i] = head(f) /\ (d = 2 => i + 1 <= n /\ rest[i + 1] = next(f) /\ two(f))
        /\ (two(f) => d = 2)
        /\ \A j \in 1 .. n : rest[j] = head(f) => j = i
    BY DEF StandsAt
  <1>5. /\ \A j \in 1 .. n : \E g \in names :
             \/ rest[j] = head(g)
             \/ j > 1 /\ two(g) /\ rest[j - 1] = head(g) /\ rest[j] = next(g)
        /\ \A g \in names : \E j \in 1 .. n :
             /\ rest[j] = head(g) /\ (two(g) => j + 1 <= n /\ rest[j + 1] = next(g))
             /\ \A k \in 1 .. n : rest[k] = head(g) => k = j
    BY DEF MadeOf, Within, StandsAt
  <1> HIDE DEF n, m, head, two, next
  <1>6. \A j \in 1 .. m : back(j) \in 1 .. n /\ back(j) # i /\ (d = 2 => back(j) # i + 1)
    BY <1>1
  <1>7. \A j \in 1 .. n : j # i /\ (d = 2 => j # i + 1) => \E k \in 1 .. m : back(k) = j
    <2> SUFFICES ASSUME NEW j \in 1 .. n, j # i, d = 2 => j # i + 1
                 PROVE  \E k \in 1 .. m : back(k) = j
      OBVIOUS
    <2>1. CASE j < i
      <3>1. j \in 1 .. m
        BY <1>1, <1>4, <2>1
      <3> QED BY <2>1, <3>1
    <2>2. CASE ~ (j < i)
      <3>1. j - d \in 1 .. m /\ ~ (j - d < i) /\ (j - d) + d = j
        BY <1>1, <2>2
      <3> QED BY <3>1
    <2> QED BY <2>1, <2>2
  <1>8. \A j, k \in 1 .. m : back(j) = back(k) => j = k
    BY <1>1
  <1>9. ASSUME NEW j \in 1 .. m PROVE \E g \in names \ {f} : Within(r, forms[g], j)
    <2> DEFINE b == back(j)
    <2>1. b \in 1 .. n /\ b # i /\ (d = 2 => b # i + 1) /\ r[j] = rest[b]
      BY <1>1, <1>6
    <2>2. (j > 1 /\ b - 1 # i /\ (d = 2 => b - 1 # i + 1)) => back(j - 1) = b - 1 /\ j - 1 \in 1 .. m
      BY <1>1
    <2>3. b > 1 /\ j = 1 => b - 1 = i \/ (d = 2 /\ b - 1 = i + 1)
      BY <1>1
    <2>4. j \in Int /\ b \in Int
      BY <1>1
    <2> HIDE DEF b
    <2>5. PICK g \in names : \/ rest[b] = head(g)
                             \/ b > 1 /\ two(g) /\ rest[b - 1] = head(g) /\ rest[b] = next(g)
      BY <1>5, <2>1
    <2>6. CASE rest[b] = head(g)
      <3>1. g # f
        BY <1>4, <2>1, <2>6
      <3>2. Within(r, forms[g], j)
        BY <2>1, <2>6 DEF Within, head
      <3> QED BY <3>1, <3>2
    <2>7. CASE b > 1 /\ two(g) /\ rest[b - 1] = head(g) /\ rest[b] = next(g)
      <3>1. b - 1 \in 1 .. n
        BY <1>1, <2>1, <2>7
      <3>2. g # f
        <4> SUFFICES ASSUME g = f PROVE FALSE
          OBVIOUS
        <4>1. b - 1 = i /\ d = 2
          BY <1>4, <2>7, <3>1
        <4> QED BY <1>1, <2>1, <2>4, <4>1
      <3>3. b - 1 # i
        BY <1>3, <1>4, <2>7, <3>2
      <3>4. d = 2 => b - 1 # i + 1
        BY <1>3, <1>4, <2>7
      <3>5. j > 1
        BY <1>1, <2>3, <2>4, <2>7, <3>3, <3>4
      <3>6. back(j - 1) = b - 1 /\ j - 1 \in 1 .. m
        BY <2>2, <3>3, <3>4, <3>5
      <3>7. r[j - 1] = head(g)
        BY <1>1, <2>7, <3>6
      <3>8. Within(r, forms[g], j)
        BY <2>1, <2>7, <3>5, <3>7 DEF Within, head, two, next
      <3> QED BY <3>2, <3>8
    <2> QED BY <2>5, <2>6, <2>7
  <1>10. ASSUME NEW g \in names \ {f} PROVE \E j \in 1 .. m : StandsAt(r, forms[g], j)
    <2>1. PICK b \in 1 .. n :
            /\ rest[b] = head(g) /\ (two(g) => b + 1 <= n /\ rest[b + 1] = next(g))
            /\ \A k \in 1 .. n : rest[k] = head(g) => k = b
      BY <1>5
    <2>2. b # i
      BY <1>3, <1>4, <2>1
    <2>3. d = 2 => b # i + 1
      BY <1>3, <1>4, <2>1
    <2>4. PICK j \in 1 .. m : back(j) = b
      BY <1>7, <2>2, <2>3
    <2>5. r[j] = head(g)
      BY <1>1, <2>1, <2>4
    <2>6. \A k \in 1 .. m : r[k] = head(g) => k = j
      BY <1>1, <1>6, <1>8, <2>1, <2>4
    <2>7. ASSUME two(g) PROVE j + 1 <= m /\ r[j + 1] = next(g)
      <3>1. b + 1 <= n /\ rest[b + 1] = next(g) /\ b + 1 \in 1 .. n
        BY <1>1, <2>1, <2>7
      <3>2. b + 1 # i
        BY <1>3, <1>4, <2>7, <3>1
      <3>3. back(j) = b /\ j \in 1 .. m
        BY <2>4
      <3>4. j + 1 \in 1 .. m /\ back(j + 1) = b + 1
        BY <1>1, <1>4, <3>1, <3>2, <3>3
      <3>5. r[j + 1] = next(g)
        BY <1>1, <3>1, <3>4
      <3> QED BY <1>1, <3>4, <3>5
    <2>8. StandsAt(r, forms[g], j)
      BY <2>5, <2>6, <2>7 DEF StandsAt, head, two, next, m
    <2> QED BY <2>8
  <1> QED BY <1>1, <1>9, <1>10 DEF MadeOf, m

\* Forms one after another, as they are flattened.
Joins(g, seqs, n) ==
  g[1] = seqs[1] /\ \A i \in 2 .. n : g[i] = g[i - 1] \o seqs[i]

\* There is always one such.
LEMMA JoinsExist ==
  ASSUME NEW n \in Nat \ {0}, NEW seqs
  PROVE  \E g : Joins(g, seqs, n) /\ g = [i \in 1 .. n |-> g[i]]
  <1> DEFINE wrong == {m \in Nat \ {0} : ~ \E g : Joins(g, seqs, m) /\ g = [i \in 1 .. m |-> g[i]]}
             least == Min(wrong)
  <1> SUFFICES ASSUME n \in wrong PROVE FALSE
    OBVIOUS
  <1>1. least \in wrong /\ \A j \in wrong : least <= j
    <2>1. wrong \in SUBSET Nat /\ wrong # {}
      OBVIOUS
    <2> HIDE DEF wrong
    <2> QED BY <2>1, LeastExists
  <1> HIDE DEF least
  <1>2. CASE least = 1
    <2> DEFINE one == [i \in 1 .. 1 |-> seqs[1]]
    <2>1. Joins(one, seqs, 1) /\ one = [i \in 1 .. 1 |-> one[i]]
      BY DEF Joins
    <2> HIDE DEF one
    <2> QED BY <1>1, <1>2, <2>1
  <1>3. CASE least # 1
    <2>1. least \in Nat \ {0} /\ least - 1 \in Nat \ {0} /\ ~ (least <= least - 1)
      BY <1>1, <1>3
    <2>2. PICK g : Joins(g, seqs, least - 1)
      BY <1>1, <2>1
    <2> DEFINE last == g[least - 1] \o seqs[least]
               g2 == [i \in 1 .. least |-> IF i = least THEN last ELSE g[i]]
    <2> HIDE DEF last
    <2>3. g2 = [i \in 1 .. least |-> g2[i]]
      OBVIOUS
    <2>4. /\ g2[least] = last
          /\ \A i \in 1 .. least - 1 : g2[i] = g[i]
      BY <2>1
    <2> HIDE DEF g2
    <2>5. g2[1] = seqs[1]
      BY <2>1, <2>2, <2>4 DEF Joins
    <2>6. ASSUME NEW i \in 2 .. least PROVE g2[i] = g2[i - 1] \o seqs[i]
      <3>1. CASE i = least
        <4>1. least - 1 \in 1 .. least - 1
          BY <2>1, <3>1
        <4>2. g2[least - 1] = g[least - 1]
          BY <2>4, <4>1
        <4>3. g2[least - 1] \o seqs[least] = last
          BY <4>2 DEF last
        <4> QED BY <2>4, <3>1, <4>3
      <3>2. CASE i # least
        <4>1. i \in 2 .. least - 1 /\ i \in 1 .. least - 1 /\ i - 1 \in 1 .. least - 1
          BY <2>1, <3>2
        <4> QED BY <2>2, <2>4, <4>1 DEF Joins
      <3> QED BY <3>1, <3>2
    <2>7. Joins(g2, seqs, least)
      BY <2>5, <2>6 DEF Joins
    <2> QED BY <1>1, <2>3, <2>7
  <1> QED BY <1>2, <1>3

\* FlattenSeq comes to the last of them.
LEMMA FlattenJoins ==
  ASSUME NEW seqs, Len(seqs) \in Nat \ {0}
  PROVE  \E g : Joins(g, seqs, Len(seqs)) /\ FlattenSeq(seqs) = g[Len(seqs)]
  <1> DEFINE n == Len(seqs)
             Step(g) == [i \in 1 .. n |-> IF i = 1 THEN seqs[i] ELSE g[i - 1] \o seqs[i]]
             flat == CHOOSE g : g = Step(g)
  <1>1. FlattenSeq(seqs) = flat[n]
    BY DEF FlattenSeq
  <1>2. PICK g : Joins(g, seqs, n) /\ g = [i \in 1 .. n |-> g[i]]
    BY JoinsExist
  <1>3. ASSUME NEW i \in 1 .. n
        PROVE  g[i] = IF i = 1 THEN seqs[i] ELSE g[i - 1] \o seqs[i]
    <2> DEFINE last == g[i - 1] \o seqs[i]
    <2>1. i # 1 => i \in 2 .. n
      OBVIOUS
    <2>2. i # 1 => g[i] = last
      BY <1>2, <2>1 DEF Joins
    <2> HIDE DEF last
    <2>3. g[i] = IF i = 1 THEN seqs[i] ELSE last
      BY <1>2, <2>2 DEF Joins
    <2> QED BY <2>3 DEF last
  <1>4. g = Step(g)
    BY <1>2, <1>3
  <1> HIDE DEF Step, n
  <1>5. flat = Step(flat)
    BY <1>4
  <1> HIDE DEF flat
  <1>6. \A i \in 1 .. n : flat[i] = IF i = 1 THEN seqs[i] ELSE flat[i - 1] \o seqs[i]
    BY <1>5 DEF Step
  <1>7. 1 \in 1 .. n /\ \A i \in 2 .. n : i \in 1 .. n /\ i # 1
    BY DEF n
  <1>8. Joins(flat, seqs, n)
    BY <1>6, <1>7 DEF Joins
  <1> QED BY <1>1, <1>8 DEF n

\* A form more at the end of a line.
LEMMA FormAdds ==
  ASSUME NEW names, NEW forms, NEW rest, MadeOf(rest, forms, names),
         NEW f, f \notin names, FormsOf(forms, names \union {f})
  PROVE  MadeOf(rest \o forms[f], forms, names \union {f})
  <1> DEFINE n == Len(rest)
             form == forms[f]
             d == Len(form)
             r == rest \o form
             head(g) == forms[g][1]
             two(g) == Len(forms[g]) = 2
             next(g) == forms[g][2]
             T == Seq(AnyText)
             all == names \union {f}
  <1>1. /\ rest \in Seq(T) /\ form \in Seq(T) /\ d \in {1, 2} /\ n \in Nat
        /\ (two(f) <=> d = 2)
    BY DEF MadeOf, Lines, FormsOf, WellShaped
  <1>2. /\ r \in Seq(T) /\ Len(r) = n + d
        /\ \A i \in 1 .. n : r[i] = rest[i]
        /\ r[n + 1] = head(f) /\ (d = 2 => r[n + 2] = next(f))
    <2> HIDE DEF T, form
    <2>1. /\ r \in Seq(T) /\ Len(r) = n + d
          /\ \A i \in 1 .. n + d : r[i] = IF i <= n THEN rest[i] ELSE form[i - n]
      BY <1>1
    <2>2. \A i \in 1 .. n : r[i] = rest[i]
      BY <1>1, <2>1
    <2>3. r[n + 1] = form[1] /\ (d = 2 => r[n + 2] = form[2])
      BY <1>1, <2>1
    <2> QED BY <2>1, <2>2, <2>3 DEF form
  <1>3. /\ \A g \in all : Len(head(g)) # 1 /\ head(g)[2] = g
        /\ \A g \in all : two(g) => Len(next(g)) = 1
    BY DEF FormsOf, WellShaped
  <1>4. /\ \A g, h \in all : head(g) = head(h) => g = h
        /\ \A g, h \in all : two(h) => head(g) # next(h)
    BY <1>3
  <1>5. /\ \A j \in 1 .. n : \E g \in names :
             \/ rest[j] = head(g)
             \/ j > 1 /\ two(g) /\ rest[j - 1] = head(g) /\ rest[j] = next(g)
        /\ \A g \in names : \E j \in 1 .. n :
             /\ rest[j] = head(g) /\ (two(g) => j + 1 <= n /\ rest[j + 1] = next(g))
             /\ \A k \in 1 .. n : rest[k] = head(g) => k = j
    BY DEF MadeOf, Within, StandsAt
  <1> HIDE DEF r, T, d, n, head, two, next
  <1>6. ASSUME NEW i \in 1 .. Len(r) PROVE \E g \in all : Within(r, forms[g], i)
    <2>1. CASE i \in 1 .. n
      <3>1. PICK g \in names :
              \/ rest[i] = head(g)
              \/ i > 1 /\ two(g) /\ rest[i - 1] = head(g) /\ rest[i] = next(g)
        BY <1>5, <2>1
      <3>2. i > 1 => i - 1 \in 1 .. n
        BY <2>1, <1>1
      <3>3. \/ r[i] = head(g)
            \/ i > 1 /\ two(g) /\ r[i - 1] = head(g) /\ r[i] = next(g)
        BY <1>2, <2>1, <3>1, <3>2
      <3>4. Within(r, forms[g], i)
        BY <3>3 DEF Within, head, two, next
      <3> QED BY <3>4
    <2>2. CASE i \notin 1 .. n
      <3>1. i = n + 1 \/ (d = 2 /\ i = n + 2)
        BY <1>1, <1>2, <2>2
      <3>2. r[i] = head(f) \/ (i > 1 /\ two(f) /\ r[i - 1] = head(f) /\ r[i] = next(f))
        <4>1. (n + 2) - 1 = n + 1 /\ n + 2 > 1
          BY <1>1
        <4> QED BY <1>1, <1>2, <3>1, <4>1
      <3>3. Within(r, forms[f], i)
        BY <3>2 DEF Within, head, two, next
      <3> QED BY <3>3
    <2> QED BY <2>1, <2>2
  <1>7. ASSUME NEW j \in 1 .. Len(r)
        PROVE  \/ j \in 1 .. n /\ r[j] = rest[j]
               \/ j = n + 1 /\ r[j] = head(f)
               \/ j = n + 2 /\ two(f) /\ r[j] = next(f)
    BY <1>1, <1>2
  <1>8. ASSUME NEW g \in names PROVE \E i \in 1 .. Len(r) : StandsAt(r, forms[g], i)
    <2>1. PICK i \in 1 .. n :
            /\ rest[i] = head(g) /\ (two(g) => i + 1 <= n /\ rest[i + 1] = next(g))
            /\ \A k \in 1 .. n : rest[k] = head(g) => k = i
      BY <1>5
    <2>2. i \in 1 .. Len(r) /\ r[i] = head(g)
      BY <1>1, <1>2, <2>1
    <2>3. ASSUME two(g) PROVE i + 1 <= Len(r) /\ r[i + 1] = next(g)
      <3>1. i + 1 \in 1 .. n
        BY <1>1, <2>1, <2>3
      <3> QED BY <1>1, <1>2, <2>1, <2>3, <3>1
    <2>4. \A j \in 1 .. Len(r) : r[j] = head(g) => j = i
      <3>1. head(g) # head(f) /\ (two(f) => head(g) # next(f))
        BY <1>4
      <3> QED BY <1>7, <2>1, <3>1
    <2>5. StandsAt(r, forms[g], i)
      BY <2>2, <2>3, <2>4 DEF StandsAt, head, two, next
    <2> QED BY <2>2, <2>5
  <1>9. \E i \in 1 .. Len(r) : StandsAt(r, forms[f], i)
    <2> DEFINE i == n + 1
    <2>1. i \in 1 .. Len(r) /\ r[i] = head(f)
      BY <1>1, <1>2
    <2>2. two(f) => i + 1 <= Len(r) /\ r[i + 1] = next(f)
      <3>1. i + 1 = n + 2
        BY <1>1
      <3> QED BY <1>1, <1>2, <3>1
    <2>3. ASSUME NEW j \in 1 .. Len(r), r[j] = head(f) PROVE j = i
      <3>1. CASE j \in 1 .. n /\ r[j] = rest[j]
        <4>1. PICK g \in names :
                \/ rest[j] = head(g)
                \/ j > 1 /\ two(g) /\ rest[j - 1] = head(g) /\ rest[j] = next(g)
          BY <1>5, <3>1
        <4>2. head(f) # head(g) /\ (two(g) => head(f) # next(g))
          BY <1>4
        <4> QED BY <2>3, <3>1, <4>1, <4>2
      <3>2. CASE j = n + 2 /\ two(f) /\ r[j] = next(f)
        BY <1>4, <2>3, <3>2
      <3> QED BY <1>7, <3>1, <3>2
    <2> HIDE DEF i
    <2>4. StandsAt(r, forms[f], i)
      BY <2>1, <2>2, <2>3 DEF StandsAt, head, two, next
    <2> QED BY <2>1, <2>4
  <1>10. r \in Lines
    BY <1>2 DEF Lines, T
  <1>11. MadeOf(r, forms, all)
    BY <1>6, <1>8, <1>9, <1>10 DEF MadeOf
  <1> QED BY <1>11 DEF r

\* Only forms begin with an option.
LEMMA OptionAt ==
  ASSUME NEW names, NEW forms, FormsOf(forms, names), NEW rest, MadeOf(rest, forms, names),
         NEW j \in 1 .. Len(rest), Len(rest[j]) # 1
  PROVE  rest[j][2] \in names /\ rest[j] = forms[rest[j][2]][1]
  <1>1. PICK g \in names : Within(rest, forms[g], j)
    BY DEF MadeOf
  <1>2. WellShaped(g, forms[g])
    BY DEF FormsOf
  <1> DEFINE form == forms[g]
             w == rest[j]
  <1>3. form[1][2] = g /\ (Len(form) = 2 => Len(form[2]) = 1) /\ Len(w) # 1
    BY <1>2 DEF WellShaped
  <1>4. w = form[1] \/ (Len(form) = 2 /\ w = form[2])
    BY <1>1 DEF Within
  <1> HIDE DEF w, form
  <1>5. w = form[1]
    BY <1>3, <1>4
  <1>6. w[2] = g
    BY <1>3, <1>5
  <1> QED BY <1>5, <1>6 DEF w, form

\* The first of the places is the only one.
LEMMA FirstIs ==
  /\ FirstIndex({}) = 0
  /\ \A i \in Nat : FirstIndex({i}) = i
  <1>1. FirstIndex({}) = 0
    BY DEF FirstIndex
  <1>2. ASSUME NEW i \in Nat PROVE FirstIndex({i}) = i
    <2>1. \A k \in {i} : \A j \in {i} : k <= j
      OBVIOUS
    <2>2. (CHOOSE k \in {i} : \A j \in {i} : k <= j) = i
      BY <2>1
    <2> QED BY <2>2 DEF FirstIndex
  <1> QED BY <1>1, <1>2

\* The arguments of an option, told apart.
LEMMA LengthsDiffer ==
  ASSUME NEW w, NEW f
  PROVE  /\ Len(w) = 3 => w # <<"-", f>> /\ w # <<"--", f>>
         /\ w = <<"--", f, w[3]>> => Len(w) = 3 /\ w[1] = "--" /\ w[2] = f
  <1>1. \A a, g : Len(<<a, g>>) = 2
    OBVIOUS
  <1>2. ASSUME NEW a, w = <<a, f>> PROVE Len(w) = 2
    BY <1>1, <1>2
  <1>3. Len(w) = 3 => ~ (Len(w) = 2)
    OBVIOUS
  <1>4. Len(w) = 3 => w # <<"-", f>> /\ w # <<"--", f>>
    BY <1>2, <1>3
  <1>5. \A a, g, h : Len(<<a, g, h>>) = 3
    OBVIOUS
  <1>6. ASSUME w = <<"--", f, w[3]>> PROVE Len(w) = 3
    BY <1>5, <1>6
  <1>7. w = <<"--", f, w[3]>> => w[1] = "--" /\ w[2] = f
    OBVIOUS
  <1> QED BY <1>4, <1>6, <1>7

\* An option that is not on the line is not found ...
LEMMA AbsentIs ==
  ASSUME NEW names, NEW forms, FormsOf(forms, names), NEW rest, MadeOf(rest, forms, names),
         NEW f, f \notin names
  PROVE  BareIndex(rest, f) = 0 /\ EqualIndex(rest, f) = 0
  <1> DEFINE S == {i \in DOMAIN rest : f \in Shorts /\ rest[i] = <<"-", f>>}
             L == {i \in DOMAIN rest : rest[i] = <<"--", f>>}
             E == {i \in DOMAIN rest : Len(rest[i]) = 3 /\ rest[i][1] = "--" /\ rest[i][2] = f}
  <1>1. DOMAIN rest = 1 .. Len(rest)
    BY DEF MadeOf, Lines
  <1>2. \A j \in 1 .. Len(rest) : Len(rest[j]) # 1 => rest[j][2] # f
    BY OptionAt
  <1>3. S = {} /\ L = {} /\ E = {}
    <2>1. \A j \in 1 .. Len(rest) : rest[j] # <<"-", f>> /\ rest[j] # <<"--", f>>
      BY <1>2
    <2>2. \A j \in 1 .. Len(rest) : ~ (Len(rest[j]) = 3 /\ rest[j][2] = f)
      BY <1>2
    <2> QED BY <1>1, <2>1, <2>2
  <1>4. /\ BareIndex(rest, f) = IF FirstIndex(S) # 0 THEN FirstIndex(S) ELSE FirstIndex(L)
        /\ EqualIndex(rest, f) = FirstIndex(E)
    BY DEF BareIndex, EqualIndex
  <1> HIDE DEF S, L, E
  <1> QED BY <1>3, <1>4, FirstIs

\* ... and one that is there is found where it stands.
LEMMA PresentIs ==
  ASSUME NEW names, NEW forms, FormsOf(forms, names), NEW rest, MadeOf(rest, forms, names),
         NEW f \in names, NEW i \in 1 .. Len(rest), StandsAt(rest, forms[f], i)
  PROVE  /\ rest[i] = <<"--", f>> \/ (f \in Shorts /\ rest[i] = <<"-", f>>) => BareIndex(rest, f) = i
         /\ rest[i] = <<"--", f, rest[i][3]>> => BareIndex(rest, f) = 0 /\ EqualIndex(rest, f) = i
  <1> DEFINE S == {j \in DOMAIN rest : f \in Shorts /\ rest[j] = <<"-", f>>}
             L == {j \in DOMAIN rest : rest[j] = <<"--", f>>}
             E == {j \in DOMAIN rest : Len(rest[j]) = 3 /\ rest[j][1] = "--" /\ rest[j][2] = f}
             w == rest[i]
  <1>1. DOMAIN rest = 1 .. Len(rest) /\ i \in Nat /\ i # 0
    BY DEF MadeOf, Lines
  <1>2. \A j \in 1 .. Len(rest) : Len(rest[j]) # 1 /\ rest[j][2] = f => j = i
    <2> SUFFICES ASSUME NEW j \in 1 .. Len(rest), Len(rest[j]) # 1, rest[j][2] = f PROVE j = i
      OBVIOUS
    <2>1. rest[j] = forms[f][1]
      BY OptionAt
    <2> QED BY <2>1 DEF StandsAt
  <1>3. \A j \in 1 .. Len(rest) : rest[j] = <<"-", f>> \/ rest[j] = <<"--", f>> => j = i
    BY <1>2
  <1>4. \A j \in 1 .. Len(rest) : Len(rest[j]) = 3 /\ rest[j][2] = f => j = i
    BY <1>2
  <1>5. S \subseteq {i} /\ L \subseteq {i} /\ E \subseteq {i}
    BY <1>1, <1>3, <1>4
  <1>6. /\ BareIndex(rest, f) = IF FirstIndex(S) # 0 THEN FirstIndex(S) ELSE FirstIndex(L)
        /\ EqualIndex(rest, f) = FirstIndex(E)
    BY DEF BareIndex, EqualIndex
  <1>7. /\ i \in S <=> (f \in Shorts /\ w = <<"-", f>>)
        /\ i \in L <=> w = <<"--", f>>
        /\ i \in E <=> (Len(w) = 3 /\ w[1] = "--" /\ w[2] = f)
    BY <1>1
  <1> HIDE DEF S, L, E, w
  <1>8. (S = {} \/ S = {i}) /\ (L = {} \/ L = {i}) /\ (E = {} \/ E = {i})
    BY <1>5
  <1>9. /\ FirstIndex({}) = 0 /\ FirstIndex({i}) = i
    BY <1>1, FirstIs
  <1>10. (i \in S \/ i \in L) => BareIndex(rest, f) = i
    BY <1>1, <1>6, <1>8, <1>9
  <1>11. i \notin S /\ i \notin L /\ i \in E => BareIndex(rest, f) = 0 /\ EqualIndex(rest, f) = i
    BY <1>6, <1>8, <1>9
  <1>12. w = <<"--", f, w[3]>> => i \notin S /\ i \notin L /\ i \in E
    BY <1>7, LengthsDiffer
  <1> QED BY <1>7, <1>10, <1>11, <1>12 DEF w

\* What is taken out is the form.
LEMMA OneIsCut ==
  ASSUME NEW rest \in Lines, NEW i \in 1 .. Len(rest)
  PROVE  Cut(rest, i, 1, RemoveAt(rest, i))
  <1> DEFINE r == RemoveAt(rest, i)
  <1>1. LeftOut(rest, i, r)
    BY RemovedIs
  <1> HIDE DEF r
  <1>2. Cut(rest, i, 1, r)
    BY <1>1 DEF LeftOut, Cut
  <1> QED BY <1>2 DEF r

\* And two of them left out.
LEMMA TwoAreCut ==
  ASSUME NEW rest \in Lines, NEW i \in 1 .. Len(rest) - 1
  PROVE  Cut(rest, i, 2, RemoveAt(RemoveAt(rest, i), i))
  <1> DEFINE once == RemoveAt(rest, i)
             r == RemoveAt(once, i)
             n == Len(rest)
  <1>1. n \in Nat /\ i \in 1 .. n /\ i \in 1 .. n - 1
    BY DEF Lines
  <1>2. LeftOut(rest, i, once)
    BY <1>1, RemovedIs
  <1> HIDE DEF once
  <1>3. once \in Lines /\ i \in 1 .. Len(once)
    BY <1>1, <1>2 DEF LeftOut
  <1>4. LeftOut(once, i, r)
    BY <1>3, RemovedIs
  <1> HIDE DEF r, n
  <1>5. /\ Len(once) = n - 1 /\ \A j \in 1 .. n - 1 : once[j] = IF j < i THEN rest[j] ELSE rest[j + 1]
    BY <1>2 DEF LeftOut, n
  <1>6. /\ r \in Lines /\ Len(r) = n - 2
        /\ \A j \in 1 .. n - 2 : r[j] = IF j < i THEN once[j] ELSE once[j + 1]
    BY <1>1, <1>4, <1>5 DEF LeftOut
  <1>7. ASSUME NEW j \in 1 .. n - 2 PROVE r[j] = IF j < i THEN rest[j] ELSE rest[j + 2]
    <2>1. j \in 1 .. n - 1 /\ j + 1 \in 1 .. n - 1 /\ (j + 1) + 1 = j + 2
      BY <1>1
    <2>2. ~ (j < i) => ~ (j + 1 < i)
      BY <1>1
    <2> QED BY <1>5, <1>6, <2>1, <2>2
  <1>8. Cut(rest, i, 2, r)
    BY <1>6, <1>7 DEF Cut, n
  <1> QED BY <1>8 DEF r, once

\* The value of an option that is written so.
ValueOf(form) ==
  IF Len(form) = 2 THEN form[2] ELSE IF Len(form[1]) = 3 THEN <<form[1][3]>> ELSE <<"true">>

\* A state of a line in which nothing is wrong.
Stated(rest, values) == [error |-> FALSE, rest |-> rest, values |-> values]

\* Nothing is wrong in this one.
IsState(s) == s = Stated(s.rest, s.values)

\* Some options are read, and the others are on the line as they are written.
Midway(s, forms, names, asked) ==
  /\ IsState(s) /\ names \subseteq asked /\ MadeOf(s.rest, forms, names)
  /\ s.values = [f \in asked \ names |-> ValueOf(forms[f])]

\* Reading an option that is on no line, or no longer on this one.
LEMMA AbsentReads ==
  ASSUME NEW asked, NEW names, NEW forms, FormsOf(forms, asked), NEW s,
         Midway(s, forms, names, asked), NEW f, f \notin asked
  PROVE  Read(s, f) = s
  <1>1. /\ MadeOf(s.rest, forms, names) /\ names \subseteq asked /\ ~ s.error
        /\ f \notin DOMAIN s.values
    <2>1. ~ s.error
      BY DEF Midway, IsState, Stated
    <2>2. DOMAIN s.values = asked \ names
      BY DEF Midway
    <2> QED BY <2>1, <2>2 DEF Midway
  <1>2. FormsOf(forms, names) /\ f \notin names
    BY <1>1 DEF FormsOf
  <1>3. BareIndex(s.rest, f) = 0 /\ EqualIndex(s.rest, f) = 0
    BY <1>1, <1>2, AbsentIs
  <1>4. ~ contains(s.rest, f)
    BY <1>3 DEF contains
  <1>5. ReadFlag(s, f) = s
    BY <1>4 DEF ReadFlag
  <1>6. ReadValue(s, f) = s
    <2> DEFINE r == opt_value_from_str(s.rest, f)
    <2>1. ~ r.error /\ ~ r.found
      BY <1>3 DEF opt_value_from_str
    <2>2. ReadValue(s, f) = IF s.error THEN s
                            ELSE IF r.error THEN [s EXCEPT !.error = TRUE]
                            ELSE IF r.found THEN [s EXCEPT !.rest = r.rest, !.values = Put(@, f, r.value)]
                            ELSE s
      BY DEF ReadValue
    <2> HIDE DEF r
    <2> QED BY <1>1, <2>1, <2>2
  <1>7. CheckBool(s, f) = s
    BY <1>1 DEF CheckBool
  <1>8. ReadBool(s, f) = s
    BY <1>4, <1>6, <1>7 DEF ReadBool
  <1> QED BY <1>5, <1>6, <1>8 DEF Read

\* What is changed of one.
With(s, r, v) == [s EXCEPT !.rest = r, !.values = v]

\* It is one that is stated, too.
LEMMA StateWith ==
  ASSUME NEW s, IsState(s), NEW r, NEW v
  PROVE  With(s, r, v) = Stated(r, v)
  <1> DEFINE a == s.rest
             b == s.values
             e == FALSE
             t == [s EXCEPT !.rest = r, !.values = v]
  <1>1. s = [error |-> e, rest |-> a, values |-> b]
    BY DEF IsState, Stated
  <1> HIDE DEF a, b, e
  <1>2. s.error = e /\ DOMAIN s = {"error", "rest", "values"}
    BY <1>1
  <1>3. t = [k \in DOMAIN s |-> IF k = "values" THEN v ELSE IF k = "rest" THEN r ELSE s[k]]
    OBVIOUS
  <1> HIDE DEF t
  <1>4. t = [error |-> e, rest |-> r, values |-> v]
    BY <1>2, <1>3
  <1> QED BY <1>4 DEF t, e, Stated, With

\* Reading one that is there.
ReadAs(s, f, rest, v) == Stated(rest, Put(s.values, f, v))

\* Reading one that is there takes its form off the line.
LEMMA PresentReads ==
  ASSUME NEW names, NEW forms, FormsOf(forms, names), NEW s,
         IsState(s), MadeOf(s.rest, forms, names), NEW f \in names, f \notin DOMAIN s.values,
         Told(f, forms[f])
  PROVE  \E i \in 1 .. Len(s.rest) : \E r :
            /\ StandsAt(s.rest, forms[f], i) /\ Len(forms[f]) \in {1, 2}
            /\ Cut(s.rest, i, Len(forms[f]), r)
            /\ Read(s, f) = ReadAs(s, f, r, ValueOf(forms[f]))
  <1> DEFINE rest == s.rest
             form == forms[f]
             n == Len(rest)
             t == Read(s, f)
  <1>1. PICK i \in 1 .. n : StandsAt(rest, form, i)
    BY DEF MadeOf
  <1> DEFINE once == RemoveAt(rest, i)
             twice == RemoveAt(once, i)
             bare == BareIndex(rest, f)
             equal == EqualIndex(rest, f)
  <1>2. /\ rest[i] = form[1] /\ (Len(form) = 2 => i + 1 <= n /\ rest[i + 1] = form[2])
        /\ rest \in Lines /\ n \in Nat /\ i \in 1 .. n /\ ~ s.error /\ i # 0
    BY <1>1 DEF StandsAt, MadeOf, Lines, IsState, Stated
  <1>3. Cut(rest, i, 1, once)
    BY <1>2, OneIsCut
  <1>4. /\ rest[i] = <<"--", f>> \/ (f \in Shorts /\ rest[i] = <<"-", f>>) => bare = i
        /\ rest[i] = <<"--", f, rest[i][3]>> => bare = 0 /\ equal = i
    <2> HIDE DEF rest
    <2> QED BY <1>1, PresentIs DEF rest
  <1>5. CASE StandsAlone(f) /\ Len(form) = 1 /\ form[1] = <<"--", f>>
    <2> DEFINE put == Put(s.values, f, <<"true">>)
    <2>1. bare = i /\ contains(rest, f)
      BY <1>2, <1>4, <1>5 DEF contains
    <2>2. ReadFlag(s, f) = [s EXCEPT !.rest = once, !.values = put]
      <3>1. WithoutFlag(rest, f) = once
        BY <2>1 DEF WithoutFlag
      <3> HIDE DEF once
      <3> QED BY <1>2, <2>1, <3>1 DEF ReadFlag
    <2>3. t = ReadFlag(s, f)
      BY <1>2, <1>5, <2>1 DEF Read, ReadBool
    <2>4. ValueOf(form) = <<"true">>
      <3>1. Len(form[1]) = 2
        BY <1>5
      <3> HIDE DEF form
      <3> QED BY <1>5, <3>1 DEF ValueOf
    <2> HIDE DEF once, t, form
    <2>5. t = ReadAs(s, f, once, <<"true">>)
      <3> HIDE DEF put
      <3>1. t = Stated(once, put)
        <4>1. t = With(s, once, put)
          BY <2>2, <2>3 DEF With
        <4> QED BY <4>1, StateWith
      <3> QED BY <3>1 DEF ReadAs, put
    <2> QED BY <1>1, <1>3, <1>5, <2>4, <2>5 DEF t, form
  <1>6. CASE /\ Len(form) = 1 /\ form[1] = <<"--", f, form[1][3]>>
             /\ StandsAlone(f) => f \notin BareFlags /\ parse_bool_lenient(form[1][3]) # Rejected
    <2> DEFINE x == form[1][3]
               put == Put(s.values, f, <<x>>)
               r == opt_value_from_str(rest, f)
               v == ReadValue(s, f)
    <2>1. bare = 0 /\ equal = i /\ rest[i][3] = x
      BY <1>2, <1>4, <1>6
    <2>2. r = [error |-> FALSE, found |-> TRUE, value |-> <<x>>, rest |-> once]
      <3> HIDE DEF once, x
      <3> QED BY <1>2, <2>1 DEF opt_value_from_str, once
    <2>3. ValueOf(form) = <<x>>
      <3>1. Len(form[1]) = 3
        <4> DEFINE w == form[1]
        <4>1. w = <<"--", f, w[3]>>
          BY <1>6
        <4> HIDE DEF w
        <4>2. Len(w) = 3
          BY <4>1, LengthsDiffer
        <4> QED BY <4>2 DEF w
      <3> HIDE DEF form
      <3> QED BY <1>6, <3>1 DEF ValueOf
    <2>4. v = [s EXCEPT !.rest = r.rest, !.values = Put(@, f, r.value)]
      <3>1. ~ r.error /\ r.found
        BY <2>2
      <3> HIDE DEF r
      <3>2. v = IF s.error THEN s
                ELSE IF r.error THEN [s EXCEPT !.error = TRUE]
                ELSE IF r.found THEN [s EXCEPT !.rest = r.rest, !.values = Put(@, f, r.value)]
                ELSE s
        BY DEF ReadValue, r
      <3> HIDE DEF v
      <3> QED BY <1>2, <3>1, <3>2
    <2> HIDE DEF x
    <2>5. v = Stated(once, put)
      <3>1. r.rest = once /\ r.value = <<x>>
        BY <2>2
      <3>2. v = [s EXCEPT !.rest = once, !.values = put]
        BY <2>4, <3>1
      <3> HIDE DEF once, put, v
      <3>3. v = With(s, once, put)
        BY <3>2 DEF With
      <3> QED BY <3>3, StateWith
    <2>6. StandsAlone(f) => CheckBool(v, f) = v
      <3>1. f \in DOMAIN put /\ put[f] = <<x>>
        BY DEF Put
      <3>2. v.values = put
        <4> HIDE DEF once, put, v
        <4> QED BY <2>5 DEF Stated
      <3>3. v.values[f] = <<x>>
        BY <3>1, <3>2
      <3> HIDE DEF v, put
      <3>4. Len(v.values[f]) = 1 /\ v.values[f][1] = x
        BY <3>3
      <3>5. StandsAlone(f) => parse_bool_lenient(x) # Rejected
        BY <1>6 DEF x
      <3> QED BY <3>4, <3>5 DEF CheckBool
    <2>7. ~ contains(rest, f)
      BY <2>1 DEF contains
    <2>8. t = v
      <3>1. ~ StandsAlone(f) => f \notin BareFlags
        BY DEF StandsAlone
      <3>2. StandsAlone(f) => f \notin BareFlags
        BY <1>6
      <3>3. ReadBool(s, f) = CheckBool(v, f)
        BY <2>7 DEF ReadBool
      <3> HIDE DEF v
      <3> QED BY <2>6, <3>1, <3>2, <3>3 DEF Read, v
    <2> HIDE DEF v, t, form, once
    <2>9. t = ReadAs(s, f, once, <<x>>)
      BY <2>5, <2>8 DEF ReadAs
    <2> QED BY <1>1, <1>3, <1>6, <2>3, <2>9 DEF t, form
  <1>7. CASE /\ ~ StandsAlone(f) /\ Len(form) = 2
             /\ form[1] = <<"--", f>> \/ (f \in Shorts /\ form[1] = <<"-", f>>)
    <2> DEFINE w == form[2]
               put == Put(s.values, f, w)
               r == opt_value_from_str(rest, f)
    <2>1. bare = i /\ i + 1 <= n /\ rest[i + 1] = w
      BY <1>2, <1>4, <1>7
    <2>2. bare # 0 /\ bare # n /\ i \in 1 .. n - 1
      BY <1>2, <2>1
    <2>3. r = [error |-> FALSE, found |-> TRUE, value |-> w, rest |-> twice]
      <3> HIDE DEF w
      <3> QED BY <2>1, <2>2 DEF opt_value_from_str
    <2>4. Cut(rest, i, 2, twice)
      BY <1>2, <2>2, TwoAreCut
    <2>5. ValueOf(form) = w
      BY <1>7 DEF ValueOf
    <2>6. t = ReadValue(s, f)
      <3>1. f \notin BareFlags
        BY <1>7 DEF StandsAlone
      <3> QED BY <1>7, <3>1 DEF Read
    <2>7. ReadValue(s, f) = [s EXCEPT !.rest = twice, !.values = put]
      <3>1. ~ r.error /\ r.found /\ r.rest = twice /\ r.value = w
        BY <2>3
      <3> HIDE DEF r, twice, w
      <3>2. ReadValue(s, f)
              = IF s.error THEN s
                ELSE IF r.error THEN [s EXCEPT !.error = TRUE]
                ELSE IF r.found THEN [s EXCEPT !.rest = r.rest, !.values = Put(s.values, f, r.value)]
                ELSE s
        BY DEF ReadValue, r
      <3> QED BY <1>2, <3>1, <3>2
    <2> HIDE DEF twice, t, form
    <2>8. t = ReadAs(s, f, twice, w)
      <3> HIDE DEF put
      <3>1. t = Stated(twice, put)
        <4>1. t = With(s, twice, put)
          BY <2>6, <2>7 DEF With
        <4> QED BY <4>1, StateWith
      <3> QED BY <3>1 DEF ReadAs, put
    <2> HIDE DEF w
    <2> QED BY <1>1, <1>7, <2>4, <2>5, <2>8 DEF t, form
  <1> QED BY <1>5, <1>6, <1>7 DEF Told

\* An option that is on the line is read, and the others are left.
LEMMA FormReads ==
  ASSUME NEW asked, NEW names, NEW forms, FormsOf(forms, asked), NEW s,
         Midway(s, forms, names, asked), NEW f \in names, Told(f, forms[f])
  PROVE  Midway(Read(s, f), forms, names \ {f}, asked)
  <1> DEFINE t == Read(s, f)
             rest == s.rest
             form == forms[f]
             val(g) == ValueOf(forms[g])
  <1>1. /\ names \subseteq asked /\ MadeOf(rest, forms, names) /\ IsState(s)
        /\ s.values = [g \in asked \ names |-> val(g)]
    BY DEF Midway
  <1>2. FormsOf(forms, names)
    BY <1>1 DEF FormsOf
  <1>3. f \notin DOMAIN s.values
    BY <1>1
  <1>4. PICK i \in 1 .. Len(rest) : \E r :
           /\ StandsAt(rest, form, i) /\ Len(form) \in {1, 2} /\ Cut(rest, i, Len(form), r)
           /\ t = ReadAs(s, f, r, ValueOf(form))
    BY <1>1, <1>2, <1>3, PresentReads
  <1>5. PICK r : /\ StandsAt(rest, form, i) /\ Len(form) \in {1, 2} /\ Cut(rest, i, Len(form), r)
                 /\ t = ReadAs(s, f, r, ValueOf(form))
    BY <1>4
  <1>6. MadeOf(r, forms, names \ {f})
    <2> DEFINE d == Len(form)
    <2>1. /\ d \in {1, 2} /\ Len(forms[f]) = d /\ Cut(rest, i, d, r)
          /\ StandsAt(rest, forms[f], i) /\ i \in 1 .. Len(rest) /\ MadeOf(rest, forms, names)
      BY <1>1, <1>5
    <2> HIDE DEF d, rest
    <2> QED BY <1>2, <2>1, CutLeaves
  <1> HIDE DEF val
  <1>7. Put(s.values, f, val(f)) = [g \in asked \ (names \ {f}) |-> val(g)]
    <2> DEFINE old == s.values
               new == asked \ (names \ {f})
    <2>1. DOMAIN old = asked \ names /\ \A g \in asked \ names : old[g] = val(g)
      BY <1>1
    <2>2. DOMAIN old \union {f} = new
      BY <1>1, <2>1
    <2> HIDE DEF old
    <2>3. Put(old, f, val(f)) = [k \in new |-> IF k = f THEN val(f) ELSE old[k]]
      BY <2>2 DEF Put
    <2>4. \A k \in new : (IF k = f THEN val(f) ELSE old[k]) = val(k)
      BY <2>1
    <2> HIDE DEF new
    <2>5. Put(old, f, val(f)) = [g \in new |-> val(g)]
      BY <2>3, <2>4
    <2> QED BY <2>5 DEF old, new
  <1> HIDE DEF t
  <1>8. t.rest = r /\ t.values = Put(s.values, f, val(f)) /\ IsState(t)
    <2> DEFINE v == Put(s.values, f, val(f))
    <2>1. t = Stated(r, v)
      BY <1>5 DEF ReadAs, val
    <2> HIDE DEF v
    <2>2. t.rest = r /\ t.values = v
      BY <2>1 DEF Stated
    <2> QED BY <2>1, <2>2 DEF IsState, v
  <1>9. Midway(t, forms, names \ {f}, asked)
    BY <1>1, <1>6, <1>7, <1>8 DEF Midway, val
  <1> QED BY <1>9 DEF t

\* One option after another is read.
LEMMA ChainReads ==
  ASSUME NEW asked, NEW forms, FormsOf(forms, asked), \A f \in asked : Told(f, forms[f]),
         NEW args, MadeOf(args, forms, asked), NEW n \in Nat, NEW names, NamesAre(names, n),
         NEW h, Chain(h, Unread(args), names, n), \A f \in asked : \E k \in 1 .. n : names[k] = f
  PROVE  Midway(h[n], forms, {}, asked)
  <1> DEFINE left(k) == {f \in asked : \A i \in 1 .. k : names[i] # f}
             Good(k) == Midway(h[k], forms, left(k), asked)
             wrong == {k \in 0 .. n : ~ Good(k)}
             least == Min(wrong)
  <1>1. h[0] = Unread(args) /\ \A k \in 1 .. n : h[k] = Read(h[k - 1], names[k])
    BY DEF Chain
  <1>2. \A i, j \in 1 .. n : names[i] = names[j] => i = j
    BY DEF NamesAre
  <1>3. Good(0)
    <2> DEFINE s == Unread(args)
               none == [f \in {} |-> <<>>]
    <2>1. s = Stated(args, none)
      BY DEF Unread, Stated
    <2>2. left(0) = asked
      OBVIOUS
    <2>3. none = [f \in asked \ asked |-> ValueOf(forms[f])]
      OBVIOUS
    <2> HIDE DEF none, s, left
    <2>4. s.rest = args /\ s.values = none
      BY <2>1 DEF Stated
    <2>5. IsState(s)
      BY <2>1, <2>4 DEF IsState
    <2>6. Midway(s, forms, asked, asked)
      BY <2>3, <2>4, <2>5 DEF Midway
    <2> QED BY <1>1, <2>2, <2>6 DEF s
  <1>4. ASSUME NEW k \in 1 .. n, Good(k - 1) PROVE Good(k)
    <2> DEFINE s == h[k - 1]
               f == names[k]
               before == left(k - 1)
    <2>1. Midway(s, forms, before, asked) /\ h[k] = Read(s, f)
      BY <1>1, <1>4
    <2>2. \A i \in 1 .. k : i = k \/ i \in 1 .. k - 1
      OBVIOUS
    <2>3. \A i \in 1 .. k - 1 : i \in 1 .. k /\ i \in 1 .. n /\ i # k
      OBVIOUS
    <2>4. k \in 1 .. k
      OBVIOUS
    <2>5. left(k) = before \ {f}
      BY <2>2, <2>3, <2>4
    <2>6. f \in asked => f \in before
      BY <1>2, <2>3
    <2>7. f \in before => f \in asked
      OBVIOUS
    <2> HIDE DEF s, f, before, left
    <2>8. CASE f \in asked
      BY <2>1, <2>5, <2>6, <2>8, FormReads
    <2>9. CASE f \notin asked
      <3>1. Read(s, f) = s
        BY <2>1, <2>9, AbsentReads
      <3>2. before \ {f} = before
        BY <2>7, <2>9
      <3> QED BY <2>1, <2>5, <3>1, <3>2
    <2> QED BY <2>8, <2>9
  <1>5. left(n) = {}
    OBVIOUS
  <1> HIDE DEF Good
  <1>6. wrong = {}
    <2> SUFFICES ASSUME wrong # {} PROVE FALSE
      OBVIOUS
    <2>1. wrong \in SUBSET Nat
      OBVIOUS
    <2>2. least \in wrong /\ \A j \in wrong : least <= j
      <3> HIDE DEF wrong
      <3> QED BY <2>1, LeastExists
    <2> HIDE DEF least
    <2>3. least # 0
      BY <1>3, <2>2
    <2>4. least \in 1 .. n /\ least - 1 \in 0 .. n /\ ~ (least <= least - 1)
      BY <2>2, <2>3
    <2>5. Good(least - 1)
      BY <2>2, <2>4
    <2>6. Good(least)
      BY <1>4, <2>4, <2>5
    <2> QED BY <2>2, <2>6
  <1>7. Good(n)
    BY <1>6
  <1> HIDE DEF left
  <1> QED BY <1>5, <1>7 DEF Good

\* A line that is made of forms is read as it is written.
LEMMA MadeReads ==
  ASSUME NEW asked \in SUBSET ServerOptions, NEW forms, FormsOf(forms, asked),
         \A f \in asked : Told(f, forms[f]), NEW args, MadeOf(args, forms, asked)
  PROVE  parse(args) = [error |-> FALSE, action |-> "Run",
                        values |-> [f \in asked |-> ValueOf(forms[f])]]
  <1> DEFINE values == [f \in asked |-> ValueOf(forms[f])]
  <1>1. parse_shared(args) = Stated(<<>>, values)
    <2>1. PICK h : Chain(h, Unread(args), SharedNames, 27) /\ parse_shared(args) = finish(h[27])
      BY SharedChain
    <2> DEFINE n == 27
               s == h[n]
    <2>2. /\ n \in Nat /\ Chain(h, Unread(args), SharedNames, n) /\ NamesAre(SharedNames, n)
          /\ \A f \in asked : \E k \in 1 .. n : SharedNames[k] = f
      BY <2>1, SharedNamesAre DEF ServerOptions
    <2> HIDE DEF n
    <2>3. Midway(s, forms, {}, asked)
      BY <2>2, ChainReads
    <2> HIDE DEF s
    <2>4. /\ IsState(s) /\ MadeOf(s.rest, forms, {})
          /\ s.values = [f \in asked \ {} |-> ValueOf(forms[f])]
      BY <2>3 DEF Midway
    <2>5. s.rest = <<>>
      <3> DEFINE r == s.rest
                 T == Seq(AnyText)
      <3>1. r \in Seq(T) /\ \A i \in 1 .. Len(r) : FALSE
        BY <2>4 DEF MadeOf, Lines
      <3> HIDE DEF r, T
      <3>2. Len(r) = 0
        <4>1. Len(r) \in Nat
          BY <3>1
        <4>2. Len(r) # 0 => 1 \in 1 .. Len(r)
          BY <4>1
        <4> QED BY <3>1, <4>2
      <3>3. r = <<>>
        BY <3>1, <3>2
      <3> QED BY <3>3 DEF r
    <2>6. s.values = values
      <3>1. asked \ {} = asked
        OBVIOUS
      <3> QED BY <2>4, <3>1
    <2>7. finish(s) = s
      BY <2>5 DEF finish
    <2> HIDE DEF values
    <2>8. s = Stated(<<>>, values)
      BY <2>4, <2>5, <2>6 DEF IsState
    <2> QED BY <2>1, <2>7, <2>8 DEF s, n
  <1>2. ASSUME NEW j \in 1 .. Len(args), Len(args[j]) # 1
        PROVE  args[j][2] \in ServerOptions
    BY <1>2, OptionAt
  <1>3. args \in Lines /\ Len(args) \in Nat
    BY DEF MadeOf, Lines
  <1>4. ~ contains(args, "help") /\ ~ contains(args, "version")
    <2>1. "help" \notin ServerOptions /\ "version" \notin ServerOptions
      BY TableAt DEF ServerOptions, BareFlags
    <2>2. "help" \notin asked /\ "version" \notin asked
      BY <2>1
    <2>3. BareIndex(args, "help") = 0
      BY <2>2, AbsentIs
    <2>4. BareIndex(args, "version") = 0
      BY <2>2, AbsentIs
    <2> QED BY <2>3, <2>4 DEF contains
  <1>5. ~ HasVerb(args)
    <2> SUFFICES ASSUME args # <<>>, Len(args[1]) = 1 PROVE FALSE
      BY DEF HasVerb
    <2>1. 1 \in 1 .. Len(args)
      <3> DEFINE T == Seq(AnyText)
      <3>1. args \in Seq(T)
        BY <1>3 DEF Lines
      <3> HIDE DEF T
      <3> QED BY <3>1
    <2>2. PICK g \in asked : Within(args, forms[g], 1)
      BY <2>1 DEF MadeOf
    <2>3. args[1] = forms[g][1]
      BY <2>2 DEF Within
    <2>4. Len(forms[g][1]) # 1
      BY DEF FormsOf, WellShaped
    <2> QED BY <2>3, <2>4
  <1>6. parse(args) = Action("Run", parse_shared(args))
    BY <1>4, <1>5 DEF parse
  <1> HIDE DEF values
  <1>7. Action("Run", Stated(<<>>, values)) = [error |-> FALSE, action |-> "Run", values |-> values]
    <2> DEFINE s == Stated(<<>>, values)
    <2>1. ~ s.error /\ s.values = values
      BY DEF Stated
    <2> HIDE DEF s
    <2> QED BY <2>1 DEF Action, s
  <1> QED BY <1>1, <1>6, <1>7 DEF values

\* A sequence of forms makes such a line.
LEMMA FlattenMakes ==
  ASSUME NEW seqs, NEW n \in Nat \ {0}, n = Len(seqs), NEW asked, NEW forms,
         asked = {OptionOf(seqs[i]) : i \in 1 .. n}, FormsOf(forms, asked),
         \A i \in 1 .. n : forms[OptionOf(seqs[i])] = seqs[i],
         \A i, j \in 1 .. n : OptionOf(seqs[i]) = OptionOf(seqs[j]) => i = j
  PROVE  MadeOf(FlattenSeq(seqs), forms, asked)
  <1> DEFINE opt(i) == OptionOf(seqs[i])
             first(k) == {opt(i) : i \in 1 .. k}
  <1>1. PICK g : Joins(g, seqs, n) /\ FlattenSeq(seqs) = g[n]
    BY FlattenJoins
  <1> DEFINE Good(k) == MadeOf(g[k], forms, first(k))
             wrong == {k \in 1 .. n : ~ Good(k)}
             least == Min(wrong)
  <1>2. \A k \in 1 .. n : first(k) \subseteq asked
    <2>1. \A k \in 1 .. n : \A i \in 1 .. k : i \in 1 .. n
      OBVIOUS
    <2> QED BY <2>1
  <1>3. Good(1)
    <2> DEFINE f == opt(1)
    <2>1. MadeOf(<<>>, forms, {})
      BY DEF MadeOf, Lines
    <2>2. FormsOf(forms, {} \union {f}) /\ forms[f] = seqs[1] /\ first(1) = {} \union {f}
      <3>1. f \in asked /\ forms[f] = seqs[1]
        OBVIOUS
      <3>2. 1 .. 1 = {1}
        OBVIOUS
      <3> QED BY <3>1, <3>2 DEF FormsOf
    <2>3. WellShaped(f, forms[f])
      BY <2>2 DEF FormsOf
    <2> DEFINE none == <<>>
    <2>4. MadeOf(none, forms, {})
      BY <2>1
    <2> HIDE DEF f, first, none
    <2>5. MadeOf(none \o forms[f], forms, {} \union {f})
      BY <2>2, <2>4, FormAdds
    <2>6. none \o forms[f] = forms[f]
      <3> DEFINE T == Seq(AnyText)
                 form == forms[f]
      <3>1. form \in Seq(T)
        BY <2>3 DEF WellShaped, Lines
      <3> HIDE DEF form, T
      <3>2. none \o form = form
        BY <3>1 DEF none
      <3> QED BY <3>2 DEF form
    <2>7. g[1] = seqs[1]
      BY <1>1 DEF Joins
    <2> QED BY <2>2, <2>5, <2>6, <2>7
  <1>4. ASSUME NEW k \in 2 .. n, Good(k - 1) PROVE Good(k)
    <2> DEFINE f == opt(k)
               rest == g[k - 1]
    <2>1. k \in 1 .. n /\ k - 1 \in 1 .. n /\ forms[f] = seqs[k]
      OBVIOUS
    <2>2. g[k] = rest \o seqs[k]
      BY <1>1 DEF Joins
    <2>3. f \notin first(k - 1)
      <3>1. \A i \in 1 .. k - 1 : i \in 1 .. n /\ i # k
        OBVIOUS
      <3> QED BY <2>1, <3>1
    <2>4. first(k) = first(k - 1) \union {f}
      <3>1. 1 .. k = (1 .. k - 1) \union {k}
        OBVIOUS
      <3> QED BY <3>1
    <2>5. FormsOf(forms, first(k - 1) \union {f})
      BY <1>2, <2>1, <2>4 DEF FormsOf
    <2> HIDE DEF f, first, rest
    <2>6. MadeOf(rest \o forms[f], forms, first(k - 1) \union {f})
      BY <1>4, <2>3, <2>5, FormAdds DEF rest
    <2> QED BY <2>1, <2>2, <2>4, <2>6
  <1> HIDE DEF Good
  <1>5. wrong = {}
    <2> SUFFICES ASSUME wrong # {} PROVE FALSE
      OBVIOUS
    <2>1. wrong \in SUBSET Nat
      OBVIOUS
    <2>2. least \in wrong /\ \A j \in wrong : least <= j
      <3> HIDE DEF wrong
      <3> QED BY <2>1, LeastExists
    <2> HIDE DEF least
    <2>3. least # 1
      BY <1>3, <2>2
    <2>4. least \in 2 .. n /\ least - 1 \in 1 .. n /\ ~ (least <= least - 1)
      BY <2>2, <2>3
    <2>5. Good(least - 1)
      BY <2>2, <2>4
    <2>6. Good(least)
      BY <1>4, <2>4, <2>5
    <2> QED BY <2>2, <2>6
  <1>6. Good(n)
    BY <1>5
  <1>7. first(n) = asked
    OBVIOUS
  <1> HIDE DEF first
  <1> QED BY <1>1, <1>6, <1>7 DEF Good

\* Options as they may be asked for: each of them once, in one of its forms.
OptionsAsked(seqs) ==
  /\ Len(seqs) \in Nat \ {0} /\ DOMAIN seqs = 1 .. Len(seqs)
  /\ \A i \in 1 .. Len(seqs) : \E f \in ServerOptions : seqs[i] \in WaysToWrite(f)
  /\ \A i, j \in 1 .. Len(seqs) : i < j => OptionOf(seqs[i]) # OptionOf(seqs[j])

\* OptionsReadAsWritten: they are read as they are written.
LEMMA OptionsAreRead ==
  ASSUME Given_("options") => OptionsAsked(input.forms)
  PROVE  OptionsReadAsWritten
  <1> SUFFICES ASSUME Given_("options") PROVE OptionsReadAsWritten
    BY DEF OptionsReadAsWritten
  <1> DEFINE seqs == input.forms
             n == Len(seqs)
             opt(i) == OptionOf(seqs[i])
             asked == {opt(i) : i \in 1 .. n}
             spot(f) == CHOOSE i \in 1 .. n : opt(i) = f
             forms == [f \in asked |-> seqs[spot(f)]]
             values == [f \in asked |-> ValueOf(forms[f])]
  <1>1. /\ n \in Nat \ {0} /\ DOMAIN seqs = 1 .. n
        /\ \A i \in 1 .. n : \E f \in ServerOptions : seqs[i] \in WaysToWrite(f)
        /\ \A i, j \in 1 .. n : i < j => opt(i) # opt(j)
    BY DEF OptionsAsked
  <1> HIDE DEF seqs
  <1>2. \A i, j \in 1 .. n : opt(i) = opt(j) => i = j
    <2>1. \A i, j \in 1 .. n : i = j \/ i < j \/ j < i
      BY <1>1
    <2> HIDE DEF opt
    <2> QED BY <1>1, <2>1
  <1>3. ASSUME NEW i \in 1 .. n
        PROVE  opt(i) \in ServerOptions /\ WellShaped(opt(i), seqs[i]) /\ Told(opt(i), seqs[i])
    <2>1. PICK f \in ServerOptions : seqs[i] \in WaysToWrite(f)
      BY <1>1
    <2>2. WellShaped(f, seqs[i]) /\ Told(f, seqs[i])
      BY <2>1, SpellingIs
    <2>3. opt(i) = f
      BY <2>2 DEF WellShaped, OptionOf
    <2> QED BY <2>2, <2>3
  <1>4. \A i \in 1 .. n : opt(i) \in asked /\ spot(opt(i)) = i /\ forms[opt(i)] = seqs[i]
    <2> SUFFICES ASSUME NEW i \in 1 .. n
                 PROVE  opt(i) \in asked /\ spot(opt(i)) = i /\ forms[opt(i)] = seqs[i]
      OBVIOUS
    <2>1. opt(i) \in asked
      OBVIOUS
    <2> HIDE DEF opt
    <2>2. spot(opt(i)) \in 1 .. n /\ opt(spot(opt(i))) = opt(i)
      OBVIOUS
    <2> HIDE DEF spot
    <2>3. spot(opt(i)) = i
      BY <1>2, <2>2
    <2> HIDE DEF asked
    <2>4. forms[opt(i)] = seqs[spot(opt(i))]
      BY <2>1
    <2> QED BY <2>1, <2>3, <2>4
  <1>5. \A f \in asked : \E i \in 1 .. n : f = opt(i)
    OBVIOUS
  <1> HIDE DEF forms, spot
  <1>6. /\ asked \in SUBSET ServerOptions /\ FormsOf(forms, asked)
        /\ \A f \in asked : Told(f, forms[f])
    <2> HIDE DEF opt, asked
    <2> QED BY <1>3, <1>4, <1>5 DEF FormsOf
  <1>7. MadeOf(FlattenSeq(seqs), forms, asked)
    <2>1. n = Len(seqs) /\ asked = {OptionOf(seqs[i]) : i \in 1 .. n}
      OBVIOUS
    <2>2. \A i \in 1 .. n : forms[OptionOf(seqs[i])] = seqs[i]
      BY <1>4
    <2>3. \A i, j \in 1 .. n : OptionOf(seqs[i]) = OptionOf(seqs[j]) => i = j
      BY <1>2
    <2> HIDE DEF opt, asked, n
    <2> QED BY <1>1, <1>6, <2>1, <2>2, <2>3, FlattenMakes
  <1> DEFINE args == FlattenSeq(seqs)
  <1>8. MadeOf(args, forms, asked)
    BY <1>7
  <1> HIDE DEF args, asked
  <1>9. parse(args) = [error |-> FALSE, action |-> "Run", values |-> values]
    BY <1>6, <1>8, MadeReads
  <1>10. values = [f \in {opt(i) : i \in DOMAIN seqs} |->
                     ValueOf(seqs[CHOOSE i \in DOMAIN seqs : opt(i) = f])]
    <2>1. \A f \in asked : forms[f] = seqs[CHOOSE i \in DOMAIN seqs : opt(i) = f]
      BY <1>1 DEF forms, spot
    <2>2. asked = {opt(i) : i \in DOMAIN seqs}
      BY <1>1 DEF asked
    <2> HIDE DEF opt
    <2> QED BY <2>1, <2>2
  <1> QED BY <1>9, <1>10 DEF OptionsReadAsWritten, args, seqs, ValueOf

\* The lines that are asked about: any options, each of them once and in any
\* of its forms, any words but the two that make captchapi ignore the rest, and
\* a reload that is not given the process itself.
LineAsked ==
  /\ Given_("options") => OptionsAsked(input.forms)
  /\ Given_("words") => /\ input.args \in Lines
                        /\ ~ contains(input.args, "help")
                        /\ ~ contains(input.args, "version")
  /\ Given_("reload") => "pid" \notin input.options

\* A command line is read as it is written, to its last argument, and the
\* reload verb comes to the server it is meant for: of any options in any order
\* and in any of their forms each has the value it is given, an argument of an
\* accepted line is not ignored (finish), and captchapi reload finds the pid
\* file of the server with its files and environment (reload_pid_file) unless
\* the store names that file and the layers without it name another.
THEOREM CommandLinesAreRead == LineAsked => CommandLineIsRead
  <1> SUFFICES ASSUME LineAsked PROVE CommandLineIsRead
    OBVIOUS
  <1>1. OptionsReadAsWritten
    BY OptionsAreRead DEF LineAsked
  <1>2. NothingIsIgnored
    BY WordsAreRead DEF LineAsked, Given_
  <1>3. ReloadFindsServer
    BY ReloadFinds DEF LineAsked
  <1> QED BY <1>1, <1>2, <1>3 DEF CommandLineIsRead
=============================================================================
