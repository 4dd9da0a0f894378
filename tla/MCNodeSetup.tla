--------------------------- MODULE MCNodeSetup --------------------------
(***************************************************************************)
(* Builders called up to three times, and versions around the limits.      *)
(***************************************************************************)
EXTENDS NodeSetup, Inputs

Urls == {<<>>, <<"./captcha.db">>, <<Scheme, "./captcha.db">>}

Calls ==
  [field : {"database_url"}, to : Urls]
  \union [field : {"api_key_salt"}, to : {"", "salt", "pepper"}]
  \union [field : {"solution_hash_secret"}, to : {"hush"}]
  \union [field : {"image_encryption_secret"}, to : {"veil"}]
  \union [field : {"max_validation_attempts"}, to : {0, 3, 5}]
  \union [field : {"run_migrations"}, to : BOOLEAN]

Versions ==
  {NotInstalled, <<1>>, <<1, 1>>, <<0, NaN, 3>>, <<1, 0, NaN, 1>>}
  \union {<<a, b, c>> : a \in 0 .. 3, b \in 0 .. 2, c \in 0 .. 1}

PickBuilder ==
  \E n \in 0 .. 3 : \E calls \in [1 .. n -> Calls] :
    input' = [of |-> "builder", calls |-> calls]

PickVersions ==
  \E a, b \in Versions, skip, loads \in BOOLEAN :
    input' = [of |-> "versions", a |-> a, b |-> b, skip |-> skip, loads |-> loads]

-----------------------------------------------------------------------------
(***************************************************************************)
(* Properties.                                                             *)
(***************************************************************************)
Latest(field) ==
  LET of == {i \in DOMAIN input.calls : input.calls[i].field = field}
  IN  {input.calls[i].to : i \in {j \in of : \A k \in of : k <= j}}

\* A built instance is the one its last settings ask for, in whatever order
\* they were made: opened at one database of one scheme, hashing solutions and
\* hiding pictures with the secret that is for it or else with the salt, and
\* with the defaults of the binding's own configuration for what was not set;
\* without a database or a salt there is none (CaptchaApiBuilder, create).
BuiltAsAsked ==
  Given_("builder") =>
    LET api == build(Builder(input.calls), FALSE, MIN_CORE_VERSION, TRUE)
        salt == Latest("api_key_salt")
        attempts == Latest("max_validation_attempts")
        Key(field) == IF Latest(field) # {} THEN Latest(field) ELSE salt
        default == core_create(CaptchaConfigDefault)
    IN  IF Latest("database_url") = {} \/ salt \in {{}, {""}} THEN api.error = "ConfigurationError"
        ELSE /\ api.error = "none"
             /\ {api.salt} = salt
             /\ {api.solution_key} = Key("solution_hash_secret")
             /\ {api.image_key} = Key("image_encryption_secret")
             /\ Cardinality({i \in DOMAIN api.database : api.database[i] = Scheme}) = 1
             /\ api.settings = [default.settings EXCEPT !.max_validation_attempts =
                                  IF attempts = {} THEN @ ELSE CHOOSE n \in attempts : TRUE]
             /\ api.migrated = (FALSE \notin Latest("run_migrations"))

\* Comparing is an order, whatever was written as a version, and a release is
\* taken for compatible just when it is of the first major version; all ways
\* to an instance ask the same of it (compareVersions, create).
VersionsAreOrdered ==
  Given_("versions") =>
    LET a == input.a  b == input.b  c == compareVersions(a, b)
        made == create([database_url |-> <<Scheme, "p">>, api_key_salt |-> "s"], FALSE, a, input.loads)
    IN  /\ compareVersions(b, a) = -c
        /\ \A v \in Versions : (c <= 0 /\ compareVersions(b, v) <= 0) => compareVersions(a, v) <= 0
        /\ NaN \notin ToSet(a) => (isCompatibleCoreVersion(a) <=> a # NotInstalled /\ Head(a) = 1)
        /\ quickStart(<<"p">>, {"s"}, a, input.loads) = made
        /\ inMemory("s", a, input.loads).error = made.error
        /\ (made.error = "none") => isCompatibleCoreVersion(a) /\ input.loads

InstancesAreAsAsked == BuiltAsAsked /\ VersionsAreOrdered
=============================================================================
