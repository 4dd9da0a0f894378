-------------------------- MODULE MCResolution --------------------------
(***************************************************************************)
(* Resolution over every field, with up to MaxEntries settings placed in   *)
(* the layers one after another on top of the two required secrets.        *)
(***************************************************************************)
EXTENDS Resolution, Inputs

CONSTANT MaxEntries   \* bound: how many settings an instance places

Spellings(f) ==
  CASE PARAMS[f].kind = "Num" -> {"0", "-1", "70000", "+40", "200", "5000000000", "many"}
    [] PARAMS[f].kind = "Bool" -> {"true", "false", "on", " TRUE", "maybe"}
    [] PARAMS[f].kind = "SecretFile" -> {"short", "another-long-secret"}
    [] OTHER -> {"", "text"}

\* What each layer can hold: the store only what is storable, the TOML file
\* nothing secret and only what coerce lets through.
Holds(layer, f, s) ==
  CASE layer = "stored" -> f \in Storable
    [] layer = "file" ->
         /\ f \in InFiles
         /\ PARAMS[f].kind = "Num" => s \in FitsI64
         /\ PARAMS[f].kind = "Bool" => s \in {"true", "false"}
    [] OTHER -> TRUE

\* A layer with one setting.
Setting(f, s) == [g \in {f} |-> s]

Entries(layers) == Cardinality(UNION {{l} \X DOMAIN layers[l] : l \in LayerNames})

PickStack ==
  input' = [of |-> "stack",
            stack |-> [l \in LayerNames |->
                         IF l = "env" THEN Over(Setting("api_key_salt", "salt-of-16-bytes"),
                                                Setting("master_api_key", "key-of-16-bytes"))
                         ELSE NoLayer]]

\* Fields meet only in one another's layers, and the secrets in the salt.
Placed == UNION {DOMAIN input.stack[l] : l \in LayerNames} \ {"api_key_salt", "master_api_key"}

Related(f, g) == f = g \/ (PARAMS[f].secret /\ PARAMS[g].secret)

Place(l, f, s) ==
  /\ Holds(l, f, s) /\ f \notin DOMAIN input.stack[l]
  /\ \A g \in Placed : Related(f, g)
  /\ input' = [input EXCEPT !.stack[l] = Over(Setting(f, s), @)]

\* A setting more in one of the layers.
Fill ==
  /\ Given_("stack")
  /\ Entries(input.stack) < 2 + MaxEntries
  /\ \E l \in LayerNames \ {"admin", "carried"}, f \in Fields :
       \E s \in Spellings(f) : Place(l, f, s)

-----------------------------------------------------------------------------
(***************************************************************************)
(* Properties.                                                             *)
(***************************************************************************)
\* The probe that reports where a field came from names a layer that, with
\* the salt, decides the field's value on its own.  source_of and get walk
\* the layers separately.
SourceAnswers ==
  Given_("stack") =>
    LET stack == input.stack
        salt == Setting("api_key_salt", Given(stack)["api_key_salt"])
        config == Resolved(stack)
    IN  \A f \in Fields :
          LET source == source_of(stack, f)
              alone == IF source = "default" THEN NoLayer ELSE Setting(f, stack[source][f])
          IN  FieldFrom(Over(alone, salt), f) = config[f]

\* Reloading what nobody has touched changes nothing and reports no drift:
\* every value, printed and carried over, is read back as itself.
ReloadOfUnchanged ==
  (Given_("stack") /\ Resolves(input.stack)) =>
    LET stack == input.stack
        config == Resolved(stack)
        again == Resolved([stack EXCEPT !["carried"] = boot_layer(config)])
    IN  again = config

\* A reload does not fail, nor sees a boot field move, because the files of
\* the deployment were rotated away after startup (boot_layer).
FilesMayVanish ==
  (Given_("stack") /\ Resolves(input.stack)) =>
    LET stack == input.stack
        config == Resolved(stack)
        without == [stack EXCEPT !["env-file"] = NoLayer, !["file"] = NoLayer,
                                 !["carried"] = boot_layer(config)]
        movable == {f \in BootFields : source_of(stack, f) \in {"env-file", "file", "default"}}
    IN  /\ Resolves(without)
        /\ \A f \in movable : Resolved(without)[f] = config[f]

\* config show tells no secret, not even one that another setting falls back
\* to, and what it shows of the rest, put into the layer it says it is from,
\* resolves to the same again (render_config, redact).
ShownIsTrue ==
  (Given_("stack") /\ Resolves(input.stack)) =>
    LET config == Resolved(input.stack)
        shown == render_config(config, input.stack)
    IN  \A f \in Fields :
          IF PARAMS[f].secret
          THEN \A g \in Fields : shown[g].value # config[f]
          ELSE shown[f].source # "default" =>
                 Resolved([input.stack EXCEPT
                             ![shown[f].source] = Over(Setting(f, shown[f].value), @)]) = config

\* Whatever the layers hold, where a value comes from is told truly, and a
\* reload of what nobody has touched, or whose files have gone, moves nothing.
LayersAnswer == SourceAnswers /\ ShownIsTrue /\ ReloadOfUnchanged /\ FilesMayVanish
=============================================================================
