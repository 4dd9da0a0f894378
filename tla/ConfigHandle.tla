-------------------------- MODULE ConfigHandle --------------------------
(***************************************************************************)
(* The running configuration of one process (src/src/config/handle.rs).    *)
(*                                                                         *)
(* Every operation holds one lock from its first read to its publication,  *)
(* so each is a single step; the store is read and written outside it, by  *)
(* the callers (ConfigAdmin).  Files are read anew on every resolve, and   *)
(* may change or disappear between any two.  The command line and the      *)
(* process environment are fixed.  An operation that is refused, or whose  *)
(* files or values do not resolve, changes nothing and is not an action.   *)
(***************************************************************************)
EXTENDS Resolution

CONSTANTS
  Cli,            \* what was on the command line: values, which files to read
  Env,            \* the process environment, a layer
  Disks,          \* what the env file and the TOML file may contain
  StoredLayers,   \* layers a caller may pass in as the store's
  Patches         \* overrides an administrator may ask for, as layers

ASSUME PinnedAssumption == DOMAIN Cli.values \subseteq Fields /\ DOMAIN Env \subseteq Fields

\* ConfigStore::load passes over the rows that may not be stored.
ASSUME StoredAssumption == \A layer \in StoredLayers : DOMAIN layer \subseteq Storable

VARIABLES
  disk,           \* the files as they are now
  running,        \* the published configuration
  overlay,        \* overrides set through the admin API
  held,           \* the store's layer as a caller last passed it
  sources,        \* provenance, as of the last resolve
  pending,        \* boot fields reported as waiting for a restart
  basis,          \* history: files and stored layer behind running
  judged          \* history: files and stored layer behind pending

innerVars == <<running, overlay, held, sources, pending>>

handleVars == <<disk, innerVars, basis, judged>>

\* What a start would resolve: no overlay, nothing carried.
Fresh(files, stored) ==
  Stack(load_layers(Cli, Env, files), NoLayer, stored, NoLayer)

Startable(files, stored) == LayersLoad(Cli, files) /\ Resolves(Fresh(files, stored))

Behind(files, stored) == [disk |-> files, stored |-> stored]

\* main: a stored layer that does not resolve is skipped, and still held.
Started(files, stored) ==
  LET used == IF Startable(files, stored) THEN stored ELSE NoLayer IN
  /\ Startable(files, used)
  /\ running' = Resolved(Fresh(files, used))
  /\ sources' = Captured(Fresh(files, used))
  /\ overlay' = NoLayer
  /\ held' = stored
  /\ pending' = {}
  /\ basis' = Behind(files, used)
  /\ judged' = Behind(files, used)

HandleInit ==
  \E stored \in StoredLayers :
    /\ disk \in Disks
    /\ Startable(disk, stored)
    /\ running = Resolved(Fresh(disk, stored))
    /\ sources = Captured(Fresh(disk, stored))
    /\ overlay = NoLayer
    /\ held = stored
    /\ pending = {}
    /\ basis = Behind(disk, stored)
    /\ judged = basis

-----------------------------------------------------------------------------
(***************************************************************************)
(* Operations.                                                             *)
(***************************************************************************)
\* resolve_with_carry.
Carrying(over, stored) ==
  Stack(load_layers(Cli, Env, disk), over, stored, boot_layer(running))

CanResolve(over, stored) == LayersLoad(Cli, disk) /\ Resolves(Carrying(over, stored))

Publish(over, stored) ==
  /\ running' = with_boot_fields_from(running, Resolved(Carrying(over, stored)))
  /\ sources' = Captured(Carrying(over, stored))
  /\ overlay' = over
  /\ basis' = Behind(disk, stored)

\* Mutant: whatever the store says of a boot field waits for a restart.
HoldEveryStored(over, stored) ==
  /\ held' = stored
  /\ pending' = DOMAIN stored \intersect BootFields
  /\ judged' = Behind(disk, stored)

Hold(over, stored) ==
  /\ held' = stored
  /\ pending' = boot_drift(running, Resolved(Carrying(over, stored)))
  /\ judged' = Behind(disk, stored)

reload(stored) ==
  /\ CanResolve(NoLayer, stored)
  /\ Publish(NoLayer, stored)
  /\ Hold(NoLayer, stored)
  /\ UNCHANGED disk

adopt_stored(stored) ==
  /\ CanResolve(overlay, stored)
  /\ Publish(overlay, stored)
  /\ Hold(overlay, stored)
  /\ UNCHANGED disk

dry_run(stored) == CanResolve(overlay, stored)

PatchAllows(updates) ==
  /\ DOMAIN updates \subseteq LiveFields
  /\ \A f \in DOMAIN updates : ~is_pinned(sources[f])
  /\ "log_level" \in DOMAIN updates => FilterParses(updates["log_level"])
  /\ CanResolve(Over(updates, overlay), held)

patch(updates) ==
  /\ PatchAllows(updates)
  /\ Publish(Over(updates, overlay), held)
  /\ UNCHANGED <<disk, held, pending, judged>>

EditFiles ==
  /\ disk' \in Disks
  /\ UNCHANGED <<innerVars, basis, judged>>

Restart(stored) ==
  /\ Started(disk, stored)
  /\ UNCHANGED disk

Next ==
  \/ EditFiles
  \/ \E stored \in StoredLayers : reload(stored) \/ adopt_stored(stored) \/ Restart(stored)
  \/ \E updates \in Patches : patch(updates)

Spec == HandleInit /\ [][Next]_handleVars

-----------------------------------------------------------------------------
(***************************************************************************)
(* Properties.                                                             *)
(***************************************************************************)
IsLayer(layer) == DOMAIN layer \subseteq Fields

TypeOK ==
  /\ disk \in Disks
  /\ DOMAIN running = Fields
  /\ Rejected \notin {running[f] : f \in Fields}
  /\ IsLayer(overlay) /\ DOMAIN overlay \subseteq LiveFields
  /\ IsLayer(held)
  /\ DOMAIN sources = Fields
  /\ pending \subseteq BootFields

\* The provenance says admin of exactly the fields that are overridden
\* ("the two can never disagree", ReloadState::sources): a field it says it
\* of for ever could never be told from one that is pinned.
ProvenanceIsCurrent ==
  {f \in Fields : sources[f] = "admin"} = DOMAIN overlay

\* What the command line or the environment gives is in force whatever is
\* patched, stored, reloaded or edited: these two are the recovery path.
PinnedIsInForce ==
  LET pinned == Over(Cli.values, Env) IN
  \A f \in DOMAIN pinned : running[f] = Parse(f, pinned[f])

\* Every live field is what the overrides, the files and the stored layer
\* last resolved amount to, in whatever order the operations came.
LiveFieldsExplained ==
  LET explained == Stack(load_layers(Cli, Env, basis.disk), overlay, basis.stored,
                         boot_layer(running))
  IN  \A f \in LiveFields : running[f] = Resolved(explained)[f]

\* The stored layer held is the one in force, unless a start skipped it.
HeldIsInForce == held = basis.stored \/ ~Startable(basis.disk, held)

\* What runs is what the layers in force amount to, and their provenance says
\* so.
RunningIsExplained ==
  ProvenanceIsCurrent /\ PinnedIsInForce /\ LiveFieldsExplained /\ HeldIsInForce

\* A field reported as waiting for a restart would change at one, with the
\* files and the stored layer that were resolved; and every field these give,
\* and a restart would change, is reported.  (A boot field whose source has
\* gone is carried, and not reported although a restart would change it.)
PendingIsReal ==
  LET fresh == Fresh(judged.disk, judged.stored)
      Moves(f) == Resolved(fresh)[f] # running[f]
  IN  Startable(judged.disk, judged.stored) =>
        /\ \A f \in pending : Moves(f)
        /\ \A f \in BootFields \intersect DOMAIN Given(fresh) : Moves(f) => f \in pending

\* Only a start moves a boot field: listeners, pools and keys have captured
\* them.
BootFieldsHold ==
  [][(\E f \in BootFields : running'[f] # running[f]) => Restart(held')]_handleVars
=============================================================================
