--------------------------- MODULE ConfigAdmin --------------------------
(***************************************************************************)
(* Who changes the configuration of a running server, and how they meet:   *)
(* the handlers of routes/admin.rs, the SIGHUP task of main.rs, the config *)
(* store, offline edits, and a restart.                                    *)
(*                                                                         *)
(* ConfigHandle's operations are atomic; a handler is not.  It is cut at   *)
(* its awaits: what it read before one may have changed after it.  A       *)
(* client that disconnects cancels its handler at an await; a resolve      *)
(* already handed to a blocking thread still happens.                      *)
(***************************************************************************)
EXTENDS ConfigHandle

CONSTANTS
  Clients,      \* requests that may be in flight at once
  Requests,     \* bound: which of "put", "delete", "reload", "restart" they make
  Overrides,    \* what PATCH may be asked to override, as layers
  Puts,         \* what PUT may be asked to store, as layers
  Deletes,      \* fields DELETE may be asked about
  Taken         \* ports some other program listens on

VARIABLES
  store,        \* the config_settings table
  req,          \* requests in flight
  hup,          \* the SIGHUP task
  life,         \* the process: "up", "restarting" or "down"
  blame         \* history: how held and the store may have come apart

adminVars == <<handleVars, store, req, hup, life, blame>>

Idle == [at |-> "idle"]

InFlight == {c \in Clients : req[c] # Idle}

Quiet == InFlight = {} /\ hup = Idle

\* A writer begins while another has yet to finish; or with nobody at work
\* and nothing to explain.
Overlap ==
  CASE ~Quiet -> blame \union {"overlap"}
    [] Quiet /\ held = store -> {}
    [] OTHER -> blame

Goes(c, to) == req' = [req EXCEPT ![c].at = to]

Done(c) == req' = [req EXCEPT ![c] = Idle]

Accepts(c, request) == life = "up" /\ req[c] = Idle /\ request \in Requests

MayWrite == running["admin_config_write"] = "true"

Without(layer, f) == [g \in DOMAIN layer \ {f} |-> layer[g]]

AdminInit ==
  /\ HandleInit
  /\ store = held
  /\ req = [c \in Clients |-> Idle]
  /\ hup = Idle
  /\ life = "up"
  /\ blame = {}

-----------------------------------------------------------------------------
(***************************************************************************)
(* PUT and DELETE /config/stored.                                          *)
(***************************************************************************)
\* Mutant: what may not be stored is not refused.
BeginPutAnything(c) ==
  /\ Accepts(c, "put")
  /\ MayWrite
  /\ \E updates \in Puts :
       req' = [req EXCEPT ![c] = [at |-> "check", updates |-> updates, remove |-> {},
                                  candidate |-> Over(updates, held)]]
  /\ blame' = Overlap
  /\ UNCHANGED <<handleVars, store, hup, life>>

\* Mutant: the candidate is what was asked for, without what is stored.
BeginPutAlone(c) ==
  /\ Accepts(c, "put")
  /\ MayWrite
  /\ \E updates \in Puts :
       /\ DOMAIN updates # {} /\ DOMAIN updates \subseteq Storable
       /\ req' = [req EXCEPT ![c] = [at |-> "check", updates |-> updates, remove |-> {},
                                     candidate |-> updates]]
  /\ blame' = Overlap
  /\ UNCHANGED <<handleVars, store, hup, life>>

BeginPut(c) ==
  /\ Accepts(c, "put")
  /\ MayWrite
  /\ \E updates \in Puts :
       /\ DOMAIN updates # {} /\ DOMAIN updates \subseteq Storable
       /\ req' = [req EXCEPT ![c] = [at |-> "check", updates |-> updates, remove |-> {},
                                     candidate |-> Over(updates, held)]]
  /\ blame' = Overlap
  /\ UNCHANGED <<handleVars, store, hup, life>>

BeginDelete(c) ==
  /\ Accepts(c, "delete")
  /\ MayWrite
  /\ \E f \in Deletes \intersect Fields :
       req' = [req EXCEPT ![c] = [at |-> "check", updates |-> NoLayer, remove |-> {f},
                                  candidate |-> Without(held, f)]]
  /\ blame' = Overlap
  /\ UNCHANGED <<handleVars, store, hup, life>>

\* The dry run, on a blocking thread.
Check(c) ==
  /\ req[c].at = "check"
  /\ IF dry_run(req[c].candidate) THEN Goes(c, "write") ELSE Done(c)
  /\ UNCHANGED <<handleVars, store, hup, life, blame>>

\* ConfigStore::set or unset.  Nothing to remove is an error.
Stores(c) ==
  /\ req[c].remove \subseteq DOMAIN store
  /\ store' = Over(req[c].updates, [g \in DOMAIN store \ req[c].remove |-> store[g]])

Write(c) ==
  /\ req[c].at = "write"
  /\ Stores(c)
  /\ Goes(c, "adopt")
  /\ UNCHANGED <<handleVars, hup, life, blame>>

WriteFails(c) ==
  /\ req[c].at = "write"
  /\ Done(c)
  /\ UNCHANGED <<handleVars, store, hup, life, blame>>

\* The client disconnects while the statement runs, which happens or not.
Disconnect(c) ==
  /\ req[c].at = "write"
  /\ Stores(c) \/ UNCHANGED store
  /\ Done(c)
  /\ blame' = blame \union {"interrupted"}
  /\ UNCHANGED <<handleVars, hup, life>>

\* The boot fields that now differ are kept for the answer.
Adopt(c) ==
  /\ req[c].at = "adopt"
  /\ adopt_stored(req[c].candidate)
  /\ req' = [req EXCEPT ![c] = [at |-> "answer", updates |-> req[c].updates, drift |-> pending']]
  /\ UNCHANGED <<store, hup, life, blame>>

\* A file broke after the dry run: an error, with the row written.
AdoptFails(c) ==
  /\ req[c].at = "adopt"
  /\ ~CanResolve(overlay, req[c].candidate)
  /\ Done(c)
  /\ blame' = blame \union {"interrupted"}
  /\ UNCHANGED <<handleVars, store, hup, life>>

\* The answer is put together outside the lock, from the provenance and the
\* store of then.
Answer(c) ==
  /\ req[c].at = "answer"
  /\ Done(c)
  /\ UNCHANGED <<handleVars, store, hup, life, blame>>

-----------------------------------------------------------------------------
(***************************************************************************)
(* What clients are told.                                                  *)
(***************************************************************************)
ConfigEntry(f) ==
  [value |-> redact(f, running[f]), source |-> sources[f], storable |-> f \in Storable,
   editable |-> f \in LiveFields /\ ~is_pinned(sources[f]),
   shadowed_by |-> IF f \in DOMAIN held /\ sources[f] # "stored" THEN sources[f] ELSE "none"]

describe_config ==
  [config |-> [f \in Fields |-> ConfigEntry(f)], overrides |-> DOMAIN overlay,
   pending_restart |-> pending]

shadowed(stored) == {f \in DOMAIN stored : sources[f] # "stored"}

describe_stored == [stored |-> store, shadowed |-> shadowed(store), pending_restart |-> pending]

\* Mutant: only what the command line or the environment gives counts as
\* masking a stored value.
put_message_Pinned(updates, drift) ==
  LET masked == {f \in DOMAIN updates : is_pinned(sources[f])}
      waiting == (drift \intersect DOMAIN updates) \ masked
  IN  [masked |-> masked, waiting |-> waiting,
       in_effect |-> DOMAIN updates \ (masked \union waiting)]

\* The three fates of what was stored.
put_message(updates, drift) ==
  LET masked == shadowed(updates)
      waiting == (drift \intersect DOMAIN updates) \ masked
  IN  [masked |-> masked, waiting |-> waiting,
       in_effect |-> DOMAIN updates \ (masked \union waiting)]

-----------------------------------------------------------------------------
(***************************************************************************)
(* PATCH /config, POST /config/reload, SIGHUP.                             *)
(***************************************************************************)
\* Everything the handler checks, the handle checks again under its lock.
Patch ==
  /\ life = "up"
  /\ MayWrite
  /\ \E updates \in Overrides : DOMAIN updates # {} /\ patch(updates)
  /\ UNCHANGED <<store, req, hup, life, blame>>

\* The layer the handle remembers, not the store's.
BeginReload(c) ==
  /\ Accepts(c, "reload")
  /\ req' = [req EXCEPT ![c] = [at |-> "reload", layer |-> held]]
  /\ blame' = Overlap
  /\ UNCHANGED <<handleVars, store, hup, life>>

Reload(c) ==
  /\ req[c].at = "reload"
  /\ \/ reload(req[c].layer)
     \/ ~CanResolve(NoLayer, req[c].layer) /\ UNCHANGED handleVars
  /\ Done(c)
  /\ UNCHANGED <<store, hup, life, blame>>

\* Mutant: the signal's handler uses what the handle remembers, too.
BeginHupRemembered ==
  /\ life = "up"
  /\ hup = Idle
  /\ hup' = [at |-> "reload", layer |-> held, stored |-> store]
  /\ blame' = Overlap
  /\ UNCHANGED <<handleVars, store, req, life>>

\* reload_on_sighup: store.load, then the reload.  A store that cannot be
\* read ends it.
BeginHup ==
  /\ life = "up"
  /\ hup = Idle
  /\ hup' = [at |-> "reload", layer |-> store, stored |-> store]
  /\ blame' = Overlap
  /\ UNCHANGED <<handleVars, store, req, life>>

Hup ==
  /\ hup.at = "reload"
  /\ \/ reload(hup.layer) /\ blame' = blame
     \/ /\ ~CanResolve(NoLayer, hup.layer)
        /\ blame' = blame \union {"interrupted"}
        /\ UNCHANGED handleVars
  /\ hup' = Idle
  /\ UNCHANGED <<store, req, life>>

\* captchapi config unset and config clear, from a process of their own.
Offline ==
  /\ \/ \E f \in Deletes \intersect DOMAIN store : store' = Without(store, f)
     \/ store' = NoLayer
  /\ blame' = blame \union {"offline"}
  /\ UNCHANGED <<handleVars, req, hup, life>>

Edit ==
  /\ EditFiles
  /\ UNCHANGED <<store, req, hup, life, blame>>

-----------------------------------------------------------------------------
(***************************************************************************)
(* POST /restart.  The drain lets requests finish, then the process comes  *)
(* back as the same command.                                               *)
(***************************************************************************)
Address(config) == <<config["server_host"], config["server_port"]>>

\* Mutant: the address that is test-bound is the one already bound.
BeginRestartRunning(c) ==
  /\ Accepts(c, "restart")
  /\ running["admin_restart_enabled"] = "true"
  /\ dry_run(held)
  /\ req' = [req EXCEPT ![c] = [at |-> "preflight", next |-> Address(running)]]
  /\ UNCHANGED <<handleVars, store, hup, life, blame>>

BeginRestart(c) ==
  /\ Accepts(c, "restart")
  /\ running["admin_restart_enabled"] = "true"
  /\ dry_run(held)
  /\ req' = [req EXCEPT ![c] =
       [at |-> "preflight", next |-> Address(Resolved(Carrying(overlay, held)))]]
  /\ UNCHANGED <<handleVars, store, hup, life, blame>>

preflight_bind(next) == next = Address(running) \/ next[2] \notin Taken

Preflight(c) ==
  /\ req[c].at = "preflight"
  /\ life' = IF preflight_bind(req[c].next) THEN "restarting" ELSE life
  /\ Done(c)
  /\ UNCHANGED <<handleVars, store, hup, blame>>

\* The next start: it resolves without the running values, applies the
\* store, and binds.
Comeback ==
  /\ life = "restarting"
  /\ Quiet
  /\ Restart(store)
  /\ Address(running') = Address(running) \/ running'["server_port"] \notin Taken
  /\ life' = "up"
  /\ blame' = {}
  /\ UNCHANGED <<store, req, hup>>

\* What the next start would do.
NextStart == Resolved(Fresh(disk, IF Startable(disk, store) THEN store ELSE NoLayer))

StartFails ==
  \/ ~Startable(disk, NoLayer)
  \/ Address(NextStart) # Address(running) /\ NextStart["server_port"] \in Taken

FailsToComeBack ==
  /\ life = "restarting"
  /\ Quiet
  /\ StartFails
  /\ life' = "down"
  /\ UNCHANGED <<handleVars, store, req, hup, blame>>

AdminNext ==
  \/ \E c \in Clients :
       \/ BeginPut(c) \/ BeginDelete(c) \/ Check(c) \/ Write(c) \/ WriteFails(c)
       \/ Disconnect(c) \/ Adopt(c) \/ AdoptFails(c) \/ Answer(c)
       \/ BeginReload(c) \/ Reload(c)
       \/ BeginRestart(c) \/ Preflight(c)
  \/ Patch \/ BeginHup \/ Hup \/ Offline \/ Edit
  \/ Comeback \/ FailsToComeBack

AdminSpec == AdminInit /\ [][AdminNext]_adminVars

-----------------------------------------------------------------------------
(***************************************************************************)
(* Properties.                                                             *)
(***************************************************************************)
AdminTypeOK ==
  /\ TypeOK
  /\ IsLayer(store) /\ DOMAIN store \subseteq Storable
  /\ IsLayer(held) /\ DOMAIN held \subseteq Storable
  /\ life \in {"up", "restarting", "down"}
  /\ blame \subseteq {"overlap", "interrupted", "offline"}

\* GET /config says of every stored setting how things are: it is in force, or
\* named as waiting for a restart, or a layer above the store is named; and
\* what is overridden can be overridden again.  (So long as the layer held is
\* the one drift was last judged with.  It is not from a start that skipped
\* the layer to the next reload or write; a patch meanwhile may let it
\* resolve, and then says stored of a boot field that neither runs nor waits.)
ConsoleIsTrue ==
  LET told == describe_config IN
  /\ told.overrides \subseteq {f \in Fields : told.config[f].editable}
  /\ held = judged.stored =>
       \A f \in DOMAIN held :
         CASE told.config[f].shadowed_by = "none" ->
                running[f] = Parse(f, held[f]) \/ f \in told.pending_restart
           [] OTHER -> told.config[f].shadowed_by \in {"admin", "cli", "env"}

\* What GET reports of the stored settings and of the next start is so.
ReportsAreTrue == PendingIsReal /\ ConsoleIsTrue

\* A PUT that met no other writer is told the truth, though the answer is put
\* together after the lock is gone: what is said to be in effect is running,
\* what is said to wait is what the next start would run, and the rest is
\* masked from above (put_message, "three possible fates"); and when nothing
\* else happened, GET /config/stored says the same.
AnswerIsTrue ==
  [][\A c \in Clients :
       req[c].at = "answer" /\ req'[c] = Idle /\ "overlap" \notin blame =>
         LET asked == req[c].updates
             told == put_message(asked, req[c].drift)
             next == Resolved(Fresh(judged.disk, judged.stored))
         IN  /\ \A f \in told.in_effect : running[f] = Parse(f, asked[f])
             /\ \A f \in told.waiting : next[f] = Parse(f, asked[f]) /\ running[f] # next[f]
             /\ \A f \in told.masked : sources[f] \in {"admin", "cli", "env"}
             /\ blame = {} =>
                  /\ told.masked = describe_stored.shadowed \intersect DOMAIN asked
                  /\ told.waiting \subseteq describe_stored.pending_restart]_adminVars

\* The layer the server runs with is the one that is stored, unless writers
\* overlapped, a client left while its write ran, a file broke under a
\* resolve, or somebody wrote past the server.
DriftHasCause == Quiet /\ life = "up" /\ held # store => blame # {}

\* A SIGHUP that succeeds, with nothing written while it ran, leaves the
\* server with what is stored, whatever it had remembered: it is the cure for
\* every cause above.
HupResyncs ==
  [][hup # Idle /\ hup' = Idle /\ hup.stored = store /\ CanResolve(NoLayer, hup.layer)
       => held' = store']_adminVars

\* As DriftHasCause, without the overlap: an administrator's writes, and a
\* SIGHUP, never undo one another.
NoLostUpdate ==
  Quiet /\ life = "up" /\ held # store => blame \ {"overlap"} # {}

\* A restart is accepted only if the configuration it starts with resolves,
\* and the address that is test-bound is the one it would bind (docs/API.md,
\* "Two checks run before anything happens"): so long as nothing is overridden,
\* the handle remembers what is stored, and every boot field still has its
\* source.  Otherwise the running values stand in for what is gone.
RestartIsChecked ==
  [][\A c \in Clients :
       req[c] = Idle /\ req'[c].at = "preflight" /\ overlay = NoLayer /\ held = store
         /\ {f \in Fields : Captured(Carrying(overlay, held))[f] = "carried"}
              \subseteq {f \in Fields : running[f] = Resolved(Fresh(disk, store))[f]}
         => Startable(disk, store) /\ req'[c].next = Address(NextStart)]_adminVars
=============================================================================
