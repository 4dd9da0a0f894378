# CaptchAPI: specifications

TLA+ specifications of CaptchAPI, the CAPTCHA service of this repository, checked with TLC on
small instances and proved with TLAPS where it matters most. Paths are relative to the
repository root, so the server's crate is `src/src/...` seen from here.

- [The system](#the-system)
- [Modules](#modules)
- [Runs](#runs)
- [The config store and the life of a process](#the-config-store-and-the-life-of-a-process)
- [Sessions](#sessions)
- [The running configuration](#the-running-configuration)
- [Main, its tasks, keys and limits](#main-its-tasks-keys-and-limits)
- [The Node.js package](#the-nodejs-package)
- [The pure parts](#the-pure-parts)
- [What is proved](#what-is-proved)
- [Where the code and its documentation disagree](#where-the-code-and-its-documentation-disagree)
- [Behaviour worth knowing](#behaviour-worth-knowing)
- [Not modelled](#not-modelled)

## The system

One server process, an SQLite database, and whoever calls. The parts:

| part | source | state | operations | what is hard about it |
|---|---|---|---|---|
| Config store | `services/config_store.rs` | tables `config_settings`, `config_generations` | `set`, `unset`, `clear`, `prepare_boot`, `load`, `confirm` | survives crashes; several processes and the command line share it; decides what the next start does |
| Start-up | `main.rs`, `config/boot.rs` | how far the process has got, the generation it will confirm | parse, open, prepare, load, apply, bind, serve, confirm after 30 s | several transactions, a timer that races the shutdown, a death at any point |
| Lifecycle | `main.rs`, `restart.rs`, `cli.rs` | the process image, its tasks, signals, token; PID files by path | SIGHUP, SIGTERM, restart, drain, join, flush, exit or exec | the order of the end, for three ends; which file a changed setting leaves behind |
| Configuration handle | `config/handle.rs` | running `Config`, overlay, stored layer, provenance, pending restart | `reload`, `adopt_stored`, `dry_run`, `patch`, reads | a lock per operation, none across the awaits of a handler |
| Admin API | `routes/admin.rs` | none of its own | `GET/PATCH /config`, `GET/PUT/DELETE /config/stored`, `POST /reload`, `/restart`, `/cleanup` | checks, writes and adopts with awaits in between |
| Layered resolution | `config/sources.rs`, `mod.rs`, `params.rs` | none | eight layers, first answer wins | precedence, secrets that must never come from the database, what a reload carries |
| Command line | `cli.rs` | none | `run`, `reload`, `config show / check / unset / clear` | options in several forms; a second walk over the layers |
| Sessions | `services/session_ops.rs`, `storage.rs`, `routes/sessions.rs` | table `sessions` | create, details, image, validate, delete | read, await, write: no transaction spans a request |
| Request validation | `validation.rs`, `error.rs`, `models/session.rs` | none | limits, defaults, lifetimes, error answers | integer widths, two front ends |
| Cleanup task | `tasks/cleanup.rs` | its interval | sweep expired sessions, prune the rate limiter | ticks, configuration changes and shutdown in one `select!` |
| Log filter task | `tasks/log_filter.rs` | the filter it last applied | follow `log_level` | subscribes late |
| API keys, authentication | `routes/api_keys.rs`, `middleware/auth.rs`, `services/api_key_ops.rs` | table `api_keys` | create, list, update, delete, authenticate | admitted requests outlive their key; a detached update |
| Rate limiting | `services/rate_limiter.rs`, `app.rs` | cells per address | charge, replenish, prune | the table must not grow for ever, pruning must not give a burst back |
| HTTP assembly | `app.rs`, `routes/*.rs`, `middleware/*.rs` | none | which layers wrap which route | order of the layers |
| Rendering | `services/captcha/*.rs` | none | draw a picture | clipping, rounding, order of letters |
| Cryptographic helpers | `services/hmac.rs`, `solution_hash.rs`, `image_cipher.rs`, `auth.rs` | none | derive, hash, encrypt | one secret may serve for several purposes |
| Telemetry | `telemetry.rs`, `metrics.rs` | global providers | install, record, shut down | instruments stay with the provider they were made under |
| Bindings and wrapper | `bindings/nodejs`, `packages/captchapi` | singleton, closed flag, a pool | every operation from Node.js | concurrent `getInstance`, `close` at any time, callbacks that throw |

They interact through the database (every transaction is atomic, nothing larger is), through the
handle (one mutex, held per operation), through the watch channel (the two tasks), and through the
shutdown token. What should hold of each part, in a sentence:

- *Config store*: a configuration that prevents startup rolls back to the last one that served, by
  itself; nothing counts as known good that did not serve; the last known good one is never lost.
- *Lifecycle*: once nobody interferes, the server ends up serving; once asked to stop, it stops, in
  order: tasks, PID file, telemetry. No file it wrote outlives it, unless nothing could be done.
- *Sessions*: no free guess, no answer after the answer, no verdict reversed, no deletion without a
  reason that still holds, expired rows go.
- *Handle and admin API*: the running configuration is the one the layers resolve to, reports about
  it are true, and the stored layer in use is the one in the database unless there is a reason.
- *Keys and limits*: who comes after a revocation stays outside, nobody gets more than its burst.
- *Wrapper*: the singleton is the one of its key; a promise tells the truth about the database;
  `close` is final.
- *Pure parts*: compared with a reference definition, or with each other where the code says the
  same thing twice.

## Modules

| module | models | used by |
|---|---|---|
| `ConfigStore` | the two tables and the transactions on them, one action each; no `Next` | `ConfigBoot` |
| `ConfigBoot` | server processes, the command line and the writers around the store | `MCConfigBoot`, `ConfigBootProofs` |
| `KnownGood` | what the store promises, without the generation table | `ConfigBoot` (refinement) |
| `Sessions` | the sessions table, requests in flight statement by statement, cleanup, the process | `MCSessions`, `SessionsProofs` |
| `Params`, `Resolution` | the parameter table; parsing, the eight layers, provenance, what a reload carries, `config show` | `ConfigHandle`, `CommandLine`, `Routes` |
| `ConfigHandle` | the operations of `ConfigHandle`, each one step under its lock | `ConfigAdmin`, `ConfigHandleProofs` |
| `ConfigAdmin` | the admin handlers cut at their awaits, SIGHUP, offline edits, restart | `MCConfig`, `ConfigAdminProofs` |
| `Lifecycle` | `main` from arguments to exit or exec, signals, background tasks, PID file | `MCServer`, `ServerProofs` |
| `Watchers` | log filter task and cleanup interval as followers of the watch channel | `MCServer`, `ServerProofs` |
| `Admission` | API keys statement by statement, the middleware, the detached stamp, the limiter | `MCServer`, `ServerProofs` |
| `Wrapper` | `getInstance`, `create`, `clearInstance`, `close` of the TypeScript class at their awaits | `MCServer`, `PackageProofs` |
| `NodeCalls` | the calls of one instance on its pool, and `close` between any two statements | `MCServer`, `PackageProofs` |
| `CommandLine` | `pico-args`, `parse`, the `config` verbs, which file `reload` reads | `MCCommandLine` |
| `Drawing`, `Rendering` | the primitives of the renderer; how a picture is composed of them | `MCDrawing`, `MCRendering` |
| `Requests` | validation, lifetimes, cache headers, errors, what a key is described by and shown as, in the server and in the binding | `MCRequests` |
| `Routes` | route tables, layers, what a request meets before its handler | `MCRoutes` |
| `NodeSetup` | version check, builder, the binding's configuration | `MCNodeSetup` |
| `MCAnswers` | what is asked from outside: `MCRequests`, `MCRoutes` and `MCNodeSetup` together | `FunctionProofs` |
| `Secrets` | HMAC, key derivation, solution hashes, encrypted images | `MCSecrets` |
| `Telemetry` | endpoints, providers, their order in `main` | `MCTelemetry` |
| `MCServer` | the parts of a process that share no state, one at a time | `ServerProofs` |
| `MCFunctions`, `Inputs` | the pure parts, one input at a time | `FunctionProofs`, `RenderingProofs` |
| `*Proofs` | theorems; see [What is proved](#what-is-proved) | |

Operators whose comment begins with `Mutant:` are deliberately wrong variants of the definition
that follows them. No specification uses them; substituting one for its original makes TLC report
the property it is meant for, which shows that the property can fail.

## Runs

| run | instance | shows |
|---|---|---|
| `boot` | 1 server, 1 storable field and 1 that never is, 3 values (good, unparsable, fatal), environments that do and do not hide the field, 3 generations, store edited offline only | what was confirmed ran, a rollback restores what was known good, the next start rolls back, and `ConfigBoot` implements `KnownGood` |
| `boot_shared` | 2 servers, 1 live field that runtime overrides may hide, 2 values, 3 generations, store edited at any time | what remains true when only SQLite serialises the processes |
| `boot_heals` | 1 server, good and fatal values, 3 generations, fairness | `SelfHeals` |
| `sessions` | 2 requests at a time, 1 session, limits 1 and 2, clock to 2, fairness | no free guess, solved is gone, bounded overrun, refusals stand, deletions have a cause, expired rows go |
| `config` | a handle with any caller over 7 states of the files, 4 stored layers and 6 patches; and a server with one client, two states of the files, PUT, DELETE, PATCH, reload, restart, SIGHUP, offline edits | what runs is explained, reports and answers are true, drift has a cause, SIGHUP resynchronises, boot fields hold, a restart is checked |
| `server` | six parts, one per behaviour; bounds below | everything about main, tasks, keys, limiter, wrapper and its calls, with liveness |
| `functions` | one input at a time for each pure part | everything about the pure parts |
| `boot_race`, `boot_masked`, `sessions_burst`, `config_lost_update`, `server_terminated` | as above | counterexamples, [see below](#where-the-code-and-its-documentation-disagree) |

Three generations are enough for the cases that differ: a confirmed one, one on trial, and one
written meanwhile. A second server makes late confirms and simultaneous starts possible; a third
adds no new pair. Rows of different sessions never meet, so one id carries the argument; two
requests make every stale read possible. The safety properties of these runs are proved for every
value of the constants, so their bounds matter only for what is not proved.

`boot_shared` leaves to `boot` the properties that hold of one undisturbed server only, and `boot`
leaves to `boot_shared` those that hold of any number.

## The config store and the life of a process

**State.** `settings` is `config_settings` (a function from every field to a value or `Absent`);
`generations` is `config_generations` (an id without a row has status `"none"`: never inserted, or
pruned); `lastId` is its AUTOINCREMENT counter. Per process: `pc` (how far `main` has got),
`shadow` (the fields its arguments and environment answer for, so that a stored value does not
count), `stored` (the layer its `ConfigHandle` holds), `boot` (the stored layer in effect since
startup), `gen` (`booted_generation`), `timer` (the confirm task). `proved` is a history variable:
every boot layer that served for `CONFIRM_AFTER`.

**Actions.** One per transaction or step of `main`:

| action | code |
|---|---|
| `Start` | arguments parsed, pool open, migrations run |
| `BootEmpty`, `BootClean`, `BootTrying`, `BootRolledBack` | the four outcomes of `prepare_boot` |
| `IgnoreStored` | `--ignore-stored-config` |
| `ApplyStored` | `load`, then `apply_stored`: a layer that does not resolve is left out and its generation not confirmed, while the handle keeps the layer |
| `Serve`, `FailToStart` | the listener binds, or an address in use ends the process |
| `SurviveLongEnough`, `ConfirmGeneration` | the sleep of the confirm task, then its transaction, which may find nothing to update or fail (logged, never retried) |
| `Stop`, `Exit`, `Crash` | graceful stop or restart, its end, and death at any point |
| `PutStored`, `DeleteStored`, `ReloadOnSighup` | writers in a live process, each one step |
| `CliUnset`, `CliClear` | `captchapi config unset` and `clear`, in a process of their own |

**Abstractions.** Every SQL transaction is atomic; one that fails has no effect (a busy database at
boot is a `Crash`, in a handler a refused request, in the confirm task a `ConfirmGeneration` that
changes nothing). Values are `ok`-like, `Unparsable` (fail to resolve) or `Fatal` (resolve, and
prevent startup: an address in use). Binding takes less than `CONFIRM_AFTER`, since the code
starts the timer just before it binds. A `SIGHUP` before its handler is installed kills the
process: that is `Crash`. The confirm task's `select!` between shutdown and sleep is the
interleaving of `SurviveLongEnough` and `Stop`. A candidate is checked under what hides its fields
at that moment: the process's environment (`shadow`) and any set of runtime overrides on
`Overridable` fields, which `HiddenNow` chooses freely. Writers in the server check, write and
adopt in one step here, and `admin_config_write` is on; the awaits inside the handlers are the
subject of `ConfigAdmin` and do not concern the generation table, which only sees their
transaction.

**Parameters.** `Environments` is a parameter since "known good" is relative to it: what served under
one set of arguments may not under another; `boot_heals` has one environment, and so one notion of
what prevents startup. Two fields suffice because fields never interact except through "all of them
resolve" and "storable". `CliOnline` says whether the command line may edit the store while a server
is up. With one server and `CliOnline = FALSE` (`Undisturbed`) the confirmed generation is always one
that ran; without it, it is not (`boot_race`).

**Fairness.** `FairSpec` has weak fairness on `Start` (a supervisor restarts what is down) and on
`Advance` (a process that can take its next step of `main` takes it). Nothing obliges anybody to
stop, crash, write or edit. `SelfHeals` further assumes that eventually nobody stops or kills the
server any more; `FailToStart` and `Exit` are the process's own doing and remain possible.

**Invariants.** `BookkeepingInv` holds for any number of servers: the newest generation is
`lastId` and its snapshot is the table, only unreachable generations are pruned, what a process may
confirm was tried, and by it alone. `TrialInv` needs `Undisturbed`: what is on trial is what the
process loaded, and nothing can be confirmed that would change what a rollback just restored.

## Sessions

**State.** `rows` is the `sessions` table (expiry and attempt count), `issued` the ids drawn,
`clock` the wall clock in seconds, `limit` the live `max_validation_attempts`, `life` whether the
process is up, `req` the requests in flight: the statement each runs next and what it was called
with. History variables: `wrong` (wrong answers a client was told about), `solved`, `refused` (the
highest limit a client was refused under); a validation also records, as `floor`, what had been
refused for its id when it arrived.

**Actions.** Each handler is cut at its awaits. `BeginCreate`, `BeginRead`, `BeginDelete` and
`BeginValidate` take the request in and capture what is read once (the limit, the expiry);
`Insert`, `Look`, `Evict`, `Delete`, `Select`, `Refuse`, `Accept` and `Charge` are its
statements. `Verdict` is the decision of `validate_session_orchestrated`, taken from the row as
selected. Where the code ignores a failed deletion (`Evict`, `Refuse`) the action may
leave the row; where it propagates the failure, the request ends without an answer (`Abandon`),
as it does when the client disconnects and the handler is dropped while its statement may or may
not have run. `Cleanup` is the DELETE that the tick, `POST /admin/cleanup` and the shutdown share.
`Reload` changes the limit, `Stop`/`Drained`/`Crash`/`Start` the process.

**Abstractions.** An answer is right or wrong: hashing and encryption change no state. The expiry
check is taken with the SELECT it follows. Ids are v4 UUIDs and never drawn twice. A limit of zero
or less (the code parses a signed integer) refuses every answer, as 0 does here. A change of the
hashing or encryption key between two starts, which makes every stored answer wrong, is left out.

**Bounds.** With a lifetime of 1 and a clock to 2 a session is fresh, at its last second (not expired:
the code compares with `>`), and expired. `MaxClock` is the only bound; attempts are bounded by the
verdict.

**Fairness.** Weak fairness on `Cleanup` only: the interval keeps ticking while the process is up,
and a sweep that failed is repeated at the next tick. `ExpiredAreReclaimed` assumes that the
server eventually stays up, and the configuration does not keep changing faster than the interval.

## The running configuration

**State.** `ConfigHandle` has what `ReloadState` and the watch channel hold: `running` (the
published `Config`), `overlay` (overrides of `PATCH`), `held` (the layer the store was last known to
hold), `sources` (provenance), `pending` (boot fields that wait for a restart). `disk` is what the
env file and the TOML file contain at the moment; both are read again at every resolve. `basis` and
`judged` are history variables: the files and the stored layer that `running`, and `pending`, were
last computed from. `ConfigAdmin` adds `store` (the settings table), `req` (handlers in flight and
what they have read), `hup` (the SIGHUP task), `life`, and `blame`: why `held` and `store` may have
come apart (`overlap` of writers, a handler `interrupted`, an edit made `offline`).

**Actions.** `reload`, `adopt_stored` and `patch` of the handle each take the mutex, resolve, assign
and publish, which no other operation can see half done: one step each, as is `Restart`. `dry_run`
changes nothing and is an operator. `EditFiles` comes between any two. The handlers have awaits:

| action | code |
|---|---|
| `BeginPut`, `Check`, `Write`, `WriteFails`, `Adopt`, `AdoptFails`, `Answer` | `put_stored`: candidate from the handle, `dry_run`, the transaction, `adopt_stored`, the message |
| `BeginDelete` | `delete_stored`, whose checks differ; then the same steps |
| `Disconnect` | axum drops the handler at an await; work handed to a blocking thread still happens |
| `Patch`, `BeginReload`, `Reload` | `PATCH /config`; `POST /config/reload`, which reads the remembered layer first |
| `BeginHup`, `Hup` | the SIGHUP task reads the store, then reloads with what it read |
| `Offline`, `Edit` | `captchapi config unset / clear`; an editor |
| `BeginRestart`, `Preflight`, `Comeback`, `FailsToComeBack` | `POST /restart`: dry run, test bind, then the next start |

`Resolution` is the
meaning of "resolves": the eight layers (`load_layers`), the first that names a field answers
(`get`), the parser of its type decides (`Parse`), fallbacks of the secrets, `validate`, and for a
reload `boot_layer` and `with_boot_fields_from`. `Params` is the table of all 23 settings.

**Abstractions.** A value is a spelling: a few per type, among them one that does not parse, one out
of range, and two that parse to the same. What a spelling parses to is again a spelling, the one
`Display` prints, so that printing and reading back are modelled and not assumed. A file is absent,
broken, or a layer. Answers that read only (`GET /config`, `GET /config/stored`, the message of a
PUT) are operators on the state (`describe_config`, `describe_stored`, `put_message`), and
`AnswerIsTrue` and `ReportsAreTrue` say what they must tell.

**Bounds.** Mode `handle` lets any caller pass any of four layers as the store's, over seven states
of the files and six patches: the handle's own invariants need no server. Mode `server` has the
handlers around it, one client, two states of the files. One client still meets SIGHUP, the
restart, offline edits and its own interrupted predecessor; two clients are what
`config_lost_update` has. `ServerBounds` keeps a server to the files it was given.

**Properties.** `RunningIsExplained`: every live field is what the layers in force resolve to
(`LiveFieldsExplained`), what the arguments or the environment pin is in force whatever else was
done (`PinnedIsInForce`), the provenance says `admin` of just the overridden fields
(`ProvenanceIsCurrent`), and the held layer is the one in force unless a start skipped it
(`HeldIsInForce`). `ReportsAreTrue`: what is listed as waiting for a restart would change at one,
and conversely for every field some layer gives; what the console is told of every stored setting is
so. `AnswerIsTrue`: of the three fates a PUT reports, each is the one that befell the setting.
`DriftHasCause`: with nobody at work, the held layer is the stored one, or there is a cause;
`HupResyncs`: SIGHUP cures every cause. `BootFieldsHold`: only a restart moves a boot field.
`RestartIsChecked`: a restart is accepted only if the next start resolves, and it is its address
that was tried; the exception is stated in the property (a field whose source is gone).

## Main, its tasks, keys and limits

Three specifications, explored one at a time by `MCServer` since they share no variable. (What they
share in the program, the shutdown token, the configuration and the stamp of a key, each has as its
own nondeterministic input.)

**`Lifecycle`.** `at` is how far `main` has got, `image` what dies with the process: the token, the
restart request, installed signal handlers, tasks, requests in flight, `lost` (history: who recorded
telemetry after the providers were shut down), and `path`, the `pid_file` this image resolved.
`pid`, `pidfile` (what stands in the file at each path) and what a `captchapi reload` in progress
has read (`client`) outlive it. A signal without a handler kills; handlers are installed by tasks
when these first run. `RecordPid` writes to whatever path arguments, environment, files and store
agree on at this start, and may fail. The end of `main` is its statements: `ServeEnds` (drained, and
the token cancelled by whichever end it was), `Join` (every task), `RemovePid` (not before an exec;
a failed removal is ignored), `Flush`, then `Exit`, `Exec` or `ExecFails`.

`PidFileNamesServer`: every file that holds an id names the server, except the files in `left`. That
history variable says how a file can be left behind: its process was killed, or failed to start after
it was written (`Dies`); its removal failed (`Removes`); or a restart in place took up another path
(`RecordPid`), since the file is kept for the successor (`main.rs:310-314`) and the successor writes
to its own `pid_file` (`main.rs:174-184`), a setting the store may change. A path leaves `left` when a
server writes it again or a removal succeeds. `TelemetryIsFlushed`: whatever requests and tasks
record is recorded before the providers are shut down; the exception is the stamp of a key's last
use, which the middleware spawns and nobody joins (`StampBegins`, `StampEnds`; `auth.rs:89-94`).
`StopsWhenAsked`: a process with a cancelled token ends or is replaced.

**`Watchers`.** `running` is what is published; a receiver knows *that* something changed, not what or
how often. The filter task subscribes when it first runs, follows, skips a level it believes
installed and keeps what is installed if a level does not parse. The sweeper compares the interval
and only then rebuilds its timer. Checked: `BeliefIsTrue`, and `LevelArrives` and `SweepsContinue`:
a level that stays is installed, and sweeps go on however often anything else changes. `early`
marks the one way out: a level that was published before the task subscribed is not noticed until
another one is.

**`Admission`.** The limiter keeps a cell for each address it has not forgotten (`cells`, a function
on those addresses); one it has no cell for has its whole burst. `usage` is a history variable: what an
address has had of this process and was not given back. A request pays, then its key is looked up,
then it is at its handler; the stamp of its last use is detached. An administrator's update is two
statements, or none: a body with neither field makes no statement and is answered 404 whether the key
exists or not (`UpdateMisses`; `storage.rs:312`, `api_keys.rs:110`).
Checked: `RevocationHolds`, `UseWasAdmitted`, `NotFoundIsTrue` (an update that asks for something is
answered 404 only if there is no such key), `QuotaHolds` (`usage` stays within the burst, although the
limiter decides by `cells`: forgetting an address that still has something to give back would
break it; together these four are `AdmissionHolds`), `DeletedStaysDeleted`, and that idle addresses
are forgotten (`IdleAreForgotten`).

**Bounds.** Two process ids, so that one can be reused, and two paths, so that a restart can change
them; the cleanup task and the signal task, since the other two wait for the same token in the same
way; one request and one stamp in flight. Three levels, one that does not parse; intervals 0 (which
`interval_for` raises) and 2. One key, two requests, one address, a burst of 2: keys and addresses
do not meet one another, and the theorems are for any number. The six parts together have 193,655
distinct states.

**Fairness.** `LifeFairness`: a request in flight is answered; `main` takes its next statement when
it is asked to stop; a task comes to rest, and (strongly) ends when at rest with the token
cancelled, since `tokio::select!` picks among ready branches at random and so cannot pass over
one for ever. `WatchFairness`: tasks that are ready run, time passes. `AdmitFairness`: the prune
repeats. Nobody is obliged to call, stop, reload or publish. Deadlock is not checked in `server`: a
stopped server, a parked part and an exhausted instance bound have no next step, and must not.

## The Node.js package

**`Wrapper`.** `made` and `closed` are the instances, `instance` and `instanceConfig` the statics of the
class, `call` the calls of `getInstance`, `clearInstance` and `close` that wait at an await, `got`
what each user holds. `SingletonHolds`: the singleton was made with the key it is remembered
under, and an instance nobody can reach any more is closed, unless calls overlapped or one failed
(`blame`). `ClosedHasCause`: `getInstance` gives out a closed instance only then, or after its user
closed it.

**`NodeCalls`.** The calls of one instance: the closed flag, then statements, each with a connection of the
pool, then the application's callback, which may throw. `close` sets the flag, starts to close the
pool, and answers when the last connection is back. `CallsAreHonest`: a rejected creation left
nothing behind unless a callback threw, and of several deletions of one thing exactly one is told
it did it. `CloseIsFinal`: once `close` has answered, no call touches the database.
`CallsSettle`: every promise settles, and `close` is answered, under weak fairness on each
promise and on the pool.

**Bounds.** Two users, two configurations and three instances: the third is what a leak needs to be
overtaken. Two promises on one connection, one id and one key: a waiting call, a holding call and a
close between them.

The rest of the package is pure: `NodeSetup` (builder, versions, configuration of the binding) and
the binding's half of `Requests`.

## The pure parts

A behaviour of `MCFunctions` chooses a part, then an input, and is done; TLC evaluates the
properties on each. `Inputs` declares the one variable.

| property | parts | compared with |
|---|---|---|
| `LayersAnswer` | where a value comes from, `config show`, a reload of what nobody touched or whose files are gone | the layer on its own; the same configuration resolved again |
| `CommandLineIsRead` | options in every form and order, arguments nothing took, when `reload` finds the server's PID file | what was written; the server's own resolution, store included |
| `InkIsKept` | colours, gradients, lines, circles, curves, displaced, turned, outlined and blurred masks, composition | the HSL formula, ideal lines, de Casteljau, sums and moments of ink |
| `PictureIsLegible` | placement of letters, what a letter draws, interference, noise, brightness | margins, order of letters, independence of deformations, contrast |
| `RequestsAreAnswered` | limits, lifetimes, caches, errors, descriptions of keys, the binding beside the server; routes and what wraps them; the builder and version checks | what was asked; who may reach what |
| `SecretsStayApart` | solution hashes, key derivation, encrypted images | equality of what went in |
| `TelemetryArrives` | endpoints, providers, failed starts, shutdown | one path per signal, each flushed once |

**Abstractions.** `f32` is exact rationals with fixed denominators (displacements in quarters of a
pixel, strokes in eighths, lightness and opacity in hundredths), so statements about a pixel are
"within half a pixel", never exact equality of a rounding. Casts are modelled: `Wide` and `Narrow`
are the moduli, scaled down, at which a 64-bit and a 32-bit integer wrap. SHA-256 and
ChaCha20-Poly1305 are symbolic (a term is equal only to itself), on byte strings with a block of 3
bytes, so that keys longer than a block and strings run together are distinguishable cases. A URL is
a sequence of pieces, a version a sequence of numbers and words. A command line has at most 3
arguments, or 3 options each in one of its forms; a configuration has 2 settings beside the required
secrets, both of one field or both secrets, since fields meet nowhere else. What is random in the
renderer is quantified.

Masks are three rows at most and grids five wide: the code treats rows and columns uniformly, and
the sizes were chosen for every case of a clip, an empty row and an odd pad to occur. One of the
three kernels has a tail whose weight, beside faint ink, is under the cut of `blur_over_mask`
(`drawing.rs:901`). Hollow letters have strokes of 7 to 15 eighths of a pixel, which are those the
generator draws at its usual scale of 35 (0.025 to 0.055 of it, 0.875 to 1.925 pixels), so both a
stroke under a pixel and one over it occur; the primitive alone is given strokes of 0 to 5 pixels.
What is stored when a server starts is nothing, a `pid_file`, the one a file names too, or one
beside a value that does not resolve. Characters are told apart by what
`validate_api_key_description` asks of them: letters of one and two bytes, invisible characters and
changes of direction (three bytes, neither space nor control), spaces, line breaks, tabs and returns
(space and control), and another control character. In all, 132,514 distinct states.

## What is proved

TLAPS proves, for every value of the constants that satisfies the named assumptions:

| module | theorem | property |
|---|---|---|
| `ConfigBootProofs` | `TypeCorrect` | `TypeOK` |
| | `SnapshotIsTable` | `NewestDescribesTable` |
| | `PruningIsSafe` | `OnlyUnreachablePruned` |
| | `TrialsAreExclusive` | `OneTrier` |
| | `VerdictsStand` | `VerdictIsFinal` |
| | `KnownGoodNeverRegresses` | `KnownGoodAdvances` |
| | `OnlyRunSettingsAreConfirmed` (under `Undisturbed`) | `ConfirmedWasRun` |
| | `RollbackRestoresKnownGood` (under `Undisturbed`) | `RolledBackToKnownGood` |
| | `FailedTrialIsRolledBack` | `NextStartRollsBack` |
| | `BootImplementsKnownGood` (under `Undisturbed`) | `ImplementsKnownGood` |
| `SessionsProofs` | `TypeCorrect` | `TypeOK` |
| | `EveryGuessIsCounted` | `NoFreeGuess` |
| | `SolvedSessionsAreGone` | `SolvedIsGone` |
| | `OverrunIsBounded` | `GuessesBounded` |
| | `RefusalsStand` | `RefusalStands` |
| | `DeletionsAreJustified` | `DeletionHasCause` |
| `ConfigHandleProofs` | `SourceIsWhatAnswers` | the two lists of precedence agree, for any layers |
| | `RunningHolds`, `PendingHolds`, `HandleTyped` | `RunningIsExplained`, `PendingIsReal`, `TypeOK` |
| | `BootHolds` | `BootFieldsHold` |
| `ConfigAdminProofs` | `AdminTypeHolds` | `AdminTypeOK` |
| | `AdminRunningHolds`, `AdminBootHolds` | `RunningIsExplained`, `BootFieldsHold`, of a server |
| | `ReportsHold` | `ReportsAreTrue` |
| | `AnswerHolds` | `AnswerIsTrue` |
| | `DriftHolds`, `HupHolds` | `DriftHasCause`, `HupResyncs` |
| | `RestartHolds` | `RestartIsChecked` |
| `PackageProofs` | `SingletonIsTrue`, `ClosedIsNotGiven` | `SingletonHolds`, `ClosedHasCause` |
| | `CallsAreTrue`, `CloseEndsWriting` | `CallsAreHonest`, `CloseIsFinal` |
| `ServerProofs` | `AdmissionIsSafe`, `AdmissionIsTyped` | `AdmissionHolds`, `AdmitTypeOK` |
| | `DeletionIsFinal` | `DeletedStaysDeleted` |
| | `EndsAreOrderly`, `BeliefHolds` | `PidFileNamesServer`, `TelemetryIsFlushed`, `BeliefIsTrue` |
| | `BackgroundIsOrderly`, `StepsAreRight` | `BackgroundHolds`, `StepsAreJustified` |
| | `ServerIsTyped` | `ServerTypeOK` |
| `FunctionProofs` | `LayersAlwaysAnswer` | `LayersAnswer` |
| | `SecretsAlwaysStayApart` | `SecretsStayApart` |
| | `TelemetryAlwaysArrives` | `TelemetryArrives` |
| | `AllRequestsAreAnswered` | `RequestsAreAnswered` |
| | `CommandLinesAreRead` | `CommandLineIsRead` |
| `RenderingProofs` | `PicturesAreLegible` | `PictureIsLegible` |
| | `PrimitivesDraw` | seven of the twelve parts of `InkIsKept` |

The assumptions are named and stand in the module that declares the constants. Most say what kind
of set a constant is. Two say something of the code: what the command line and the environment give
is a field of the table (`PinnedAssumption`; nothing else is ever asked for), and a layer from the store
has storable fields only (`StoredAssumption`; `load` passes over other rows). `Undisturbed` is one process
and no edit from outside while it is up: without it `boot_race` shows `ConfirmedWasRun` false.
`ParkAssumption` gives the parts of the composition that are not explored a value to rest in.

*Config store.* Each safety property is a conjunct of `BookkeepingInv` or `TrialInv`, or follows
from it in one step. `NewestDescribesTable` needs `NewestIsLastId`, since a write makes
`lastId + 1` the newest row. `OneTrier` needs `TrialsAreTried`: a start takes a generation only
when its attempts are zero, and a pending one that some process holds has been tried.
`ConfirmedWasRun` follows the layer through a process: what is on trial is the table until `load`,
then what was loaded, then what served (`TrialIsLoaded`, `ElapsedWasServed`). The proofs take the
transactions of the store one by one and lift them to the steps of the processes.

*Sessions.* `SessionInv` is the inductive invariant. `IdsAreFresh` says that nothing happens to an
id before its INSERT; `StaleReadsHold` that what a request found expired stays expired, that what
it found spent stays spent while the row is there, and that a row's count is never below a limit
anybody was refused under. Every step carries a row on, removes it, or inserts it (`RowsMove`),
which with those two gives `NoFreeGuess`, `SolvedIsGone` and `RefusalStands`.
`GuessesInFlightBounded` counts the requests about to be charged together with those that were: a
request is judged only below the limit, so at that moment at most `MaxLimit - 1` answers were
reported and at most all the callers are in flight.

`NextStartRollsBack` asks what `prepare` can find: a tried generation that is the newest and that no
process holds excludes every branch but the rollback (`FailedTrialIsRolledBack`). For the refinement the
abstract state is read off the table: `TryRefines`, `RevertRefines`, `PromoteRefines` and `WriteRefines` take
a transaction to its abstract step, and every other step to a stutter. They need to know that one server
has at most one trial (`TrialOfOne`) and that a generation it holds is the last row or was overtaken by
a write (`LaterOnesStep`, `VerdictOfLast`).

*Running configuration.* Precedence is written twice, once to fetch and once to name the source;
`SourceIsWhatAnswers` says, for any layers, that the two agree, and the rest stands on it.
`LiveFieldsExplained` is not inductive: a patch resolves with the remembered provenance deciding which
fields are pinned, so `IInv` adds that the overlay names no pinned field (`OverlayFree`) and that the
provenance is right about `admin` (`SourcesAdmin`) and about the arguments and the environment
(`SourcesPinned`). `RInv` is what the reports need beyond: `pending` is the difference a start would make
(`PendingIs`), which asks that a boot field carried over reads back as it runs (`BootSettled`, from
`ParseReadBack`: what `Display` prints, the parser takes for the same). `BootHolds` rests on a comparison
the code keeps by hand: no field `with_boot_fields_from` adopts is a boot field of the table
(`AdoptedAreLive`). Both invariants are preserved by a `Call` of the handle with any argument, so they hold
of the server, whose handlers are such calls (`AdminCalls`).

*Admin API.* `ReportsAreTrue` follows from `RInv`, with `StoredRuns`: what is stored and not shadowed runs.
`DriftHasCause`, `HupResyncs` and `AnswerIsTrue` are about writers that meet, and `Meets` is their
invariant. A writer begins by copying what the handle holds and ends by making the handle hold the copy
it wrote; in between the store runs ahead. So `InStep` says, while there is nothing to blame, that `held`
is the store unless somebody is about to adopt, and that what a handler carries is the store, or will be
once it is written. `Alone` says that writers which do not overlap are one at a time; `ToldIsHeld` that
what a handler was asked for is in the layer it writes and then in the one held, with the drift of then.
`RestartIsChecked` is `DryRunIsNextStart`: with nothing overridden, the dry run resolves what the next
start will.

*Admission.* That a request at its handler was not barred rests on what holds while it waits
(`BarredAreShut`), and that on no revoked key being found (`RevokedAreShut`). `QuotaHolds` is about
`usage`, which no guard looks at; `CellsAreKept` says why the guard on the cells is enough: no cell is
dropped before it is empty, so what the limiter sees is what the address had.

*Process.* `Unwound` is what the order at the end of `main` achieves: once joined, every task is
done. `FilesAreKnown` follows the PID files: one that is not left behind names the process; once the image
has a path there is no other such file; and after `RemovePid` there is one only if the process is to come
back. `LifeKnown` and `WatchKnown`
make the types inductive: a process that is to come back was told to stop, and a period is positive because
`interval_for` raised it (`IntervalsArePositive`).

*Package.* `WrapIInv` follows a lone call: what it is to replace is closed before it creates
(`MakesRoom`), an instance that was closed is the singleton only while the call that closed it is in
flight (`ClosedIsLeaving`). `NodeIInv` has that a closed pool has no connection (`Drained`) and that
what is remembered as deleted is gone (`DeletedAreGone`); every step is silent, creates, deletes, or
tells. `WrapKnown` and `NodeKnown` say what a call may be doing and what it then carries; that no more
connections are out than the pool has is `OnlyAcquireTakes` and `Releases`.

*Composition.* In `MCSpec` a step of one part leaves the others' variables alone, so `MCSpec`
implements each part's specification (`PartsAreImplemented`), and the theorems of the parts carry
over. `ServerIsTyped` needs `KnownIInv`, since a part that rests must be typed too.

*Pure parts.* The theorems of `FunctionProofs` and `RenderingProofs` are of every input, not of
those `MCFunctions` enumerates, and their hypotheses say what an input is. A layer maps fields to
strings, nothing is carried into a start, and the salt is given (`LayeredStack`); for what is shown,
no secret reads like another setting (`SecretsAreApart`), or redacting it would show nothing. A
secret, an id and an answer are any symbols of text or bytes, an id holding no zero byte
(`AnswersGiven`), and an API key no colon, being alphanumeric (`KeysGiven`); the bytes of a row are
those of one image of fixed length, damaged in one of the ways of `Damages` at any place
(`ImagesGiven`). Each step takes one symbolic digest apart. `HmacApart` says one digest is of one
key and one message, `SplitAtFirst` that the zero byte is what keeps id and answer from running
together, `DerivedAt` that a key starts with its domain. An image: `OnlyWritten` says that what is
read was encrypted under this key, nonce and session, so its last symbol is the tag of all it was
made of; and bytes cut or joined hold no tags but those that were written (`DamagedOf`, `TagOf`).

*Requests.* `AnythingAsked` is what may come from outside: a picture of any parameters, any lifetimes
and limits, a description of any length over the characters that are told apart, every route with every
credential and any limiter, any number of calls of the builder's methods, any sequences of numbers for
versions. The bounds of `validation.rs` lie within the renderer's and within every cast (`DrawnAsAsked`), and
server and binding fill in a request alike (`JudgedAlike`), so what is accepted is drawn. An endpoint of
`build_app` is one of four kinds, told by what wraps it (`OpenRoute`, `MasterRoute`, `KeyedRoute`,
`SessionRoute`; `AppRoutes`), and the four are served as `ServedLike` says: the first wrapper that does not
let a request through answers it (`ServedThrough`, `ServedBy`). No two endpoints take the same request
because tables do not, and prefixes keep tables apart (`TableOnce`, `NestedOnce`, `UnionOnce`). Comparing
two versions is decided by the first piece that differs (`Compared`), which makes it an order
(`NoLaterIs`, `ComparedBothWays`, `NoLaterThrough`) and the range from `MIN_CORE_VERSION` to
`MAX_CORE_VERSION` the first major version (`CompatibleIs`).

The model folds where the code loops: over the layers of the router, the bytes of a description, the calls
of a builder. A fold is defined by its own equation, so each closed form is proved in two steps: it
satisfies the equation, and two functions that do are equal, since a set on which they differ would
have a smallest (`CommonLayers`, `BytesAre`, `BuilderAt`; `LeastExists` gives the smallest).

*Rendering.* `PictureAsked` is what a picture can be asked for: any size, number of letters and
level that `validation.rs` lets through, the ends of a gradient anywhere in the band of the mode,
any positive stroke, any colour a speck can have, any combination of deformations switched off. The
layout is integer division, so `LaidOut` is its closed form and the pens are compared through
`RoundOrdered` and `RoundApart`: that letters stay in order up to seven of them is the room a step
leaves beside the most two letters are shifted (`Room`, `ShiftsFit`). Contrast rests on one fact
about HSL (`HslGraded`): whatever the hue and saturation, the lightest and the darkest channel add
up to twice the lightness, to a level. So a colour is told from the ground, from a speck and from
the noise by its lightness (`InkIsSeen`, `SpecksApart`). A hollow letter is what the least coverage
within the stroke leaves (`LeastInside`, `LeastOnEdge`; `HollowStaysEmpty` weighs the two distances
a broken stroke lies between), a softened one the product of two short sums (`HaloIs`, `SoftIs`).
The draws are a sequence of groups, each kept or left out as a whole (`WithoutGroup`). The solid
square, the bar beside a darker neighbour and the six hues are fixed by the property; the stroke,
the direction and depth of the fade, the gap, the saturation asked of an ink and its place in the
band are not.

*Command line.* `LineAsked` is any options of a server, each once and in any way `cli.rs` takes it
(`WaysToWrite`), or any arguments at all (`Lines`) but those with `--help` or `--version`, which end
the reading before anything else is looked at; of a reload nothing is assumed. Options are pulled
out one after another, so each folds into a chain of states (`Chain`; `SharedChain`, `ReloadChain`),
and each half of the property has an invariant of that chain. *No argument is ignored:* every
argument has gone into the values or is left (`Spent`, `Balanced`): one for each option and one more
for each that stands apart from its value, so a line that `finish` lets pass and the same line
without one argument cannot come to the same values (`AcceptedOnce`): the longer one would need an
option that stands apart where the shorter has it joined, and the joined argument is then on the
shorter line only. *Options are read as written:* what is read has the value of its form, and what
is left is made of the forms of the others (`Midway`, `MadeOf`). A value after its option never
looks like an option, being a word, so taking one form out leaves the others whole (`CutLeaves`);
and forms put one after another make such a line (`FormAdds`, `FlattenMakes`). `ReloadWalks` follows
a reload's own walk over the layers, and `PidFileNamed` the server's, which has the stored layer in
it where the start took it up (`BootStack`): the two come to one file just if the store does not
name it or names what the other layers do (`ReloadFinds`). A reload told the process id outright
looks for no file and is left out. What starts with a dash is a flag in the model, so a value that
does is not among the forms.

*Drawing.* `PrimitiveAsked` is what a primitive can be given: any two pixels, any radius, a mask of
any size and coverage at any place on or off a canvas of any size, any stroke, any direction of a
ramp with rational sine and cosine. Colours are in the units of the run. A line and a circle are
recursions over pixels, so each is told from any other function by its equation (`WalksExist`,
`RoundsExist`) and has an invariant of its steps. For a line (`Along`) the error is what the pixels
taken and the coordinate gone make it, and stays between nothing and one step, so no pixel is off by
more than half (`AlongIsNear`), and the last one is where the line ends (`WalkArrives`). For a
circle (`OnCircle`) the decision is where the middle of the next two pixels lies; up to the diagonal
the circle passes within half a pixel of the point, and every column has a point of the octant or
one mirrored at the diagonal (`OctantCovers`), which is why there is no gap. What a stroke leaves is
a blend of the least coverage within two distances (`LeftIs`), and the least falls with the distance
(`LeastFalls`); where the least is none, at the edge, it is the blend alone, which is why a stroke
under a pixel fades the silhouette. A painted pixel is between what was there and the ink
(`BlendBetween`), and the ink between the ends of its gradient (`ShadeBetween`).

Model-checked only: liveness (`SelfHeals`, `ExpiredAreReclaimed`, `ServerProgresses`), which is out
of the prover's reach; and of `InkIsKept` the curves, the displaced, turned and blurred masks and the
smear, where a proof would be induction over sums of pixels that the model folds over sets, and over the
taps of a kernel of any length.

## Where the code and its documentation disagree

| run | property | what happens |
|---|---|---|
| `boot_race` | `ConfirmedWasRun` | `prepare_boot` commits before `load` reads. An edit of the store in between is loaded under the older generation's id, and after thirty seconds the older generation is confirmed although its settings never ran. |
| `boot_masked` | `OnlyResolvingStored` | The check of a candidate resolves it under the runtime overrides and pinned fields of the moment. A value they hide is never parsed, so it is stored although it does not resolve. |
| `sessions_burst` | `AttemptsWithinLimit` | Concurrent validations are judged on the same count. `GuessesBounded` is what does hold. |
| `config_lost_update` | `NoLostUpdate` | A PUT builds its candidate from the handle, writes its own field, and adopts the candidate. Of two that overlap, or of one that overlaps a SIGHUP, the later adoption forgets the other's setting until the next SIGHUP. |
| `server_terminated` | `TerminationIsFinal` | After the drain `main` looks only at whether a restart was requested. A SIGTERM that came before or during the same drain is forgotten: the process replaces itself. |

## Behaviour worth knowing

Met while modelling, and not the subject of a run of its own. Most are in the models, often as the
exception a property states.

*Start-up and store.* Only the newest generation is looked at: if a write opens another between a
failed trial and the next start, that start tries the newer one, failed settings included. Once the
race of `boot_race` has confirmed settings that prevent startup, every start fails and none rolls
back. A failed bind leaves the PID file behind (`main.rs:265`). So does a removal that fails
(`cli.rs:508-510`), and a restart in place after `pid_file` was changed: the comment at
`main.rs:310-314` says the file stays right because the id stays, but the successor writes another
file (`main.rs:174-184`), and nobody removes the first; once the server is stopped it names an id
that may be given out again. A SIGHUP before its handler is installed kills. The stamp of a key's
last use may record its span after the flush (`auth.rs:89-94`, `main.rs:321`).

*Configuration.* `pending_restart` leaves out a boot field whose source has vanished
(`handle.rs:42-44`); the pre-flight of a restart uses the running value for such a field, and tries
to bind a host name it cannot bind, such as `localhost`. A reload through the API uses the layer the
handle remembers and never the store (`docs/API.md:615`). A value that was stored and not adopted is
reported as shadowed by a higher layer. After a start that skipped a stored layer that does not
resolve, a PATCH that overrides the field at fault makes the layer resolve again: `patch` takes the
provenance from it and leaves `pending_restart` alone (`handle.rs:284`), so a boot field is said to
come from the store while the old value runs and nothing is listed as waiting (`docs/API.md:521`,
`540`). PUT with an empty key is answered 404. Nothing bounds `max_session_ttl_seconds`; a default
lifetime above it refuses every request that names none. `captchapi --port --no-env-file 8080` reads
port 8080. A stored `pid_file` is honoured by the server (`main.rs:174-184`) and never read by
`captchapi reload` (`cli.rs:531-559`), which then looks in the wrong place, though the setting is
there so that it "can find it without being told" (`params.rs:119`).

*Sessions and rendering.* Two right answers in flight together are both reported correct;
`SolvedIsGone` covers every later request. The last permitted wrong answer does not delete the
session, the next request does (`docs/API.md:270`). `SOLUTION_MAX_LEN` and `MAX_DESCRIPTION_LENGTH`
count bytes, their messages say characters. Descriptions may hold tabs and carriage returns, and may
consist of zero-width or bidi characters alone (`validation.rs:235-258`). A PATCH of a key with
neither field is answered 404 although the key exists (`storage.rs:312`, `api_keys.rs:110`). Eight
letters or more on a narrow picture can be shifted past each other, so `LettersReadInOrder` says up
to seven at the default size. The comment of `blur_over_mask` says that a share of less than half a
level "rounds back to what was already there" (`drawing.rs:890-894`); `clamp_u8_f32` cuts off
instead (`drawing.rs:28-31`), so a blend that reached such a pixel would take a level from it, and
the region the code tightens to, a box, is not what blurring the whole canvas gives beyond it
(`SmearIsLocalBlur` states both). The comment of `outline` says the outer edge is untouched
(`drawing.rs:657-660`); with a stroke under a pixel, such as the thinnest the generator draws, it is
blended down to that share (`drawing.rs:683-726`).

*Limits and telemetry.* `per_second(n)` of `tower_governor` replenishes one cell every `n` seconds,
not `n` cells a second. With a full traces URL as the endpoint, metrics are sent to a path below it.

*Node.js.* Two concurrent `getInstance` calls leave an instance nobody holds; so does an
`onInitialized` that throws. A second `close()` returns before the first has closed the pool. A
callback that throws turns an operation that is done into a rejection. A description that is refused is
`InvalidArg` from `createApiKey` and `GenericFailure` from `updateApiKey`. `.database("")` passes the
builder, `quickStart("sqlite:...")` doubles the prefix. A compression outside 1..100 is accepted in
the configuration, and then refuses every request that names none. `types.rs` documents a default
length of 5, the code has 6. A pre-release counts as its release (1.0.0-rc.1 is compatible).

## Not modelled

The individual counters and their labels; help texts and the descriptions of settings; 404 and 405 of
unknown paths and methods; rasterising a font and encoding a JPEG (libraries, and properties of
theirs); the static files of the console and its JavaScript; the loading of the native library;
build scripts. They keep no state another part reads. Telemetry is `partly` for that reason: its
endpoints, providers and their end are modelled, its instruments are not.

Axum, Tokio, SQLx and SQLite, `governor`, `pico-args` and the cryptographic libraries are modelled as
the code in `src/` uses them, and their definitions are marked external in the map.
