---------------------------- MODULE Lifecycle ---------------------------
(***************************************************************************)
(* main: a process from its start to its end, the signals it gets, its     *)
(* background tasks, an in-place restart, and the PID files by which       *)
(* `captchapi reload` finds it.  Which file is written is a setting, read  *)
(* afresh by every image.                                                  *)
(*                                                                         *)
(* A signal that no handler is installed for ends the process.  Handlers   *)
(* are installed by tasks, when these first run, and stay until the        *)
(* process ends or is replaced.                                            *)
(***************************************************************************)
EXTENDS Naturals

CONSTANTS
  Pids,           \* process ids
  Paths,          \* what pid_file may be set to
  NoFile,         \* there is no such file, or no id in it
  Tasks,          \* bound: which of the background tasks there are
  MaxRequests     \* bound: requests in flight at once

VARIABLES
  at,         \* how far main has got
  image,      \* what the process has in memory
  pid,        \* its id
  pidfile,    \* the id in the file at each path
  client,     \* captchapi reload: the id it has read
  left        \* history: paths of files that have been left behind

lifeVars == <<at, image, pid, pidfile, client, left>>

AllTasks == {"cleanup", "log_filter", "confirm", "reload"}

ASSUME LifeAssumption ==
  NoFile \notin Pids \union Paths /\ MaxRequests \in Nat /\ "reload" \in Tasks /\ Tasks \subseteq AllTasks

Positions == {"none", "boot", "recorded", "spawned", "serving", "draining", "joining",
              "joined", "removed", "flushed"}

\* token: the shutdown token is cancelled.  requested: RestartHandle.
\* handles: the signals a handler is installed for.  path: the pid_file of
\* this image.  serving: requests in flight.  stamping: a key's last use is
\* being stamped by a task nobody waits for (bound: one at a time).  lost
\* (history): who recorded telemetry that nobody exports any more.  told
\* (history): a SIGTERM was delivered.
NewImage == [token |-> FALSE, requested |-> FALSE, handles |-> {}, path |-> NoFile,
             task |-> [t \in Tasks |-> "unborn"], serving |-> 0, stamping |-> FALSE,
             lost |-> {}, told |-> FALSE]

LifeInit ==
  /\ at = "none" /\ image = NewImage
  /\ pid \in Pids
  /\ pidfile = [path \in Paths |-> NoFile] /\ client = NoFile /\ left = {}

-----------------------------------------------------------------------------
(***************************************************************************)
(* Beginnings and ends.                                                    *)
(***************************************************************************)
\* The files that name this process.
Mine == {path \in Paths : pidfile[path] = pid}

Gone ==
  /\ at' = "none"
  /\ image' = NewImage
  /\ UNCHANGED <<pid, client>>

\* An end that removes nothing.
Dies == Gone /\ left' = left \union Mine /\ UNCHANGED pidfile

\* remove_pid_file, whose failure is ignored.
Removes(path) ==
  \/ pidfile' = [pidfile EXCEPT ![path] = NoFile] /\ left' = left \ {path}
  \/ pidfile[path] # NoFile /\ left' = left \union {path} /\ UNCHANGED pidfile

Reaches(position) ==
  /\ at' = position
  /\ UNCHANGED <<image, pid, pidfile, client, left>>

\* main, up to the point where the configuration is known.  Ids that are free
\* are given out again.
Start ==
  /\ at = "none"
  /\ at' = "boot"
  /\ pid' \in Pids
  /\ UNCHANGED <<image, pidfile, client, left>>

\* A configuration, a database or a migration that stops the start.
StartFails == at = "boot" /\ Dies

\* write_pid_file, best effort, to the path that arguments, environment, files
\* and store now agree on.  A predecessor may have kept another: that file is
\* nobody's from here on.  A write that fails may have emptied the file.
RecordPid ==
  /\ at = "boot"
  /\ at' = "recorded"
  /\ \E path \in Paths :
       /\ image' = [image EXCEPT !.path = path]
       /\ \E content \in {pid, NoFile, pidfile[path]} :
            pidfile' = [pidfile EXCEPT ![path] = content]
       /\ left' = {p \in left \union Mine : p = path => pidfile'[p] \notin {pid, NoFile}}
  /\ UNCHANGED <<pid, client>>

\* The tasks are spawned; each runs when the runtime gets to it.
SpawnTasks ==
  /\ at = "recorded"
  /\ at' = "spawned"
  /\ image' = [image EXCEPT !.task = [t \in Tasks |-> "spawned"]]
  /\ UNCHANGED <<pid, pidfile, client, left>>

Bind == at = "spawned" /\ Reaches("serving")

\* The error is returned from main: nothing is joined, removed or flushed.
BindFails == at = "spawned" /\ Dies

Crash == at # "none" /\ Dies

-----------------------------------------------------------------------------
(***************************************************************************)
(* Serving, and being asked to stop.                                       *)
(***************************************************************************)
Remembers(memory) ==
  /\ image' = memory
  /\ UNCHANGED <<at, pid, pidfile, client, left>>

\* Telemetry is recorded: it is exported, unless the providers are shut down.
LostOf(who) == image.lost \union IF at = "flushed" THEN {who} ELSE {}

\* shutdown_signal is polled for the first time.
AwaitSignals ==
  /\ at = "serving" /\ "TERM" \notin image.handles
  /\ Remembers([image EXCEPT !.handles = @ \union {"TERM"}])

Request ==
  /\ at = "serving" /\ image.serving < MaxRequests
  /\ Remembers([image EXCEPT !.serving = @ + 1])

Answer ==
  /\ at \in {"serving", "draining"} /\ image.serving > 0
  /\ Remembers([image EXCEPT !.serving = @ - 1, !.lost = LostOf("work")])

\* The middleware lets a request in, and spawns the update of last_used_at.
StampBegins ==
  /\ image.serving > 0 /\ ~image.stamping
  /\ Remembers([image EXCEPT !.stamping = TRUE])

\* The update is instrumented, and comes whenever the runtime gets to it, as
\* long as the process is there.
StampEnds ==
  /\ image.stamping
  /\ Remembers([image EXCEPT !.stamping = FALSE, !.lost = LostOf("stamp")])

Drains(memory) ==
  /\ at' = "draining"
  /\ image' = [memory EXCEPT !.token = TRUE]
  /\ UNCHANGED <<pid, pidfile, client, left>>

\* SIGTERM or Ctrl-C.  Only the first wakes shutdown_signal.
Terminate ==
  /\ at # "none"
  /\ \/ "TERM" \notin image.handles /\ Dies
     \/ /\ "TERM" \in image.handles /\ at = "serving"
        /\ Drains([image EXCEPT !.told = TRUE])
     \/ /\ "TERM" \in image.handles /\ at # "serving"
        /\ Remembers([image EXCEPT !.told = TRUE])

\* Mutant: the request is noted, and nothing is cancelled.
RequestRestartQuietly ==
  /\ at \in {"serving", "draining"} /\ image.serving > 0
  /\ Remembers([image EXCEPT !.requested = TRUE])

\* RestartHandle::request, by a request in flight, which is answered like any
\* other.  shutdown_signal watches the token, too.
RequestRestart ==
  /\ at \in {"serving", "draining"} /\ image.serving > 0
  /\ Drains([image EXCEPT !.requested = TRUE])

\* The reload task's first step is to install its handler.
TaskBegins(t) ==
  /\ image.task[t] = "spawned"
  /\ Remembers([image EXCEPT !.task[t] = "idle",
                             !.handles = @ \union IF t = "reload" THEN {"HUP"} ELSE {}])

\* A tick, a change of the configuration, the end of CONFIRM_AFTER.
TaskWakes(t) ==
  /\ t # "reload" /\ image.task[t] = "idle"
  /\ Remembers([image EXCEPT !.task[t] = "busy"])

\* The confirm task has one thing to do.
TaskRests(t) ==
  /\ image.task[t] = "busy"
  /\ Remembers([image EXCEPT !.task[t] = IF t = "confirm" THEN "done" ELSE "idle",
                             !.lost = LostOf("work")])

\* A task that is idle notices the token; one at work, when it is done.  The
\* cleanup task sweeps once more, and counts what it removed.
TaskEnds(t) ==
  /\ image.task[t] = "idle" /\ image.token
  /\ Remembers([image EXCEPT !.task[t] = "done",
                             !.lost = IF t = "cleanup" THEN LostOf("work") ELSE @])

-----------------------------------------------------------------------------
(***************************************************************************)
(* The end of main.                                                        *)
(***************************************************************************)
Stops == at = "draining" /\ image.serving = 0

\* axum::serve returns: everything is answered, or it failed.
ServeEnds ==
  /\ Stops \/ at = "serving"
  /\ at' = "joining"
  /\ image' = [image EXCEPT !.serving = 0, !.token = TRUE]
  /\ UNCHANGED <<pid, pidfile, client, left>>

\* Mutant: telemetry is shut down without waiting for the tasks.
JoinNothing == at = "joining" /\ Reaches("joined")

Join ==
  /\ at = "joining"
  /\ \A t \in Tasks : image.task[t] = "done"
  /\ Reaches("joined")

\* The file is removed, unless the process comes back under the same id.
RemovePid ==
  /\ at = "joined"
  /\ at' = "removed"
  /\ IF image.requested THEN UNCHANGED <<pidfile, left>> ELSE Removes(image.path)
  /\ UNCHANGED <<image, pid, client>>

\* shutdown_telemetry, which exports what was recorded and takes the providers
\* out of their slots.
Flush == at = "removed" /\ Reaches("flushed")

Exit == at = "flushed" /\ ~image.requested /\ Gone /\ UNCHANGED <<pidfile, left>>

\* exec_self: a new image under the same id, with no handlers.
Exec ==
  /\ at = "flushed" /\ image.requested
  /\ at' = "boot"
  /\ image' = NewImage
  /\ UNCHANGED <<pid, pidfile, client, left>>

\* The executable is gone: exit, so that a supervisor can retry.
ExecFails == at = "flushed" /\ image.requested /\ Gone /\ Removes(image.path)

-----------------------------------------------------------------------------
(***************************************************************************)
(* Everybody else.                                                         *)
(***************************************************************************)
\* captchapi reload: read_pid_file, at the path its own arguments lead to, then
\* send_reload_signal.
ReadPidFile ==
  /\ client = NoFile
  /\ \E path \in Paths : client' = pidfile[path]
  /\ UNCHANGED <<at, image, pid, pidfile, left>>

\* The signal wakes the reload task, kills the server, hits another program
\* or nobody.
SendReloadSignal ==
  /\ client # NoFile
  /\ client' = NoFile
  /\ \/ (at = "none" \/ client # pid) /\ UNCHANGED <<at, image, left>>
     \/ /\ at # "none" /\ client = pid /\ "HUP" \notin image.handles
        /\ at' = "none" /\ image' = NewImage /\ left' = left \union Mine
     \/ /\ at # "none" /\ client = pid /\ "HUP" \in image.handles
        /\ image' = [image EXCEPT !.task["reload"] = IF @ = "idle" THEN "busy" ELSE @]
        /\ UNCHANGED <<at, left>>
  /\ UNCHANGED <<pid, pidfile>>

TaskStep(t) == TaskBegins(t) \/ TaskWakes(t) \/ TaskRests(t) \/ TaskEnds(t)

LifeNext ==
  \/ Start \/ StartFails \/ RecordPid \/ SpawnTasks \/ Bind \/ BindFails \/ Crash
  \/ AwaitSignals \/ Request \/ StampBegins \/ StampEnds \/ Answer \/ Terminate \/ RequestRestart
  \/ \E t \in Tasks : TaskStep(t)
  \/ ServeEnds \/ Join \/ RemovePid \/ Flush \/ Exit \/ Exec \/ ExecFails
  \/ ReadPidFile \/ SendReloadSignal

\* What the process does without being asked, once it has to stop: requests
\* end, a task that works comes to rest, and one that is at rest sees the
\* token sooner or later, since select! picks among its ready branches at
\* random.
LifeFairness ==
  /\ WF_lifeVars(Answer \/ (Stops /\ ServeEnds))
  /\ WF_lifeVars(Join \/ RemovePid \/ Flush \/ Exit \/ Exec \/ ExecFails)
  /\ \A t \in Tasks : /\ WF_lifeVars(TaskBegins(t) \/ TaskRests(t))
                      /\ SF_lifeVars(TaskEnds(t))

LifeSpec == LifeInit /\ [][LifeNext]_lifeVars /\ LifeFairness

-----------------------------------------------------------------------------
(***************************************************************************)
(* Properties.                                                             *)
(***************************************************************************)
LifeTypeOK ==
  /\ at \in Positions /\ pid \in Pids /\ client \in Pids \union {NoFile}
  /\ pidfile \in [Paths -> Pids \union {NoFile}] /\ left \subseteq Paths
  /\ image.handles \subseteq {"HUP", "TERM"} /\ image.serving \in 0 .. MaxRequests
  /\ image.task \in [Tasks -> {"unborn", "spawned", "idle", "busy", "done"}]
  /\ image.path \in Paths \union {NoFile}
  /\ image.path = NoFile <=> at \in {"none", "boot"}
  /\ image.requested => image.token

\* A PID file names the server, unless, since it was written, a process was
\* killed or ended by an error of its start, its removal failed, or a restart
\* in place took up another pid_file: whatever order signals, restarts and
\* failed execs come in, no other end leaves a file that makes `captchapi
\* reload` signal an unrelated process.
PidFileNamesServer ==
  \A path \in Paths :
    pidfile[path] # NoFile /\ (at = "none" \/ pidfile[path] # pid) => path \in left

\* No telemetry of a request or of a task is lost at an orderly end, or in a
\* restart: all of them come to rest before the providers are shut down.  Only
\* the stamp of a key, which nobody waits for, may record after that.
TelemetryIsFlushed == image.lost \subseteq {"stamp"}

\* A process that was asked to stop does, tasks and all, or is replaced.
StopsWhenAsked ==
  image.token ~> (at = "none" \/ at = "boot")

\* `docker stop` keeps working: a process that has been told to terminate is
\* never replaced by one that has not (restart.rs, docs/API.md).
TerminationIsFinal == [][image.told => at' # "boot"]_lifeVars
=============================================================================
