----------------------------- MODULE MCServer -----------------------------
(***************************************************************************)
(* The parts of a process that share no state with each other, one at a    *)
(* time, as chosen at the start: main and its signals ("life"), the tasks  *)
(* that follow the configuration ("watch"), rate limiter and API keys      *)
(* ("keys"), the singleton of the Node.js wrapper ("node"), and the calls  *)
(* of one of its instances, to sessions ("calls") or to keys ("keycalls"). *)
(* The parts that were not chosen stay as they are.                        *)
(***************************************************************************)
EXTENDS Lifecycle, Watchers, Admission, Wrapper, NodeCalls

CONSTANT Modes      \* which parts to explore

VARIABLE mode

ASSUME Modes \subseteq {"life", "watch", "keys", "node", "calls", "keycalls"}

\* There is a process id, and what a parked part rests in is a value it may have.
ASSUME ParkAssumption == Pids # {} /\ "info" \in Levels \ Unparsable /\ 0 \in Intervals

mcVars == <<mode, lifeVars, watchVars, admitVars, wrapVars, nodeVars>>

LifeParked == /\ at = "none" /\ image = NewImage /\ pid = (CHOOSE p \in Pids : TRUE)
              /\ pidfile = [path \in Paths |-> NoFile] /\ client = NoFile /\ left = {}

WatchParked == /\ running = [log_level |-> "info", cleanup_interval_seconds |-> 0]
               /\ filter = "info" /\ stopping = TRUE /\ early = FALSE
               /\ follower = [at |-> "done", current |-> "info", unseen |-> FALSE]
               /\ sweeper = [at |-> "done", period |-> 0, left |-> 1, unseen |-> FALSE]

MCInit ==
  /\ mode \in Modes
  /\ IF mode = "life" THEN LifeInit ELSE LifeParked
  /\ IF mode = "watch" THEN WatchInit ELSE WatchParked
  /\ AdmitInit /\ WrapInit /\ NodeInit

MCNext ==
  \/ /\ mode = "life" /\ LifeNext
     /\ UNCHANGED <<mode, watchVars, admitVars, wrapVars, nodeVars>>
  \/ /\ mode = "watch" /\ WatchNext
     /\ UNCHANGED <<mode, lifeVars, admitVars, wrapVars, nodeVars>>
  \/ /\ mode = "keys" /\ AdmitNext
     /\ UNCHANGED <<mode, lifeVars, watchVars, wrapVars, nodeVars>>
  \/ /\ mode = "node" /\ WrapNext
     /\ UNCHANGED <<mode, lifeVars, watchVars, admitVars, nodeVars>>
  \/ /\ \/ mode = "calls" /\ SessionCallsNext
        \/ mode = "keycalls" /\ KeyCallsNext
     /\ UNCHANGED <<mode, lifeVars, watchVars, admitVars, wrapVars>>

\* A part that stays as it is has none of its fair actions enabled.
MCSpec ==
  /\ MCInit /\ [][MCNext]_mcVars
  /\ LifeFairness /\ WatchFairness /\ AdmitFairness /\ NodeFairness

-----------------------------------------------------------------------------
(***************************************************************************)
(* The properties of the parts, together.                                  *)
(***************************************************************************)
ServerTypeOK == LifeTypeOK /\ WatchTypeOK /\ AdmitTypeOK /\ WrapTypeOK /\ NodeTypeOK

\* The process leaves a PID file only where it must, loses no telemetry, and
\* its filter task never believes a level installed that is not.
BackgroundHolds == PidFileNamesServer /\ TelemetryIsFlushed /\ BeliefIsTrue

\* No step brings a deleted key back, answers with a closed instance without a
\* cause, or touches the database of a closed instance.
StepsAreJustified == DeletedStaysDeleted /\ ClosedHasCause /\ CloseIsFinal

\* A stop stops, a level and an interval are taken up, idle clients are
\* forgotten, and every promise settles.
ServerProgresses ==
  /\ StopsWhenAsked /\ LevelArrives /\ SweepsContinue
  /\ IdleAreForgotten /\ CallsSettle
=============================================================================
