----------------------------- MODULE Watchers ---------------------------
(***************************************************************************)
(* The tasks that follow the running configuration through its watch       *)
(* channel: the log filter and the cleanup interval.  A receiver sees that *)
(* the configuration has changed since it last looked, never how often.    *)
(***************************************************************************)
EXTENDS Naturals

CONSTANTS
  Levels,       \* values of log_level
  Unparsable,   \* those the filter does not understand
  Intervals,    \* values of cleanup_interval_seconds
  Default       \* the filter that replaces an unparsable one at startup

VARIABLES
  running,      \* the configuration as published
  follower,     \* the log filter task
  filter,       \* the directives the subscriber runs with
  sweeper,      \* the cleanup task
  stopping,     \* the shutdown token is cancelled
  early         \* history: what the filter task subscribed to was not installed

watchVars == <<running, follower, filter, sweeper, stopping, early>>

ASSUME WatchAssumption ==
  Intervals \subseteq Nat /\ Unparsable \subseteq Levels /\ Default \notin Levels

FilterParses(level) == level \notin Unparsable

\* log_filter, at startup; LogFilterHandle::apply on the final configuration
\* comes to the same, except that it keeps what there is.
log_filter(level) == IF FilterParses(level) THEN level ELSE Default

\* interval_for: a whole period to the first tick, and never none.
interval_for(seconds) == IF seconds = 0 THEN 1 ELSE seconds

\* The two resolves of a start may give different levels; a level that does
\* not parse leaves the earlier one.  The cleanup task subscribes before it is
\* spawned.
WatchInit ==
  /\ running \in [log_level : Levels, cleanup_interval_seconds : Intervals]
  /\ \E first \in Levels :
       filter = IF FilterParses(running.log_level) THEN running.log_level
                ELSE log_filter(first)
  /\ follower = [at |-> "spawned", current |-> Default, unseen |-> FALSE]
  /\ sweeper = [at |-> "watching", period |-> running.cleanup_interval_seconds,
                left |-> interval_for(running.cleanup_interval_seconds), unseen |-> FALSE]
  /\ stopping = FALSE /\ early = FALSE

-----------------------------------------------------------------------------
\* watch::Sender::send, by a reload, an adoption or a patch.
Publish ==
  /\ running' \in [log_level : Levels, cleanup_interval_seconds : Intervals]
  /\ follower' = [follower EXCEPT !.unseen = follower.at = "watching"]
  /\ sweeper' = [sweeper EXCEPT !.unseen = TRUE]
  /\ UNCHANGED <<filter, stopping, early>>

\* The filter task runs for the first time: it subscribes, and takes what is
\* published now for what is installed.
Subscribe ==
  /\ follower.at = "spawned"
  /\ follower' = [at |-> "watching", current |-> running.log_level, unseen |-> FALSE]
  /\ early' = (running.log_level # filter)
  /\ UNCHANGED <<running, filter, sweeper, stopping>>

\* changed(): a level that is new to the task is installed if it parses;
\* otherwise it is still new the next time.
Follow ==
  /\ follower.at = "watching" /\ follower.unseen
  /\ LET next == running.log_level IN
       IF next = follower.current \/ ~FilterParses(next)
       THEN /\ follower' = [follower EXCEPT !.unseen = FALSE]
            /\ UNCHANGED <<filter, early>>
       ELSE /\ follower' = [follower EXCEPT !.unseen = FALSE, !.current = next]
            /\ filter' = next
            /\ early' = FALSE
  /\ UNCHANGED <<running, sweeper, stopping>>

\* Mutant: every change of the configuration starts the interval anew.
FollowIntervalAlways ==
  /\ sweeper.at = "watching" /\ sweeper.unseen
  /\ LET next == running.cleanup_interval_seconds IN
       sweeper' = [sweeper EXCEPT !.unseen = FALSE, !.period = next,
                                  !.left = interval_for(next)]
  /\ UNCHANGED <<running, follower, filter, stopping, early>>

\* changed() in the cleanup task.
FollowInterval ==
  /\ sweeper.at = "watching" /\ sweeper.unseen
  /\ LET next == running.cleanup_interval_seconds IN
       sweeper' = IF next = sweeper.period THEN [sweeper EXCEPT !.unseen = FALSE]
                  ELSE [sweeper EXCEPT !.unseen = FALSE, !.period = next,
                                       !.left = interval_for(next)]
  /\ UNCHANGED <<running, follower, filter, stopping, early>>

Second ==
  /\ sweeper.at = "watching" /\ sweeper.left > 0
  /\ sweeper' = [sweeper EXCEPT !.left = @ - 1]
  /\ UNCHANGED <<running, follower, filter, stopping, early>>

\* A tick: cleanup_expired_sessions, and retain_recent on the rate limiter.
Tick ==
  /\ sweeper.at = "watching" /\ sweeper.left = 0
  /\ sweeper' = [sweeper EXCEPT !.left = interval_for(sweeper.period)]
  /\ UNCHANGED <<running, follower, filter, stopping, early>>

Shutdown ==
  /\ ~stopping
  /\ stopping' = TRUE
  /\ UNCHANGED <<running, follower, filter, sweeper, early>>

\* Both tasks look for the token; the cleanup task sweeps a last time.
Leave ==
  /\ stopping
  /\ \/ /\ follower.at = "watching"
        /\ follower' = [follower EXCEPT !.at = "done"] /\ UNCHANGED sweeper
     \/ /\ sweeper.at = "watching"
        /\ sweeper' = [sweeper EXCEPT !.at = "done"] /\ UNCHANGED follower
  /\ UNCHANGED <<running, filter, stopping, early>>

WatchNext ==
  Publish \/ Subscribe \/ Follow \/ FollowInterval \/ Second \/ Tick \/ Shutdown \/ Leave

\* The runtime runs a task that is ready, time passes, and select! picks
\* among its ready branches at random.
WatchFairness ==
  /\ WF_watchVars(Subscribe) /\ WF_watchVars(Follow)
  /\ WF_watchVars(FollowInterval) /\ WF_watchVars(Second) /\ WF_watchVars(Tick)

WatchSpec == WatchInit /\ [][WatchNext]_watchVars /\ WatchFairness

-----------------------------------------------------------------------------
(***************************************************************************)
(* Properties.                                                             *)
(***************************************************************************)
WatchTypeOK ==
  /\ running \in [log_level : Levels, cleanup_interval_seconds : Intervals]
  /\ filter \in (Levels \ Unparsable) \union {Default}
  /\ follower.at \in {"spawned", "watching", "done"}
  /\ sweeper.at \in {"watching", "done"}
  /\ sweeper.left \in 0 .. interval_for(sweeper.period)
  /\ stopping \in BOOLEAN /\ early \in BOOLEAN

\* What the filter task believes to be installed is what is installed, unless
\* it subscribed to something else and nothing was installed since.  The task
\* skips a level that equals its belief, so a wrong belief would leave the
\* filter behind for good.
BeliefIsTrue ==
  follower.at # "spawned" /\ ~early => follower.current = filter

\* A log level that is published and stays is installed, if it parses,
\* unless it is the one the task subscribed to.
LevelArrives ==
  \A l \in Levels \ Unparsable :
    <>[](running.log_level = l /\ ~stopping) =>
      <>[](filter = l \/ (early /\ follower.current = l))

\* Sessions keep being swept while the interval stays the same, however
\* often the rest of the configuration changes; and a new interval is taken
\* up.
SweepsContinue ==
  \A s \in Intervals :
    <>[](running.cleanup_interval_seconds = s /\ ~stopping) =>
      /\ []<>(sweeper.left = 0)
      /\ <>[](sweeper.period = s)
=============================================================================
