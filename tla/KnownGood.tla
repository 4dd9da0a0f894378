---------------------------- MODULE KnownGood ----------------------------
(***************************************************************************)
(* What the config store promises, without the generation table: a current *)
(* configuration, the last one that proved itself, and one trial at a      *)
(* time.  Whatever is written is untried; a start tries it once; if that   *)
(* start proves it, it becomes the known good one, and if not, the next    *)
(* start that finds it tried goes back to the known good one.              *)
(*                                                                         *)
(* ConfigBoot is shown to implement this for one server process.           *)
(***************************************************************************)
CONSTANTS
  Layers,      \* the configurations there are
  Baseline,    \* the one of them that nothing stored amounts to
  NoLayer      \* not one of them

VARIABLES
  current,     \* what the next start will read
  good,        \* what a rollback would restore
  verdict,     \* "untried", "tried" or "settled": the standing of current
  onTrial      \* the configuration a live process is trying, or NoLayer

kgVars == <<current, good, verdict, onTrial>>

Init ==
  /\ current \in Layers
  /\ good = Baseline
  /\ verdict = "settled"
  /\ onTrial = NoLayer

Write ==
  /\ current' \in Layers
  /\ verdict' = "untried"
  /\ UNCHANGED <<good, onTrial>>

Try ==
  /\ verdict = "untried"
  /\ onTrial = NoLayer
  /\ verdict' = "tried"
  /\ onTrial' = current
  /\ UNCHANGED <<current, good>>

\* The process died, or could not apply what it was trying.
Abandon ==
  /\ onTrial # NoLayer
  /\ onTrial' = NoLayer
  /\ UNCHANGED <<current, good, verdict>>

\* The trial succeeded, whether or not something was written meanwhile.
Promote ==
  /\ onTrial # NoLayer
  /\ good' = onTrial
  /\ onTrial' = NoLayer
  /\ verdict' = IF verdict = "tried" THEN "settled" ELSE verdict
  /\ UNCHANGED current

\* Only once the trial is over.
Revert ==
  /\ verdict = "tried"
  /\ onTrial = NoLayer
  /\ current' = good
  /\ verdict' = "settled"
  /\ UNCHANGED <<good, onTrial>>

Next == Write \/ Try \/ Abandon \/ Promote \/ Revert

Spec == Init /\ [][Next]_kgVars
=============================================================================
