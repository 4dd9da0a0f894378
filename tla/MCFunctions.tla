-------------------------- MODULE MCFunctions ---------------------------
(***************************************************************************)
(* The pure parts of the program, in one run.  A behaviour first says      *)
(* which part it is about, and then gives that part one input; the layers  *)
(* of a configuration are filled a setting at a time.                      *)
(***************************************************************************)
EXTENDS MCResolution, MCCommandLine, MCDrawing, MCRendering, MCAnswers, MCSecrets,
        MCTelemetry

Parts == {"resolution", "options", "words", "color", "shapes", "masks", "rendering",
          "requests", "routes", "instances", "secrets", "telemetry"}

About(part) == [of |-> "nothing", part |-> part]

FunctionsInit == input = NoInput

Turn == input = NoInput /\ \E part \in Parts : input' = About(part)

Give ==
  \/ input = About("resolution") /\ PickStack
  \/ input = About("options") /\ (PickOptions \/ PickReload)
  \/ input = About("words") /\ PickWords
  \/ input = About("color") /\ PickColors
  \/ input = About("shapes") /\ PickShapes
  \/ input = About("masks") /\ PickMasks
  \/ input = About("rendering") /\ PickRendering
  \/ input = About("requests") /\ PickRequests
  \/ input = About("routes") /\ PickRouted
  \/ input = About("instances") /\ (PickBuilder \/ PickVersions)
  \/ input = About("secrets") /\ PickSecrets
  \/ input = About("telemetry") /\ PickTelemetry

FunctionsNext == Turn \/ Give \/ Fill

FunctionsSpec == FunctionsInit /\ [][FunctionsNext]_input
=============================================================================
