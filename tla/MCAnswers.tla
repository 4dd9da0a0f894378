--------------------------- MODULE MCAnswers ----------------------------
(***************************************************************************)
(* What is asked of the program from outside: requests of the server and   *)
(* of the bindings, and instances of the bindings.                         *)
(***************************************************************************)
EXTENDS MCRequests, MCRoutes, MCNodeSetup

\* The server and the bindings grant what may be granted to who may have it,
\* and an instance of the bindings is the one that was asked for.
RequestsAreAnswered == RequestsAreJudged /\ RequestsAreAdmitted /\ InstancesAreAsAsked
=============================================================================
