----------------------------- MODULE Inputs -----------------------------
(***************************************************************************)
(* The pure parts of the program are checked one input at a time: the      *)
(* first state has none, and every other holds one input, tagged with what *)
(* it is an input of.                                                      *)
(***************************************************************************)
VARIABLE input

NoInput == [of |-> "none"]

Given_(tag) == input.of = tag
=============================================================================
