--------------------------- MODULE MCSessions ---------------------------
(* Small instances of Sessions: callers are interchangeable. *)
EXTENDS Sessions, TLC

CallerSymmetry == Permutations(Callers)

=============================================================================
