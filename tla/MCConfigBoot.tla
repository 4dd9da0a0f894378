-------------------------- MODULE MCConfigBoot --------------------------
(* A small instance of ConfigBoot: two fields, one of them never storable. *)
EXTENDS ConfigBoot, TLC

CONSTANTS port, level, master, ok, other, garbage, taken

OneEnvironment == {{}}
TwoEnvironments == {{}, {port}}

=============================================================================
