--------------------------- MODULE MCConfigReload ---------------------------
(* Instances of ConfigReload for TLC. *)
EXTENDS ConfigReload

CONSTANTS start, good, schema, garbage, call
=============================================================================
