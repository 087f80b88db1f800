--------------------------- MODULE MCEmbeddedLog ---------------------------
(* EmbeddedLog for TLC: a few records, small segments, one or two restarts. *)
EXTENDS EmbeddedLog

(* The default of delivery.max_retries: never give up. *)
Forever == -1
=============================================================================
