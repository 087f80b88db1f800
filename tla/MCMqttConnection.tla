------------------------- MODULE MCMqttConnection --------------------------
(* MqttConnection for TLC: one caller of each kind. *)
EXTENDS MqttConnection

CONSTANTS s1, k1, r1
=============================================================================
