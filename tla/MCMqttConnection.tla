-------------------------- MODULE MCMqttConnection --------------------------
(***************************************************************************)
(* Instances of MqttConnection for TLC.                                    *)
(***************************************************************************)
EXTENDS MqttConnection

CONSTANTS c1, c2

=============================================================================
