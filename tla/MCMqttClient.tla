---------------------------- MODULE MCMqttClient ----------------------------
(* TLC instances of MqttClient. *)
EXTENDS MqttClient
=============================================================================
