------------------------------ MODULE MCMqttLink ------------------------------
(* A small instance of MqttLink: one topic, two retries, three events.     *)
EXTENDS MqttLink
=============================================================================
