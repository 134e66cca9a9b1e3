---------------------------- MODULE MCMqttClient ----------------------------
(***************************************************************************)
(* Instances of MqttClient for TLC: a router for each of two topics.             *)
(***************************************************************************)
EXTENDS MqttClient

CONSTANTS a, b, w1, w2

OneEach == [r \in {a, b} |-> IF r = a THEN "A" ELSE "B"]
=============================================================================
